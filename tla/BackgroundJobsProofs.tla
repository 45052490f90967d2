------------------------ MODULE BackgroundJobsProofs ------------------------
(***************************************************************************)
(* Proofs about BackgroundJobs for every set of jobs and requests and every *)
(* value of the capacities: type correctness, at most one start per job     *)
(* over all restarts, and the accounting and the bound of the capacity.     *)
(***************************************************************************)
EXTENDS BackgroundJobs, FiniteSetTheorems, SequenceTheorems, TLAPS

States == Live \cup Terminal \cup {"absent"}

-----------------------------------------------------------------------------
(* Types of the operators the actions are built from                        *)

\* The absent record is a record.
LEMMA NoRecordType == NoRecord \in Record
  BY DEF NoRecord, Record, Live, Terminal

\* A freshly admitted record is a record.
LEMMA NewRecordType == NewRecord \in Record
  BY DEF NewRecord, NoRecord, Record, Live, Terminal

\* What startup makes of an unfinished record is a record.
LEMMA InterruptedType == Interrupted \in Record
  BY DEF Interrupted, Record, Live, Terminal

\* run()'s catch block leaves a record, whatever the error.
LEMMA CaughtType ==
  ASSUME NEW r \in Record, NEW err, NEW ab \in BOOLEAN
  PROVE  Caught(r, err, ab) \in Record
  BY DEF Caught, Record, Live, Terminal

\* So do the assignments after its audit write.
LEMMA EvidencedType ==
  ASSUME NEW r \in Record, NEW err, NEW ab \in BOOLEAN
  PROVE  Evidenced(r, err, ab) \in Record
  BY DEF Evidenced, Record, Live, Terminal

\* A published result leaves a record.
LEMMA PublishedType ==
  ASSUME NEW r \in Record, NEW end PROVE Published(r, end) \in Record
<1> DEFINE s == CASE end = "timeout" -> "timed_out"
                  [] end = "ok" -> "completed"
                  [] OTHER -> "failed"
<1>1. s \in {"timed_out", "completed", "failed"}
  OBVIOUS
<1> QED
  BY <1>1 DEF Published, Record, Live, Terminal

\* Setting the state keeps a record a record.
LEMMA SetState ==
  ASSUME NEW r \in Record, NEW s \in States
  PROVE  [r EXCEPT !.state = s] \in Record
  BY DEF Record, States, Live, Terminal

\* So does a cancellation request.
LEMMA SetTerm ==
  ASSUME NEW r \in Record
  PROVE  [r EXCEPT !.term = "requested"] \in Record
  BY DEF Record

\* So does the outcome of an audit write.
LEMMA SetAudit ==
  ASSUME NEW r \in Record, NEW s \in {"confirmed", "unavailable"}
  PROVE  [r EXCEPT !.audit = s] \in Record
  BY DEF Record

\* So does withholding the result.
LEMMA WithheldType ==
  ASSUME NEW r \in Record PROVE Withheld(r) \in Record
  BY DEF Withheld, Record

\* Every operation of a job is a ticket of the store queue.
LEMMA OpType ==
  ASSUME NEW j \in Jobs, NEW o \in Ops PROVE Op(j, o) \in Tickets
  BY DEF Op, Tickets

\* A function on 1 .. n is a sequence.
LEMMA FunctionIsSeq ==
  ASSUME NEW T, NEW n \in Nat, NEW f \in [1 .. n -> T]
  PROVE  f \in Seq(T)
  OBVIOUS

\* Removing an element of a sequence leaves a sequence.
LEMMA RemoveAtType ==
  ASSUME NEW T, NEW q \in Seq(T), NEW i \in 1 .. Len(q)
  PROVE  RemoveAt(q, i) \in Seq(T)
<1>1. SubSeq(q, 1, i - 1) \in Seq(T) /\ SubSeq(q, i + 1, Len(q)) \in Seq(T)
  BY SubSeqProperties, LenProperties
<1> QED
  BY <1>1, ConcatProperties DEF RemoveAt

\* Removing any but the first leaves the sequence nonempty.
LEMMA RemoveAtKeepsHead ==
  ASSUME NEW T, NEW q \in Seq(T), NEW i \in 1 .. Len(q), i > 1
  PROVE  RemoveAt(q, i) # <<>>
<1> DEFINE a == SubSeq(q, 1, i - 1)
           b == SubSeq(q, i + 1, Len(q))
<1>1. a \in Seq(T) /\ b \in Seq(T)
  BY SubSeqProperties, LenProperties
<1>2. Len(a) = i - 1
  BY SubSeqProperties, LenProperties
<1>3. Len(a \o b) = Len(a) + Len(b)
  BY <1>1, ConcatProperties
<1>4. Len(b) \in Nat /\ i \in Nat
  BY <1>1, LenProperties
<1>5. Len(a \o b) # 0
  <2> HIDE DEF a, b
  <2> QED BY <1>2, <1>3, <1>4
<1>6. RemoveAt(q, i) = a \o b
  BY DEF RemoveAt
<1> HIDE DEF a, b
<1> QED
  BY <1>5, <1>6

\* A terminal audit event keeps the audit variables typed.
LEMMA TerminalEventType ==
  ASSUME TypeOK, NEW j \in Jobs, NEW ok \in BOOLEAN, TerminalEvent(j, ok)
  PROVE  /\ auditUp' \in BOOLEAN
         /\ terminals' \in [Jobs -> Nat]
         /\ attempted' = attempted
<1>1. auditUp' \in BOOLEAN
  BY DEF TerminalEvent, AuditOutcome, TypeOK, HistoryType
<1>2. PICK n \in {0, 1} : terminals' = [terminals EXCEPT ![j] = @ + n]
  BY DEF TerminalEvent
<1>3. terminals' \in [Jobs -> Nat]
  BY <1>2 DEF TypeOK, HistoryType
<1> QED
  BY <1>1, <1>3 DEF TerminalEvent

\* Queued jobs are finitely many, so a pass starts a natural number of them.
LEMMA SlotsType == TypeOK => Slots \in Nat
<1> SUFFICES ASSUME TypeOK PROVE Slots \in Nat
  OBVIOUS
<1>1. IsFiniteSet(Holding)
  BY BackgroundJobsAssumption, FS_Subset DEF Holding
<1>2. InUse \in Nat
  BY <1>1, FS_CardinalityType DEF InUse, TypeOK, CapacityType
<1> QED
  BY <1>2, BackgroundJobsAssumption DEF Slots

\* The queued jobs are finitely many jobs.
LEMMA QueuedFinite ==
  TypeOK => IsFiniteSet(Queued) /\ Queued \subseteq Jobs /\ Cardinality(Queued) \in Nat
<1> SUFFICES ASSUME TypeOK
             PROVE  IsFiniteSet(Queued) /\ Queued \subseteq Jobs /\ Cardinality(Queued) \in Nat
  OBVIOUS
<1>1. Queued \subseteq Jobs
  BY DEF Queued, TypeOK, RecordsType
<1>2. IsFiniteSet(Queued)
  BY <1>1, BackgroundJobsAssumption, FS_Subset
<1> QED
  BY <1>1, <1>2, FS_CardinalityType

-----------------------------------------------------------------------------
(* What one pass of the pump does: n of the queued jobs start, or the oldest *)
(* expires, or nothing happens.                                             *)

Started(q, n, first, S) ==
    /\ n \in Nat /\ n <= Slots
    /\ first \in [1 .. n -> Queued]
    /\ S = {first[i] : i \in 1 .. n}
    /\ \A i, k \in 1 .. n : i < k => rank[first[i]] < rank[first[k]]
    /\ rec'  = [j \in Jobs |-> IF j \in S THEN [rec[j] EXCEPT !.state = "starting"]
                               ELSE rec[j]]
    /\ slot' = [j \in Jobs |-> IF j \in S THEN "reserved" ELSE slot[j]]
    /\ run'  = [j \in Jobs |-> IF j \in S THEN "starting" ELSE run[j]]
    /\ storeQ' = q \o [i \in 1 .. n |-> Op(first[i], "starting")]
    /\ pumping' = "idle" /\ fin' = fin

\* A pass that starts jobs starts some set S of them, in the order first.
LEMMA PumpStartsShape ==
  ASSUME TypeOK, NEW q, PumpStarts(q)
  PROVE  \E n, first, S : Started(q, n, first, S)
<1> DEFINE n == IF Slots < Cardinality(Queued) THEN Slots ELSE Cardinality(Queued)
<1>1. n \in Nat /\ n <= Slots
  BY SlotsType, QueuedFinite
<1>2. PICK first \in [1 .. n -> Queued] :
         LET S == {first[i] : i \in 1 .. n} IN
         /\ \A i, k \in 1 .. n : i < k => rank[first[i]] < rank[first[k]]
         /\ rec'  = [j \in Jobs |-> IF j \in S THEN [rec[j] EXCEPT !.state = "starting"]
                                    ELSE rec[j]]
         /\ slot' = [j \in Jobs |-> IF j \in S THEN "reserved" ELSE slot[j]]
         /\ run'  = [j \in Jobs |-> IF j \in S THEN "starting" ELSE run[j]]
         /\ storeQ' = q \o [i \in 1 .. n |-> Op(first[i], "starting")]
         /\ pumping' = "idle" /\ fin' = fin
  BY DEF PumpStarts
<1> HIDE DEF n
<1> QED
  BY <1>1, <1>2 DEF Started

PumpedType == /\ rec' \in [Jobs -> Record]
              /\ slot' \in [Jobs -> {"none", "reserved", "active", "quarantined"}]
              /\ run' \in [Jobs -> RunSteps]
              /\ fin' \in [Jobs -> [Closers -> {"idle", "audit", "save", "end"}]]
              /\ pumping' \in {"idle", "cleanup", "closing", "resume"}
              /\ storeQ' \in Seq(Tickets)

\* A pump pass keeps the variables it assigns typed.
LEMMA PumpPassType ==
  ASSUME TypeOK, NEW q \in Seq(Tickets), PumpPass(q)
  PROVE  PumpedType
<1>1. CASE PumpStarts(q)
  <2>1. PICK n, first, S : Started(q, n, first, S)
    BY <1>1, PumpStartsShape
  <2>2. rec' \in [Jobs -> Record]
    <3>1. \A j \in Jobs : [rec[j] EXCEPT !.state = "starting"] \in Record
      BY SetState DEF TypeOK, RecordsType, States, Live
    <3> QED BY <2>1, <3>1 DEF Started, TypeOK, RecordsType
  <2>3. storeQ' \in Seq(Tickets)
    <3>1. \A i \in 1 .. n : Op(first[i], "starting") \in Tickets
      BY <2>1, QueuedFinite, OpType DEF Started, Ops
    <3>2. [i \in 1 .. n |-> Op(first[i], "starting")] \in [1 .. n -> Tickets]
      BY <3>1
    <3>3. [i \in 1 .. n |-> Op(first[i], "starting")] \in Seq(Tickets)
      BY <2>1, <3>2, FunctionIsSeq DEF Started
    <3> QED BY <2>1, <3>3, ConcatProperties DEF Started
  <2>4. slot' \in [Jobs -> {"none", "reserved", "active", "quarantined"}]
    BY <2>1 DEF Started, TypeOK, CapacityType
  <2>5. run' \in [Jobs -> RunSteps]
    BY <2>1 DEF Started, TypeOK, ProgramsType, RunSteps
  <2> QED
    BY <2>1, <2>2, <2>3, <2>4, <2>5 DEF Started, PumpedType, TypeOK, ProgramsType
<1>2. CASE PumpExpires(q)
  <2>1. PICK j \in Least(rank, Queued) :
           /\ rec' = [rec EXCEPT ![j].state = "failed"]
           /\ fin' = [fin EXCEPT ![j]["pump"] = "audit"]
    BY <1>2 DEF PumpExpires
  <2>2. j \in Jobs
    BY QueuedFinite DEF Least
  <2>3. rec' \in [Jobs -> Record]
    BY <2>1, <2>2, SetState DEF TypeOK, RecordsType, States, Terminal
  <2>4. fin' \in [Jobs -> [Closers -> {"idle", "audit", "save", "end"}]]
    BY <2>1, <2>2 DEF TypeOK, ProgramsType, Closers
  <2> QED
    BY <1>2, <2>3, <2>4 DEF PumpExpires, PumpedType, TypeOK, ProgramsType, CapacityType
<1>3. CASE /\ pumping' = "idle" /\ storeQ' = q
           /\ UNCHANGED <<rec, slot, run, fin>>
  BY <1>3 DEF PumpedType, TypeOK, RecordsType, ProgramsType, CapacityType
<1> QED
  BY <1>1, <1>2, <1>3 DEF PumpPass

\* A pass only appends to the store queue.
LEMMA PumpPassGrows ==
  ASSUME TypeOK, NEW q \in Seq(Tickets), PumpPass(q)
  PROVE  q # <<>> => storeQ' # <<>>
<1>1. CASE PumpStarts(q)
  <2>1. PICK n, first, S : Started(q, n, first, S)
    BY <1>1, PumpStartsShape
  <2> DEFINE ops == [i \in 1 .. n |-> Op(first[i], "starting")]
  <2>2. \A i \in 1 .. n : Op(first[i], "starting") \in Tickets
    BY <2>1, QueuedFinite, OpType DEF Started, Ops
  <2>3. ops \in Seq(Tickets)
    BY <2>1, <2>2, FunctionIsSeq DEF Started
  <2>4. storeQ' = q \o ops
    BY <2>1 DEF Started
  <2> HIDE DEF ops
  <2>5. Len(q \o ops) = Len(q) + Len(ops)
    BY <2>3
  <2>6. q # <<>> => Len(q \o ops) # 0
    BY <2>5, <2>3
  <2> QED
    BY <2>4, <2>6
<1>2. CASE storeQ' = q
  BY <1>2
<1> QED
  BY <1>1, <1>2 DEF PumpPass, PumpExpires

-----------------------------------------------------------------------------
(* What the owner of a settled store operation does                         *)

SettledType ==
    /\ PumpedType
    /\ fault' \in BOOLEAN /\ aborted' \subseteq Jobs /\ active' \subseteq Jobs
    /\ sub' \in [Jobs -> Pending \cup {"idle", "accepted", "refused"}]
    /\ outcome' \in [Jobs -> Outcomes]

\* fail() aborts only jobs.
LEMMA FailType ==
  ASSUME TypeOK, Fail PROVE fault' \in BOOLEAN /\ aborted' \subseteq Jobs
  BY DEF Fail, TypeOK, RecordsType

\* The answer to one of run()'s first two saves is well typed.
LEMMA RunSavedType ==
  ASSUME TypeOK, NEW j \in Jobs, NEW ok \in BOOLEAN, NEW q \in Seq(Tickets),
         run[j] \in {"starting", "running"}, RunSaved(j, ok, q)
  PROVE  SettledType
<1>1. rec' \in [Jobs -> Record]
  <2>1. rec[j] \in Record /\ (j \in aborted) \in BOOLEAN
    BY DEF TypeOK, RecordsType
  <2>2. [rec[j] EXCEPT !.state = "running"] \in Record
    BY <2>1, SetState DEF States, Live
  <2>3. Caught(rec[j], "storage", j \in aborted) \in Record
    BY <2>1, CaughtType
  <2> QED
    BY <2>2, <2>3 DEF RunSaved, TypeOK, RecordsType
<1>2. storeQ' \in Seq(Tickets)
  BY OpType DEF RunSaved, Ops
<1>3. run' \in [Jobs -> RunSteps]
  BY DEF RunSaved, After, TypeOK, ProgramsType, RunSteps
<1>4. outcome' \in [Jobs -> Outcomes]
  BY DEF RunSaved, TypeOK, ProgramsType, Outcomes
<1> QED
  BY <1>1, <1>2, <1>3, <1>4
  DEF RunSaved, SettledType, PumpedType, TypeOK, ProcessType, RecordsType, ProgramsType,
      CapacityType

\* So is the answer to run()'s last save,
LEMMA FinalSavedType ==
  ASSUME TypeOK, NEW j \in Jobs, NEW ok \in BOOLEAN, NEW q \in Seq(Tickets),
         FinalSaved(j, ok, q)
  PROVE  SettledType
<1>1. rec' \in [Jobs -> Record]
  <2>1. rec \in [Jobs -> Record] /\ rec[j] \in Record
    BY DEF TypeOK, RecordsType
  <2>2. Withheld(rec[j]) \in Record
    BY <2>1, WithheldType
  <2>3. rec' = rec \/ rec' = [rec EXCEPT ![j] = Withheld(rec[j])]
    BY DEF FinalSaved
  <2> QED
    BY <2>1, <2>2, <2>3
<1>2. fault' \in BOOLEAN /\ aborted' \subseteq Jobs
  BY FailType DEF FinalSaved, TypeOK, ProcessType, RecordsType
<1>3. run' \in [Jobs -> RunSteps]
  BY DEF FinalSaved, TypeOK, ProgramsType, RunSteps
<1> QED
  BY <1>1, <1>2, <1>3
  DEF FinalSaved, Leaves, SettledType, PumpedType, TypeOK, RecordsType, ProgramsType,
      CapacityType

\* a pump pass that may not run at all,
LEMMA PumpNowType ==
  ASSUME TypeOK, NEW q \in Seq(Tickets), PumpNow(q)
  PROVE  PumpedType
<1>1. CASE MayPump
  BY <1>1, PumpPassType DEF PumpNow
<1>2. CASE ~MayPump
  BY <1>2 DEF PumpNow, PumpedType, TypeOK, RecordsType, ProgramsType, CapacityType
<1> QED
  BY <1>1, <1>2

\* the answer to the acceptance save,
LEMMA AcceptSavedType ==
  ASSUME TypeOK, NEW j \in Jobs, NEW ok \in BOOLEAN, NEW q \in Seq(Tickets),
         AcceptSaved(j, ok, q)
  PROVE  SettledType
<1>1. PumpedType
  <2>1. CASE ok
    BY <2>1, PumpNowType DEF AcceptSaved
  <2>2. CASE ~ok
    BY <2>2 DEF AcceptSaved, PumpedType, TypeOK, RecordsType, ProgramsType, CapacityType
  <2> QED BY <2>1, <2>2
<1>2. sub' \in [Jobs -> Pending \cup {"idle", "accepted", "refused"}]
  BY DEF AcceptSaved, TypeOK, ProgramsType, Pending
<1> QED
  BY <1>1, <1>2
  DEF AcceptSaved, Leaves, SettledType, TypeOK, ProcessType, RecordsType, ProgramsType

\* the answer to finishQueued's save,
LEMMA FinishSavedType ==
  ASSUME TypeOK, NEW j \in Jobs, NEW c \in Closers, NEW ok \in BOOLEAN,
         NEW q \in Seq(Tickets), FinishSaved(j, c, ok, q)
  PROVE  SettledType
<1>1. fin' \in [Jobs -> [Closers -> {"idle", "audit", "save", "end"}]]
  BY DEF FinishSaved, TypeOK, ProgramsType
<1>2. fault' \in BOOLEAN /\ aborted' \subseteq Jobs
  BY FailType DEF FinishSaved, TypeOK, ProcessType, RecordsType
<1>3. pumping' \in {"idle", "cleanup", "closing", "resume"}
  BY DEF FinishSaved, TypeOK, ProgramsType
<1> QED
  BY <1>1, <1>2, <1>3
  DEF FinishSaved, SettledType, PumpedType, TypeOK, RecordsType, ProgramsType, CapacityType

\* the answer to a cleanup,
LEMMA CleanupDoneType ==
  ASSUME TypeOK, NEW ok \in BOOLEAN, NEW q \in Seq(Tickets), CleanupDone(ok, q)
  PROVE  SettledType
<1>1. fault' \in BOOLEAN /\ aborted' \subseteq Jobs
  BY FailType DEF CleanupDone, TypeOK, ProcessType, RecordsType
<1> QED
  BY <1>1
  DEF CleanupDone, SettledType, PumpedType, TypeOK, RecordsType, ProgramsType, CapacityType

\* and hence the answer to any store operation.
LEMMA SettleType ==
  ASSUME TypeOK, NEW t \in Tickets, NEW ok \in BOOLEAN, NEW q \in Seq(Tickets),
         Settle(t, ok, q)
  PROVE  SettledType
<1>1. t.job \in Jobs
  BY DEF Tickets
<1> QED
  BY <1>1, AcceptSavedType, RunSavedType, FinalSavedType, FinishSavedType, CleanupDoneType
  DEF Settle

-----------------------------------------------------------------------------
(* Type correctness, one lemma per group of actions                         *)

\* A submission keeps the types.
LEMMA SubmitType ==
  ASSUME TypeOK, NEW j \in Jobs, NEW r \in Requests, Submit(j, r)
  PROVE  TypeOK'
  BY DEF Submit, TypeOK, ProcessType, RecordsType, ProgramsType, CapacityType,
     StoreType, HistoryType, process, records, capacity, store, audit, Pending

\* So does every later step of a submission but its admission,
LEMMA SubmissionTypes ==
  ASSUME TypeOK, NEW j \in Jobs, NEW ok \in BOOLEAN,
         AttemptAudited(j, ok) \/ Refuse(j) \/ RefusalAudited(j, ok)
  PROVE  TypeOK'
<1>2. CASE AttemptAudited(j, ok)
  <2>1. sub' \in [Jobs -> Pending \cup {"idle", "accepted", "refused"}]
    BY <1>2 DEF AttemptAudited, TypeOK, ProgramsType, Pending
  <2>2. auditUp' \in BOOLEAN /\ attempted' \subseteq Jobs
    BY <1>2 DEF AttemptAudited, AuditOutcome, TypeOK, HistoryType
  <2> QED
    BY <1>2, <2>1, <2>2 DEF AttemptAudited, SubmissionFrame, TypeOK, ProcessType,
       RecordsType, ProgramsType, CapacityType, StoreType, HistoryType, process, records,
       capacity, identities
<1>3. CASE Refuse(j)
  BY <1>3 DEF Refuse, SubmissionFrame, TypeOK, ProcessType, RecordsType, ProgramsType,
     CapacityType, StoreType, HistoryType, process, records, capacity, audit, identities,
     Pending
<1>4. CASE RefusalAudited(j, ok)
  BY <1>4, TerminalEventType DEF RefusalAudited, SubmissionFrame, TypeOK, ProcessType,
     RecordsType, ProgramsType, CapacityType, StoreType, HistoryType, process, records,
     capacity, identities, Pending
<1> QED
  BY <1>2, <1>3, <1>4

\* its admission,
LEMMA AdmitType == ASSUME TypeOK, NEW j \in Jobs, Admit(j) PROVE TypeOK'
<1>1. rec' \in [Jobs -> Record] /\ sub' \in [Jobs -> Pending \cup {"idle", "accepted", "refused"}]
  BY NewRecordType DEF Admit, TypeOK, RecordsType, ProgramsType, Pending
<1>2. rank' \in [Jobs -> Nat]
  <2>1. IsFiniteSet({k \in Jobs : rank[k] > 0})
    BY BackgroundJobsAssumption, FS_Subset
  <2>2. Cardinality({k \in Jobs : rank[k] > 0}) \in Nat
    BY <2>1, FS_CardinalityType
  <2> QED
    BY <2>2 DEF Admit, TypeOK, RecordsType
<1>3. storeQ' \in Seq(Tickets) /\ (head # "idle" => storeQ' # <<>>)
  <2>1. Op(j, "accept") \in Tickets
    BY OpType DEF Ops
  <2>2. storeQ' = Append(storeQ, Op(j, "accept")) /\ storeQ \in Seq(Tickets)
    BY DEF Admit, TypeOK, StoreType
  <2> QED
    BY <2>1, <2>2
<1> QED
  BY <1>1, <1>2, <1>3 DEF Admit, SubmissionFrame, TypeOK, ProcessType, RecordsType,
     ProgramsType, CapacityType, StoreType, HistoryType, process, capacity, audit,
     identities

\* every step of the executor,
LEMMA ExecutorTypes ==
  ASSUME TypeOK, NEW j \in Jobs, NEW o \in Outcomes,
         \/ Spawn(j) \/ ExecutorRefuses(j) \/ TerminationFails(j) \/ QuarantineReleases(j)
         \/ ChildEnds(j, o)
  PROVE  TypeOK'
<1>1. slot' \in [Jobs -> {"none", "reserved", "active", "quarantined"}]
  BY DEF Spawn, ExecutorRefuses, TerminationFails, QuarantineReleases, ChildEnds, TypeOK,
     CapacityType
<1>2. run' \in [Jobs -> RunSteps]
  <2>1. {"child", "blocked", "failed", "completed"} \subseteq RunSteps
    BY DEF RunSteps
  <2>2. \E s \in {"child", "blocked", "failed", "completed"} :
           run' \in {run, [run EXCEPT ![j] = s]}
    BY DEF Spawn, ExecutorRefuses, TerminationFails, QuarantineReleases, ChildEnds
  <2> QED
    BY <2>1, <2>2 DEF TypeOK, ProgramsType
<1>6. outcome' \in [Jobs -> Outcomes]
  <2>1. {"refused", "termination"} \subseteq Outcomes
    BY DEF Outcomes
  <2>2. \E s \in {"refused", "termination", o} :
           outcome' \in {outcome, [outcome EXCEPT ![j] = s]}
    BY DEF Spawn, ExecutorRefuses, TerminationFails, QuarantineReleases, ChildEnds
  <2> QED
    BY <2>1, <2>2 DEF TypeOK, ProgramsType
<1>3. spawned' \in [Jobs -> Nat]
  BY DEF Spawn, ExecutorRefuses, TerminationFails, QuarantineReleases, ChildEnds, TypeOK,
     HistoryType
<1>4. rec' \in [Jobs -> Record]
  <2>1. [rec[j] EXCEPT !.state = "finalizing"] \in Record
    BY SetState DEF TypeOK, RecordsType, States, Live
  <2> QED
    BY <2>1 DEF Spawn, ExecutorRefuses, TerminationFails, QuarantineReleases, ChildEnds,
       TypeOK, RecordsType
<1>5. UNCHANGED <<active, fin, sync, storeQ, audit>> /\ RunFrame
  BY DEF Spawn, ExecutorRefuses, TerminationFails, QuarantineReleases, ChildEnds
<1> QED
  BY <1>1, <1>2, <1>3, <1>4, <1>5, <1>6 DEF RunFrame, TypeOK, ProcessType, RecordsType,
     ProgramsType, CapacityType, StoreType, HistoryType, process, audit, identities

\* A ticket appended to the store queue keeps it a nonempty queue.
LEMMA AppendedType ==
  ASSUME TypeOK, NEW j \in Jobs, NEW o \in Ops, storeQ' = Append(storeQ, Op(j, o))
  PROVE  storeQ' \in Seq(Tickets) /\ storeQ' # <<>>
<1>1. Op(j, o) \in Tickets /\ storeQ \in Seq(Tickets)
  BY OpType DEF TypeOK, StoreType
<1> QED
  BY <1>1

\* The end of run(), with its terminal event, keeps the types.
LEMMA FinalizeTypes ==
  ASSUME TypeOK, NEW j \in Jobs, NEW ok \in BOOLEAN,
         CompletionAudited(j, ok) \/ FailureAudited(j, ok) \/ OrphanAudited(j, ok)
  PROVE  TypeOK'
<1>1. Finalize(j) /\ RunFrame /\ TerminalEvent(j, ok)
  BY DEF CompletionAudited, FailureAudited, OrphanAudited
<1>2. storeQ' \in Seq(Tickets) /\ storeQ' # <<>>
  BY <1>1, AppendedType DEF Finalize, Ops
<1>3. /\ run' \in [Jobs -> RunSteps]
      /\ slot' \in [Jobs -> {"none", "reserved", "active", "quarantined"}]
  BY <1>1 DEF Finalize, GivesBack, TypeOK, ProgramsType, CapacityType, RunSteps
<1>4. rec' \in [Jobs -> Record]
  <2>1. rec[j] \in Record /\ (j \in aborted) \in BOOLEAN
    BY DEF TypeOK, RecordsType
  <2>2. CASE CompletionAudited(j, ok)
    <3>1. Evidenced(Caught(rec[j], "audit", j \in aborted), "audit", j \in aborted) \in Record
      BY <2>1, CaughtType, EvidencedType
    <3>2. Published(rec[j], outcome[j]) \in Record
      BY <2>1, PublishedType
    <3> QED
      BY <2>2, <3>1, <3>2 DEF CompletionAudited, TypeOK, RecordsType
  <2>3. CASE FailureAudited(j, ok)
    <3>1. \A err : Evidenced(Caught(rec[j], err, j \in aborted), err, j \in aborted) \in Record
      BY <2>1, CaughtType, EvidencedType
    <3> QED
      BY <2>3, <3>1 DEF FailureAudited, TypeOK, RecordsType
  <2>4. CASE OrphanAudited(j, ok)
    <3>1. [rec[j] EXCEPT !.audit = "unavailable"] \in Record
      BY <2>1, SetAudit
    <3>2. /\ Evidenced(rec[j], "storage", j \in aborted) \in Record
          /\ Evidenced([rec[j] EXCEPT !.audit = "unavailable"], "storage", j \in aborted)
                \in Record
      BY <2>1, <3>1, EvidencedType
    <3> QED
      BY <2>4, <3>2 DEF OrphanAudited, TypeOK, RecordsType
  <2> QED
    BY <2>2, <2>3, <2>4
<1> QED
  BY <1>1, <1>2, <1>3, <1>4, TerminalEventType DEF Finalize, RunFrame, TypeOK, ProcessType,
     RecordsType, ProgramsType, CapacityType, StoreType, HistoryType, process, identities

\* So does the end of a job that never ran,
LEMMA FinishAuditedType ==
  ASSUME TypeOK, NEW j \in Jobs, NEW c \in Closers, NEW ok \in BOOLEAN,
         FinishAudited(j, c, ok)
  PROVE  TypeOK'
<1>1. storeQ' \in Seq(Tickets) /\ storeQ' # <<>>
  BY AppendedType DEF FinishAudited, Ops
<1>2. rec' \in [Jobs -> Record]
  <2> DEFINE a == IF ok THEN "confirmed" ELSE "unavailable"
  <2>1. rec \in [Jobs -> Record] /\ rec[j] \in Record
    BY DEF TypeOK, RecordsType
  <2>2. [rec[j] EXCEPT !.audit = a] \in Record
    BY <2>1, SetAudit
  <2>3. rec' = [rec EXCEPT ![j] = [rec[j] EXCEPT !.audit = a]]
    BY DEF FinishAudited
  <2> QED
    BY <2>1, <2>2, <2>3
<1>3. fin' \in [Jobs -> [Closers -> {"idle", "audit", "save", "end"}]]
  BY DEF FinishAudited, TypeOK, ProgramsType
<1>4. auditUp' \in BOOLEAN /\ attempted' \subseteq Jobs /\ terminals' \in [Jobs -> Nat]
  <2>1. TerminalEvent(j, ok)
    BY DEF FinishAudited
  <2> QED
    BY <2>1, TerminalEventType DEF TypeOK, HistoryType
<1>5. active' \subseteq Jobs
  BY DEF FinishAudited, Leaves, TypeOK, RecordsType
<1>6. UNCHANGED <<run, outcome, capacity, spawned>> /\ RunFrame
  BY DEF FinishAudited
<1> QED
  BY <1>1, <1>2, <1>3, <1>4, <1>5, <1>6 DEF RunFrame, TypeOK, ProcessType, RecordsType,
     ProgramsType, CapacityType, StoreType, HistoryType, process, capacity, identities

\* and a pass started by the timer or resumed after an await.
LEMMA PumpTypes ==
  ASSUME TypeOK, Pump \/ PumpResumes \/ PumpCleans
  PROVE  TypeOK'
<1>1. CASE Pump \/ PumpResumes
  <2>1. storeQ \in Seq(Tickets) /\ PumpPass(storeQ) /\ PumpFrame
    BY <1>1 DEF Pump, PumpResumes, TypeOK, StoreType
  <2>2. PumpedType
    BY <2>1, PumpPassType
  <2>3. head # "idle" => storeQ' # <<>>
    BY <2>1, PumpPassGrows DEF TypeOK, StoreType
  <2> QED
    BY <2>1, <2>2, <2>3 DEF PumpedType, PumpFrame, TypeOK, ProcessType, RecordsType,
       ProgramsType, CapacityType, StoreType, HistoryType, process, audit, identities
<1>2. CASE PumpCleans
  <2>1. PICK j \in Aged : storeQ' = Append(storeQ, Op(j, "cleanup"))
    BY <1>2 DEF PumpCleans
  <2>2. j \in Jobs
    BY DEF Aged, TypeOK, RecordsType
  <2>3. storeQ' \in Seq(Tickets) /\ storeQ' # <<>>
    BY <2>1, <2>2, AppendedType DEF Ops
  <2> QED
    BY <1>2, <2>3 DEF PumpCleans, TypeOK, ProcessType, RecordsType,
       ProgramsType, CapacityType, StoreType, HistoryType, process, records, capacity,
       audit, identities
<1> QED
  BY <1>1, <1>2

\* What a store operation leaves in the record files and in memory.
LEMMA WithoutType ==
  ASSUME TypeOK, NEW gone PROVE Without(gone) \in [Jobs -> Record]
  BY NoRecordType DEF Without, TypeOK, RecordsType

\* Only jobs are removed.
LEMMA RemovableType ==
  ASSUME TypeOK, NEW t, NEW gone \in Removable(t) PROVE gone \subseteq Jobs
<1>1. Aged \subseteq Jobs
  BY DEF Aged, TypeOK, RecordsType
<1> QED
  BY <1>1 DEF Removable

FilesType == /\ disk' \in [Jobs -> Record] /\ known' \subseteq Jobs
             /\ forgotten' \subseteq Jobs

\* A record that lands leaves typed files.
LEMMA LandsType ==
  ASSUME TypeOK, NEW t \in Tickets, NEW gone \in SUBSET Jobs, Lands(t, gone)
  PROVE  disk' \in [Jobs -> Record]
<1>1. t.job \in Jobs
  BY DEF Tickets
<1>2. PICK r \in {snap, rec[t.job]} :
        disk' = IF t.op = "cleanup" THEN Without(gone)
                ELSE [Without(gone) EXCEPT ![t.job] = r]
  BY DEF Lands
<1>3. r \in Record
  BY <1>1 DEF TypeOK, RecordsType
<1> QED
  BY <1>1, <1>2, <1>3, WithoutType

\* A commit leaves typed files and a typed map.
LEMMA PersistType ==
  ASSUME TypeOK, NEW t \in Tickets, NEW gone \in Removable(t), Persist(t, gone)
  PROVE  FilesType
<1>1. gone \subseteq Jobs
  BY RemovableType
<1>2. disk' \in [Jobs -> Record]
  BY <1>1, LandsType DEF Persist
<1> QED
  BY <1>1, <1>2 DEF Persist, FilesType, TypeOK, RecordsType, HistoryType

\* So does a rejection.
LEMMA RejectedType ==
  ASSUME TypeOK, NEW t \in Tickets, NEW gone \in SUBSET Jobs,
         Rejected(t, gone) \/ Overran(t, gone)
  PROVE  FilesType
<1>1. disk' \in [Jobs -> Record]
  BY WithoutType, LandsType DEF Rejected, Overran
<1> QED
  BY <1>1 DEF Rejected, Overran, Forgets, FilesType, TypeOK, RecordsType, HistoryType

\* What the store actions take from the queue are tickets.
LEMMA QueueParts ==
  ASSUME TypeOK
  PROVE  /\ storeQ # <<>> => storeQ[1] \in Tickets /\ Tail(storeQ) \in Seq(Tickets)
         /\ \A i \in 1 .. Len(storeQ) : /\ storeQ[i] \in Tickets
                                        /\ RemoveAt(storeQ, i) \in Seq(Tickets)
<1>1. storeQ \in Seq(Tickets)
  BY DEF TypeOK, StoreType
<1>2. \A i \in 1 .. Len(storeQ) : storeQ[i] \in Tickets
  BY <1>1
<1>3. storeQ # <<>> => storeQ[1] \in Tickets /\ Tail(storeQ) \in Seq(Tickets)
  BY <1>1
<1> QED
  BY <1>1, <1>2, <1>3, RemoveAtType

\* The answer to an operation only appends to the queue.
LEMMA SettleGrows ==
  ASSUME TypeOK, NEW t \in Tickets, NEW ok \in BOOLEAN, NEW q \in Seq(Tickets),
         Settle(t, ok, q)
  PROVE  q # <<>> => storeQ' # <<>>
<1>1. t.job \in Jobs
  BY DEF Tickets
<1>2. ASSUME PumpNow(q) PROVE q # <<>> => storeQ' # <<>>
  BY <1>2, PumpPassGrows DEF PumpNow
<1>3. ASSUME NEW o PROVE Append(q, o) # <<>>
  OBVIOUS
<1> QED
  BY <1>1, <1>2, <1>3
  DEF Settle, AcceptSaved, RunSaved, FinalSaved, FinishSaved, CleanupDone

\* A store action settles an operation, changes the files and moves the head.
LEMMA StoreStepType ==
  ASSUME TypeOK, NEW t \in Tickets, NEW ok \in BOOLEAN, NEW q \in Seq(Tickets),
         Settle(t, ok, q), FilesType, head' \in {"idle", "busy", "late"}, snap' \in Record,
         storeFailed' \in BOOLEAN, head' # "idle" => q # <<>>
  PROVE  TypeOK'
<1>1. SettledType
  BY SettleType
<1>2. head' # "idle" => storeQ' # <<>>
  BY SettleGrows
<1> QED
  BY <1>1, <1>2
  DEF Settle, SettledType, PumpedType, FilesType, TypeOK, ProcessType, RecordsType,
      ProgramsType, CapacityType, StoreType, HistoryType, process, audit, identities

\* Every step of the store keeps the types.
LEMMA StoreTypes == ASSUME TypeOK, Storing PROVE TypeOK'
<1> storeQ \in Seq(Tickets) /\ (head # "idle" => storeQ # <<>>)
  BY DEF TypeOK, StoreType
<1>1. CASE StoreBegins
  <2>1. storeQ[1].job \in Jobs
    BY <1>1, QueueParts DEF StoreBegins, Tickets
  <2> QED
    BY <1>1, <2>1 DEF StoreBegins, TypeOK, ProcessType, RecordsType, ProgramsType,
       CapacityType, StoreType, HistoryType, process, records, programs, capacity, audit,
       identities
<1>2. CASE StoreCommits
  <2>1. storeQ[1] \in Tickets /\ Tail(storeQ) \in Seq(Tickets)
    BY <1>2, QueueParts DEF StoreCommits
  <2>2. FilesType
    BY <1>2, <2>1, PersistType DEF StoreCommits
  <2> QED
    BY <1>2, <2>1, <2>2, StoreStepType, NoRecordType DEF StoreCommits, TypeOK, StoreType
<1>3. CASE StoreFails
  <2>1. storeQ[1] \in Tickets /\ Tail(storeQ) \in Seq(Tickets)
    BY <1>3, QueueParts DEF StoreFails
  <2>2. FilesType
    BY <1>3, <2>1, RemovableType, RejectedType DEF StoreFails
  <2>3. Len(storeQ) > 1 => Tail(storeQ) # <<>> /\ rec[storeQ[2].job] \in Record
    <3>1. Len(storeQ) > 1 => storeQ[2] \in Tickets
      BY QueueParts, LenProperties
    <3>2. Len(storeQ) > 1 => Tail(storeQ) # <<>>
      <4>1. storeQ # <<>> => Len(Tail(storeQ)) = Len(storeQ) - 1
        BY HeadTailProperties
      <4>2. storeQ # <<>> /\ Len(storeQ) \in Nat
        BY <1>3, EmptySeq, LenProperties DEF StoreFails
      <4> DEFINE n == Len(storeQ)
                 m == Len(Tail(storeQ))
      <4>3. n \in Nat /\ m = n - 1
        BY <4>1, <4>2
      <4>4. n > 1 => m # 0
        <5> HIDE DEF n, m
        <5> QED BY <4>3
      <4> QED
        BY <4>4, EmptySeq
    <3> QED
      BY <3>1, <3>2 DEF Tickets, TypeOK, RecordsType
  <2>4. head' \in {"idle", "busy", "late"} /\ snap' \in Record
    BY <1>3, <2>3, NoRecordType DEF StoreFails
  <2> QED
    BY <1>3, <2>1, <2>2, <2>3, <2>4, StoreStepType DEF StoreFails
<1>4. CASE StoreTimesOut
  <2>1. storeQ[1] \in Tickets
    BY <1>4, QueueParts DEF StoreTimesOut
  <2>2. FilesType
    BY <1>4, <2>1, RejectedType DEF StoreTimesOut
  <2> QED
    BY <1>4, <2>1, <2>2, StoreStepType DEF StoreTimesOut, TypeOK, RecordsType
<1>5. CASE StoreEndsLate
  <2>1. storeQ[1] \in Tickets /\ Tail(storeQ) \in Seq(Tickets)
    BY <1>5, QueueParts DEF StoreEndsLate
  <2>2. FilesType
    BY <1>5, <2>1, PersistType DEF StoreEndsLate, FilesType, TypeOK, RecordsType, HistoryType
  <2> QED
    BY <1>5, <2>1, <2>2, NoRecordType DEF StoreEndsLate, FilesType, TypeOK, ProcessType,
       RecordsType, ProgramsType, CapacityType, StoreType, HistoryType, process, programs,
       capacity, audit, identities
<1>6. CASE StoreRefuses
  <2>1. PICK i \in 1 .. Len(storeQ) :
           /\ i > 1 \/ head = "idle"
           /\ Settle(storeQ[i], FALSE, RemoveAt(storeQ, i))
           /\ Rejected(storeQ[i], {})
    BY <1>6 DEF StoreRefuses
  <2>2. storeQ[i] \in Tickets /\ RemoveAt(storeQ, i) \in Seq(Tickets)
    BY QueueParts
  <2>3. FilesType
    BY <2>1, <2>2, RejectedType
  <2>4. i > 1 => RemoveAt(storeQ, i) # <<>>
    BY RemoveAtKeepsHead
  <2> QED
    BY <1>6, <2>1, <2>2, <2>3, <2>4, StoreStepType DEF StoreRefuses, TypeOK, StoreType,
       RecordsType
<1> QED
  BY <1>1, <1>2, <1>3, <1>4, <1>5, <1>6 DEF Storing

\* So does every step of the life of the process,
LEMMA LifecycleTypes == ASSUME TypeOK, Lifecycle PROVE TypeOK'
<1>1. CASE Shutdown
  <2>1. \A j \in Jobs : [rec[j] EXCEPT !.state = "cancelled"] \in Record
    BY SetState DEF TypeOK, RecordsType, States, Terminal
  <2>2. rec' \in [Jobs -> Record]
    BY <1>1, <2>1 DEF Shutdown, TypeOK, RecordsType
  <2>3. fin' \in [Jobs -> [Closers -> {"idle", "audit", "save", "end"}]]
    BY <1>1 DEF Shutdown, TypeOK, ProgramsType
  <2>4. aborted' \subseteq Jobs /\ stopping' \in BOOLEAN
    BY <1>1 DEF Shutdown, TypeOK, RecordsType
  <2> QED
    BY <1>1, <2>2, <2>3, <2>4 DEF Shutdown, TypeOK, ProcessType, RecordsType,
       ProgramsType, CapacityType, StoreType, HistoryType, capacity, store, audit,
       identities
<1>2. CASE Stop
  <2>1. ProcessType' /\ RecordsType'
    BY <1>2, NoRecordType DEF Stop, TypeOK, ProcessType, RecordsType
  <2>2. ProgramsType'
    BY <1>2 DEF Stop, ProgramsType, RunSteps, Outcomes
  <2>3. CapacityType'
    BY <1>2 DEF Stop, CapacityType
  <2>4. StoreType'
    BY <1>2, EmptySeq DEF Stop, StoreType
  <2>5. HistoryType'
    BY <1>2 DEF Stop, TypeOK, HistoryType, identities
  <2> QED
    BY <2>1, <2>2, <2>3, <2>4, <2>5 DEF TypeOK
<1>3. CASE Restart
  BY <1>3 DEF Restart, TypeOK, ProcessType, RecordsType, ProgramsType, CapacityType,
     StoreType, HistoryType, records, programs, capacity, store, audit, identities
<1>4. ASSUME NEW j \in Jobs, BootReads(j) PROVE TypeOK'
  <2>1. IF disk[j].state \in Live THEN Interrupted \in Record ELSE disk[j] \in Record
    BY InterruptedType DEF TypeOK, RecordsType
  <2>2. /\ rec' \in [Jobs -> Record] /\ disk' \in [Jobs -> Record]
        /\ known' \subseteq Jobs
    BY <1>4, <2>1 DEF BootReads, TypeOK, RecordsType
  <2> QED
    BY <1>4, <2>2 DEF BootReads, BootFrame, TypeOK, ProcessType, RecordsType,
       ProgramsType, CapacityType, StoreType, HistoryType, programs, capacity, audit,
       identities
<1>5. CASE BootCompletes
  <2>1. /\ disk' \in [Jobs -> Record] /\ known' \subseteq Jobs /\ forgotten' \subseteq Jobs
    BY <1>5, WithoutType DEF BootCompletes, Aged, TypeOK, RecordsType, HistoryType
  <2> QED
    BY <1>5, <2>1 DEF BootCompletes, BootFrame, TypeOK, ProcessType, RecordsType,
       ProgramsType, CapacityType, StoreType, HistoryType, programs, capacity, audit,
       identities
<1> QED
  BY <1>1, <1>2, <1>3, <1>4, <1>5 DEF Lifecycle, Exit, Crash, Boot

\* a cancellation,
LEMMA CancelTypes == ASSUME TypeOK, NEW j \in Jobs, Cancel(j) PROVE TypeOK'
<1>1. rec[j] \in Record
  BY DEF TypeOK, RecordsType
<1>2. /\ [rec[j] EXCEPT !.state = "cancelled"] \in Record
      /\ [rec[j] EXCEPT !.term = "requested"] \in Record
  BY <1>1, SetState, SetTerm DEF States, Terminal
<1>3. rec' \in [Jobs -> Record] /\ aborted' \subseteq Jobs
  BY <1>2 DEF Cancel, TypeOK, RecordsType
<1>4. fin' \in [Jobs -> [Closers -> {"idle", "audit", "save", "end"}]]
  BY DEF Cancel, TypeOK, ProgramsType, Closers
<1> QED
  BY <1>3, <1>4 DEF Cancel, TypeOK, ProcessType, RecordsType, ProgramsType, CapacityType,
     StoreType, HistoryType, process, capacity, store, audit, identities

\* every step of the environment,
LEMMA EnvironmentTypes == ASSUME TypeOK, Environment PROVE TypeOK'
  BY DEF Environment, SyncStarts, SyncEnds, ModeChanges, SyncFrame, TypeOK, ProcessType,
     RecordsType, ProgramsType, CapacityType, StoreType, HistoryType, process, records,
     programs, store, audit, identities

\* Every step of the specification, or a stutter, is one of these.
LEMMA StepCases ==
  ASSUME [Next]_vars
  PROVE  \/ \E j \in Jobs, r \in Requests : Submit(j, r)
         \/ \E j \in Jobs, ok \in BOOLEAN :
               AttemptAudited(j, ok) \/ Refuse(j) \/ RefusalAudited(j, ok)
         \/ \E j \in Jobs : Admit(j) \/ Cancel(j)
         \/ \E j \in Jobs, o \in Outcomes :
               \/ Spawn(j) \/ ExecutorRefuses(j) \/ TerminationFails(j)
               \/ QuarantineReleases(j) \/ ChildEnds(j, o)
         \/ \E j \in Jobs, ok \in BOOLEAN :
               CompletionAudited(j, ok) \/ FailureAudited(j, ok) \/ OrphanAudited(j, ok)
         \/ \E j \in Jobs, c \in Closers, ok \in BOOLEAN : FinishAudited(j, c, ok)
         \/ Pump \/ PumpResumes \/ PumpCleans
         \/ Storing \/ Lifecycle \/ Environment \/ UNCHANGED vars
<1>1. "none" \in Outcomes /\ TRUE \in BOOLEAN
  BY DEF Outcomes
<1> QED
  BY <1>1 DEF Next, Client, Submission, Running, Finishing, Pumping

\* and a stutter.
LEMMA StutterTypes == ASSUME TypeOK, UNCHANGED vars PROVE TypeOK'
  BY DEF vars, process, records, programs, capacity, store, audit, identities, TypeOK,
     ProcessType, RecordsType, ProgramsType, CapacityType, StoreType, HistoryType

\* The initial states are well typed.
LEMMA InitType == Init => TypeOK
<1> SUFFICES ASSUME Init PROVE TypeOK
  OBVIOUS
<1>1. ProcessType /\ RecordsType
  BY NoRecordType DEF Init, ProcessType, RecordsType
<1>2. ProgramsType
  BY DEF Init, ProgramsType, RunSteps, Outcomes
<1>3. CapacityType /\ StoreType
  BY EmptySeq DEF Init, CapacityType, StoreType
<1>4. HistoryType
  BY DEF Init, HistoryType
<1> QED
  BY <1>1, <1>2, <1>3, <1>4 DEF TypeOK

\* Every step keeps the types.
LEMMA TypeStep == ASSUME TypeOK, [Next]_vars PROVE TypeOK'
  BY StepCases, SubmitType, SubmissionTypes, AdmitType, CancelTypes, ExecutorTypes, FinalizeTypes,
     FinishAuditedType, PumpTypes, StoreTypes, LifecycleTypes, EnvironmentTypes,
     StutterTypes

\* Every variable keeps its type, and the store is only busy with an operation
\* of its queue, whatever the numbers of jobs, requests and restarts are.
THEOREM TypeCorrect == Spec => []TypeOK
<1>1. Init => TypeOK
  BY InitType
<1>2. TypeOK /\ [Next]_vars => TypeOK'
  BY TypeStep
<1> QED
  BY <1>1, <1>2, PTL DEF Spec

-----------------------------------------------------------------------------
(* The inductive invariant.  A job ID is started once because a start needs *)
(* a queued record, only an admission makes one, an admission follows a     *)
(* submission, and a submission draws a job ID that was never used: what    *)
(* outlives the process (req and spawned) has to tell these apart, since a  *)
(* crash forgets every program counter.                                     *)

Unused(j) == spawned[j] = 0 /\ run[j] = "idle"

JobInv(j) ==
    /\ spawned[j] <= 1
    /\ req[j] = NoRequest => Unused(j)
    /\ sub[j] \in {"attempt", "recheck"} => Unused(j) /\ req[j] # NoRequest
    /\ rec[j].state = "queued" =>
          Unused(j) /\ req[j] # NoRequest /\ sub[j] \notin {"attempt", "recheck"}
    /\ run[j] \in {"starting", "running", "mode"} =>
          spawned[j] = 0 /\ slot[j] = "reserved"
    /\ slot[j] = "reserved" => run[j] \in {"starting", "running", "mode", "orphan"}
    /\ slot[j] = "active" <=> run[j] = "child"

StartInv == \A j \in Jobs : JobInv(j)

\* The inductive invariant implies both properties.
LEMMA StartInvImplies == StartInv => StartedOnce /\ SlotsAccounted
  BY DEF StartInv, JobInv, StartedOnce, SlotsAccounted

\* A step that leaves a job's own variables alone, or makes its record
\* anything but queued, keeps its part of the invariant.
LEMMA JobUntouched ==
  ASSUME NEW j \in Jobs, JobInv(j),
         UNCHANGED <<spawned[j], run[j], req[j], slot[j]>>,
         sub'[j] \in {"attempt", "recheck"} => sub[j] \in {"attempt", "recheck"},
         rec'[j].state = "queued" => rec[j].state = "queued"
  PROVE  JobInv(j)'
  BY DEF JobInv, Unused

-----------------------------------------------------------------------------
(* One pass of the pump                                                     *)

\* A pump pass keeps every job's part of the invariant.
LEMMA PassKeepsJob ==
  ASSUME TypeOK, NEW q, PumpPass(q), NEW k \in Jobs, JobInv(k),
         UNCHANGED <<spawned, req>>,
         sub'[k] \in {"attempt", "recheck"} => sub[k] \in {"attempt", "recheck"}
  PROVE  JobInv(k)'
<1> rec[k] \in Record
  BY DEF TypeOK, RecordsType
<1>1. CASE PumpStarts(q)
  <2>1. PICK n, first, S : Started(q, n, first, S)
    BY <1>1, PumpStartsShape
  <2>2. CASE k \in S
    <3>1. rec[k].state = "queued"
      <4>1. k \in Queued
        BY <2>1, <2>2 DEF Started
      <4> QED BY <4>1 DEF Queued
    <3>2. /\ rec'[k] = [rec[k] EXCEPT !.state = "starting"]
          /\ run'[k] = "starting" /\ slot'[k] = "reserved"
      BY <2>1, <2>2 DEF Started
    <3>3. rec'[k].state = "starting"
      BY <3>2 DEF Record
    <3> QED
      BY <3>1, <3>2, <3>3 DEF JobInv, Unused
  <2>3. CASE k \notin S
    BY <2>1, <2>3, JobUntouched DEF Started
  <2> QED
    BY <2>2, <2>3
<1>2. CASE PumpExpires(q)
  <2>1. PICK j \in Least(rank, Queued) : rec' = [rec EXCEPT ![j].state = "failed"]
    BY <1>2 DEF PumpExpires
  <2>2. rec'[k].state = "queued" => rec[k].state = "queued"
    BY <2>1 DEF TypeOK, RecordsType, Record
  <2> QED
    BY <1>2, <2>2, JobUntouched DEF PumpExpires
<1>3. CASE UNCHANGED <<rec, slot, run, fin>>
  BY <1>3, JobUntouched
<1> QED
  BY <1>1, <1>2, <1>3 DEF PumpPass

\* So does the answer to any store operation.
LEMMA SettleKeepsJob ==
  ASSUME TypeOK, NEW t \in Tickets, NEW ok \in BOOLEAN, NEW q, Settle(t, ok, q),
         NEW k \in Jobs, JobInv(k)
  PROVE  JobInv(k)'
<1> t.job \in Jobs /\ rec[k] \in Record /\ rec[t.job] \in Record
  BY DEF Tickets, TypeOK, RecordsType
<1> UNCHANGED <<spawned, req>>
  BY DEF Settle, identities
<1>1. CASE AcceptSaved(t.job, ok, q)
  <2>1. sub'[k] \in {"attempt", "recheck"} => sub[k] \in {"attempt", "recheck"}
    BY <1>1 DEF AcceptSaved, TypeOK, ProgramsType
  <2>2. CASE ok /\ MayPump
    BY <1>1, <2>1, <2>2, PassKeepsJob DEF AcceptSaved, PumpNow
  <2>3. CASE ~(ok /\ MayPump)
    <3>1. UNCHANGED <<rec, slot, run>>
      BY <1>1, <2>3 DEF AcceptSaved, PumpNow
    <3> QED
      BY <2>1, <3>1, JobUntouched
  <2> QED
    BY <2>2, <2>3
<1>2. CASE t.op \in {"starting", "running"} /\ run[t.job] = t.op /\ RunSaved(t.job, ok, q)
  <2>1. UNCHANGED <<sub, slot>>
    BY <1>2 DEF RunSaved
  <2>2. CASE k = t.job
    <3>1. run'[k] \in {"running", "mode", "orphan"}
      BY <1>2, <2>2 DEF RunSaved, After, TypeOK, ProgramsType
    <3>2. rec'[k].state \in {rec[k].state, "running", "cancelled", "failed"}
      <4>1. rec' \in {rec, [rec EXCEPT ![k].state = "running"],
                      [rec EXCEPT ![k] = Caught(rec[k], "storage", k \in aborted)]}
        BY <1>2, <2>2 DEF RunSaved
      <4>2. Caught(rec[k], "storage", k \in aborted).state \in {"cancelled", "failed"}
        BY DEF Caught, Record
      <4> QED
        BY <4>1, <4>2 DEF Record, TypeOK, RecordsType
    <3> QED
      BY <1>2, <2>1, <2>2, <3>1, <3>2 DEF JobInv, Unused
  <2>3. CASE k # t.job
    <3>1. run'[k] = run[k] /\ rec'[k] = rec[k]
      BY <1>2, <2>3 DEF RunSaved, TypeOK, RecordsType, ProgramsType
    <3> QED
      BY <2>1, <3>1, JobUntouched
  <2> QED
    BY <2>2, <2>3
<1>3. CASE run[t.job] = "final" /\ FinalSaved(t.job, ok, q)
  <2>1. UNCHANGED <<sub, slot>> /\ rec'[k].state = rec[k].state
    BY <1>3 DEF FinalSaved, Withheld, Record, TypeOK, RecordsType
  <2>2. run'[k] = IF k = t.job THEN "end" ELSE run[k]
    BY <1>3 DEF FinalSaved, TypeOK, ProgramsType
  <2> QED
    BY <1>3, <2>1, <2>2 DEF JobInv, Unused
<1>4. CASE FinishSaved(t.job, t.op, ok, q)
  BY <1>4, JobUntouched DEF FinishSaved
<1>5. CASE CleanupDone(ok, q)
  BY <1>5, JobUntouched DEF CleanupDone
<1> QED
  BY <1>1, <1>2, <1>3, <1>4, <1>5 DEF Settle

-----------------------------------------------------------------------------
(* The steps of the specification                                           *)

\* A submission draws an unused job ID, and an admission finds it unused.
LEMMA SubmissionKeeps ==
  ASSUME TypeOK, NEW j \in Jobs, NEW k \in Jobs, JobInv(k),
         \/ \E r \in Requests : Submit(j, r)
         \/ \E ok \in BOOLEAN : AttemptAudited(j, ok) \/ RefusalAudited(j, ok)
         \/ Refuse(j) \/ Admit(j)
  PROVE  JobInv(k)'
<1>1. ASSUME NEW r \in Requests, Submit(j, r) PROVE JobInv(k)'
  <2>1. UNCHANGED <<rec, run, slot, spawned>>
    BY <1>1 DEF Submit, records, capacity
  <2>2. CASE k = j
    <3>1. sub'[k] = "attempt" /\ req'[k] = r /\ r # NoRequest /\ req[k] = NoRequest
      BY <1>1, <2>2, BackgroundJobsAssumption DEF Submit, TypeOK, ProgramsType, HistoryType
    <3> QED
      BY <2>1, <3>1 DEF JobInv, Unused
  <2>3. CASE k # j
    <3>1. sub'[k] = sub[k] /\ req'[k] = req[k]
      BY <1>1, <2>3 DEF Submit, TypeOK, ProgramsType, HistoryType
    <3> QED
      BY <2>1, <3>1, JobUntouched
  <2> QED
    BY <2>2, <2>3
<1>2. ASSUME NEW ok \in BOOLEAN, AttemptAudited(j, ok) \/ RefusalAudited(j, ok)
      PROVE  JobInv(k)'
  <2>1. UNCHANGED <<rec, run, slot, spawned, req>>
    BY <1>2 DEF AttemptAudited, RefusalAudited, SubmissionFrame, records, capacity, identities
  <2>2. sub'[k] \in {"attempt", "recheck"} => sub[k] \in {"attempt", "recheck"}
    BY <1>2 DEF AttemptAudited, RefusalAudited, TypeOK, ProgramsType
  <2> QED
    BY <2>1, <2>2, JobUntouched
<1>3. CASE Refuse(j)
  <2>1. UNCHANGED <<rec, run, slot, spawned, req>>
    BY <1>3 DEF Refuse, SubmissionFrame, records, capacity, identities
  <2>2. sub'[k] \in {"attempt", "recheck"} => sub[k] \in {"attempt", "recheck"}
    BY <1>3 DEF Refuse, TypeOK, ProgramsType
  <2> QED
    BY <2>1, <2>2, JobUntouched
<1>4. CASE Admit(j)
  <2>1. UNCHANGED <<run, slot, spawned, req>>
    BY <1>4 DEF Admit, SubmissionFrame, capacity, identities
  <2>2. sub'[k] = IF k = j THEN "save" ELSE sub[k]
    BY <1>4 DEF Admit, TypeOK, ProgramsType
  <2>3. rec'[k] = IF k = j THEN NewRecord ELSE rec[k]
    BY <1>4 DEF Admit, TypeOK, RecordsType
  <2>4. k = j => sub[k] = "recheck"
    BY <1>4 DEF Admit
  <2> QED
    BY <2>1, <2>2, <2>3, <2>4 DEF JobInv, Unused
<1> QED
  BY <1>1, <1>2, <1>3, <1>4

\* A child is started once, on the reserved slot of its job.
LEMMA ExecutorKeeps ==
  ASSUME TypeOK, NEW j \in Jobs, NEW o \in Outcomes, NEW k \in Jobs, JobInv(k),
         \/ Spawn(j) \/ ExecutorRefuses(j) \/ TerminationFails(j) \/ QuarantineReleases(j)
         \/ ChildEnds(j, o)
  PROVE  JobInv(k)'
<1> rec[k] \in Record
  BY DEF TypeOK, RecordsType
<1>1. UNCHANGED <<sub, req>>
  BY DEF Spawn, ExecutorRefuses, TerminationFails, QuarantineReleases, ChildEnds, RunFrame,
     identities
<1>2. CASE k # j
  <2>1. UNCHANGED <<spawned[k], run[k], slot[k], rec[k]>>
    BY <1>2 DEF Spawn, ExecutorRefuses, TerminationFails, QuarantineReleases, ChildEnds,
       TypeOK, RecordsType, ProgramsType, CapacityType, HistoryType
  <2> QED
    BY <1>1, <2>1, JobUntouched
<1>3. CASE k = j
  <2>1. CASE Spawn(j)
    <3>1. /\ run[k] = "mode" /\ run'[k] = "child" /\ slot'[k] = "active"
          /\ spawned'[k] = spawned[k] + 1 /\ rec' = rec
      BY <1>3, <2>1 DEF Spawn, TypeOK, ProgramsType, CapacityType, HistoryType
    <3> QED
      BY <1>1, <3>1 DEF JobInv, Unused
  <2>2. CASE QuarantineReleases(j)
    <3>1. slot[k] = "quarantined" /\ slot'[k] = "none" /\ UNCHANGED <<run, spawned, rec>>
      BY <1>3, <2>2 DEF QuarantineReleases, TypeOK, CapacityType
    <3> QED
      BY <1>1, <3>1 DEF JobInv, Unused
  <2>3. CASE ExecutorRefuses(j) \/ TerminationFails(j) \/ ChildEnds(j, o)
    <3>1. /\ run[k] \in {"mode", "child"} /\ spawned' = spawned
          /\ run'[k] \in {"blocked", "failed", "completed"}
          /\ slot'[k] \in {"none", "quarantined"}
      BY <1>3, <2>3 DEF ExecutorRefuses, TerminationFails, ChildEnds, TypeOK, ProgramsType,
         CapacityType
    <3>2. rec'[k].state \in {rec[k].state, "finalizing"}
      BY <1>3, <2>3 DEF ExecutorRefuses, TerminationFails, ChildEnds, TypeOK, RecordsType,
         Record
    <3> QED
      BY <1>1, <3>1, <3>2 DEF JobInv, Unused
  <2> QED
    BY <2>1, <2>2, <2>3
<1> QED
  BY <1>2, <1>3

\* The end of run() gives back what is still reserved.
LEMMA FinalizeKeeps ==
  ASSUME TypeOK, NEW j \in Jobs, NEW ok \in BOOLEAN, NEW k \in Jobs, JobInv(k),
         CompletionAudited(j, ok) \/ FailureAudited(j, ok) \/ OrphanAudited(j, ok)
  PROVE  JobInv(k)'
<1>1. Finalize(j) /\ RunFrame /\ run[j] \in {"completed", "blocked", "failed", "orphan"}
  BY DEF CompletionAudited, FailureAudited, OrphanAudited
<1>2. UNCHANGED <<sub, req, spawned>>
  BY <1>1 DEF Finalize, RunFrame, identities
<1>3. CASE k # j
  <2>1. run'[k] = run[k] /\ slot'[k] = slot[k]
    BY <1>1, <1>3 DEF Finalize, GivesBack, TypeOK, ProgramsType, CapacityType
  <2>2. rec'[k] = rec[k]
    BY <1>3 DEF CompletionAudited, FailureAudited, OrphanAudited, TypeOK, RecordsType
  <2> QED
    BY <1>2, <2>1, <2>2, JobUntouched
<1>4. CASE k = j
  <2>1. run'[k] = "final" /\ slot'[k] # "reserved"
    BY <1>1, <1>4 DEF Finalize, GivesBack, TypeOK, ProgramsType, CapacityType
  <2>2. slot'[k] = "active" => slot[k] = "active"
    BY <1>1, <1>4 DEF Finalize, GivesBack, TypeOK, CapacityType
  <2>3. rec'[k].state = "queued" => rec[k].state = "queued"
    <3> DEFINE r == rec[k]
               ab == k \in aborted
    <3>1. r \in Record
      BY DEF TypeOK, RecordsType
    <3>2. /\ Published(r, outcome[k]).state # "queued"
          /\ \A err : Evidenced(Caught(r, err, ab), err, ab).state # "queued"
      BY <3>1 DEF Published, Evidenced, Caught, Record
    <3>3. /\ Evidenced(r, "storage", ab).state = r.state
          /\ Evidenced([r EXCEPT !.audit = "unavailable"], "storage", ab).state = r.state
      BY <3>1 DEF Evidenced, Record
    <3>4. rec'[k] \in {Published(r, outcome[k]), Evidenced(r, "storage", ab),
                       Evidenced([r EXCEPT !.audit = "unavailable"], "storage", ab)}
                      \cup {Evidenced(Caught(r, err, ab), err, ab) : err \in {"audit", outcome[k]}}
      BY <1>4 DEF CompletionAudited, FailureAudited, OrphanAudited, TypeOK, RecordsType
    <3> HIDE DEF r, ab
    <3>5. \/ rec'[k].state # "queued"
          \/ rec'[k].state = r.state
      BY <3>2, <3>3, <3>4
    <3> QED
      BY <3>5 DEF r
  <2> QED
    BY <1>1, <1>2, <1>4, <2>1, <2>2, <2>3 DEF JobInv, Unused
<1> QED
  BY <1>3, <1>4

\* A job finished without running is no longer queued.
LEMMA FinishKeeps ==
  ASSUME TypeOK, NEW j \in Jobs, NEW k \in Jobs, JobInv(k),
         \/ \E c \in Closers, ok \in BOOLEAN : FinishAudited(j, c, ok)
         \/ Cancel(j) \/ Shutdown
  PROVE  JobInv(k)'
<1> rec[k] \in Record
  BY DEF TypeOK, RecordsType
<1>1. UNCHANGED <<spawned, run, req, slot, sub>>
  BY DEF FinishAudited, Cancel, Shutdown, RunFrame, capacity, identities
<1>2. rec'[k].state = "queued" => rec[k].state = "queued"
  <2>1. CASE \E c \in Closers, ok \in BOOLEAN : FinishAudited(j, c, ok)
    <3>1. PICK a : rec' = [rec EXCEPT ![j].audit = a]
      BY <2>1 DEF FinishAudited
    <3> QED
      BY <3>1 DEF TypeOK, RecordsType, Record
  <2>2. CASE Cancel(j)
    <3>1. CASE rec' = [rec EXCEPT ![j].state = "cancelled"]
      BY <3>1 DEF TypeOK, RecordsType, Record
    <3>2. CASE rec' = [rec EXCEPT ![j].term = "requested"]
      BY <3>2 DEF TypeOK, RecordsType, Record
    <3> QED
      BY <2>2, <3>1, <3>2 DEF Cancel
  <2>3. CASE Shutdown
    BY <2>3 DEF Shutdown, TypeOK, RecordsType, Record
  <2> QED
    BY <2>1, <2>2, <2>3
<1> QED
  BY <1>1, <1>2, JobUntouched

\* Every step of the store keeps the invariant.
LEMMA StoreKeeps == ASSUME TypeOK, Storing, NEW k \in Jobs, JobInv(k) PROVE JobInv(k)'
<1>1. CASE StoreBegins \/ StoreEndsLate
  BY <1>1, JobUntouched DEF StoreBegins, StoreEndsLate, records, programs, capacity,
     identities
<1>2. ASSUME NEW t \in Tickets, NEW ok \in BOOLEAN, NEW q, Settle(t, ok, q)
      PROVE  JobInv(k)'
  BY <1>2, SettleKeepsJob
<1>3. storeQ # <<>> => storeQ[1] \in Tickets
  BY QueueParts
<1>4. \A i \in 1 .. Len(storeQ) : storeQ[i] \in Tickets
  BY QueueParts
<1>5. head # "idle" => storeQ # <<>>
  BY DEF TypeOK, StoreType
<1> QED
  BY <1>1, <1>2, <1>3, <1>4, <1>5
  DEF Storing, StoreCommits, StoreFails, StoreTimesOut, StoreRefuses

\* So do cancellation, shutdown, crash, restart and the environment.
LEMMA LifeKeeps ==
  ASSUME TypeOK, NEW k \in Jobs, JobInv(k),
         \/ Stop \/ Restart \/ BootCompletes \/ \E j \in Jobs : BootReads(j)
         \/ Environment \/ PumpCleans \/ UNCHANGED vars
  PROVE  JobInv(k)'
<1>1. CASE Stop
  BY <1>1 DEF Stop, NoRecord, identities, JobInv, Unused
<1>2. CASE Restart \/ BootCompletes \/ Environment \/ PumpCleans \/ UNCHANGED vars
  BY <1>2, JobUntouched DEF Restart, BootCompletes, BootFrame, Environment, SyncStarts,
     SyncEnds, ModeChanges, SyncFrame, PumpCleans, vars, records, programs, capacity,
     identities
<1>3. ASSUME NEW j \in Jobs, BootReads(j) PROVE JobInv(k)'
  <2>1. UNCHANGED <<spawned, run, req, slot, sub>>
    BY <1>3 DEF BootReads, BootFrame, programs, capacity, identities
  <2>2. rec'[k].state = "queued" => rec[k].state = "queued"
    BY <1>3 DEF BootReads, Interrupted, Live, TypeOK, RecordsType
  <2> QED
    BY <2>1, <2>2, JobUntouched
<1> QED
  BY <1>1, <1>2, <1>3

\* So does a pass started by the timer or resumed after an await.
LEMMA PumpKeeps ==
  ASSUME TypeOK, Pump \/ PumpResumes, NEW k \in Jobs, JobInv(k) PROVE JobInv(k)'
  BY PassKeepsJob DEF Pump, PumpResumes, PumpFrame, identities

\* Every step keeps every job's part of the invariant.
LEMMA JobStep ==
  ASSUME TypeOK, [Next]_vars, NEW k \in Jobs, JobInv(k) PROVE JobInv(k)'
<1>1. Lifecycle => Shutdown \/ Stop \/ Restart \/ BootCompletes \/ \E j \in Jobs : BootReads(j)
  BY DEF Lifecycle, Exit, Crash, Boot
<1> QED
  BY <1>1, StepCases, SubmissionKeeps, ExecutorKeeps, FinalizeKeeps, FinishKeeps, StoreKeeps,
     LifeKeeps, PumpKeeps

\* The inductive invariant holds throughout: what run(), startInternal and the
\* durable identities say of a job's start and of its slot agree.
THEOREM StartInvariant == Spec => []StartInv
<1>1. Init => StartInv
  BY DEF Init, StartInv, JobInv, Unused, NoRecord
<1>2. TypeOK /\ StartInv /\ [Next]_vars => StartInv'
  BY JobStep DEF StartInv
<1> QED
  BY <1>1, <1>2, TypeCorrect, PTL DEF Spec

\* A job's command is started at most once, over all crashes and restarts.
THEOREM StartsAtMostOnce == Spec => []StartedOnce
  BY StartInvariant, StartInvImplies, PTL

\* Capacity is neither leaked nor given back early.
THEOREM CapacityAccounted == Spec => []SlotsAccounted
  BY StartInvariant, StartInvImplies, PTL

-----------------------------------------------------------------------------
(* The bound of the capacity.  A pass takes no more slots than are free when *)
(* it begins, in the same turn; a synchronous command and an admission check *)
(* and take in one turn; and every other step only gives back, given that a  *)
(* job that is about to spawn already holds its reservation (StartInv).      *)

\* The jobs that hold capacity are finitely many,
LEMMA HoldingFinite == IsFiniteSet(Holding) /\ Cardinality(Holding) \in Nat
<1>1. IsFiniteSet(Holding)
  BY BackgroundJobsAssumption, FS_Subset DEF Holding
<1> QED
  BY <1>1, FS_CardinalityType

\* and so are the admitted unfinished ones.
LEMMA ActiveFinite == TypeOK => IsFiniteSet(active) /\ Cardinality(active) \in Nat
<1>1. TypeOK => IsFiniteSet(active)
  BY BackgroundJobsAssumption, FS_Subset DEF TypeOK, RecordsType
<1> QED
  BY <1>1, FS_CardinalityType

GivesBackOnly == /\ \A k \in Jobs : slot'[k] # "none" => slot[k] # "none"
                 /\ sync' <= sync

\* A sum of two numbers that do not grow stays within its bound.
LEMMA SumBound ==
  ASSUME NEW a \in Nat, NEW b \in Nat, NEW c \in Nat, NEW d \in Nat, NEW m \in Nat,
         a <= b, c <= d, b + d <= m
  PROVE  a + c <= m
  OBVIOUS

\* A step that only gives capacity back keeps its bound.
LEMMA GivingBackKeeps ==
  ASSUME TypeOK, TypeOK', InUse <= MaxParallel, GivesBackOnly
  PROVE  InUse' <= MaxParallel
<1>1. Holding' \subseteq Holding
  BY DEF Holding, GivesBackOnly
<1>2. Cardinality(Holding') <= Cardinality(Holding) /\ Cardinality(Holding') \in Nat
  BY <1>1, HoldingFinite, FS_Subset, FS_CardinalityType
<1> DEFINE h == Cardinality(Holding)
           i == Cardinality(Holding')
<1>3. i <= h /\ i \in Nat /\ h \in Nat
  BY <1>2, HoldingFinite
<1>4. h + sync <= MaxParallel /\ InUse' = i + sync'
  BY DEF InUse
<1>5. sync \in Nat /\ sync' \in Nat /\ sync' <= sync /\ MaxParallel \in Nat
  BY BackgroundJobsAssumption DEF GivesBackOnly, TypeOK, CapacityType
<1>6. i + sync' <= MaxParallel
  <2> HIDE DEF h, i
  <2> QED BY <1>3, <1>4, <1>5, SumBound
<1> QED
  BY <1>4, <1>6

\* A step that only takes jobs out of the active map keeps its bound.
LEMMA ShrinkingKeeps ==
  ASSUME TypeOK, Cardinality(active) <= MaxActive, active' \subseteq active
  PROVE  Cardinality(active') <= MaxActive
<1>1. Cardinality(active') <= Cardinality(active) /\ Cardinality(active') \in Nat
  BY ActiveFinite, FS_Subset, FS_CardinalityType
<1> DEFINE a == Cardinality(active)
           b == Cardinality(active')
<1>2. a \in Nat /\ b \in Nat /\ b <= a /\ a <= MaxActive /\ MaxActive \in Nat
  BY <1>1, ActiveFinite, BackgroundJobsAssumption
<1> HIDE DEF a, b
<1>3. b <= MaxActive
  BY <1>2
<1> QED
  BY <1>3 DEF b

\* A pump pass reserves no more than the free slots.
LEMMA PassWithinCapacity ==
  ASSUME TypeOK, TypeOK', NEW q, PumpPass(q), sync' = sync, InUse <= MaxParallel
  PROVE  InUse' <= MaxParallel
<1>1. CASE PumpStarts(q)
  <2>1. PICK n, first, S : Started(q, n, first, S)
    BY <1>1, PumpStartsShape
  <2>2. n \in Nat /\ n <= Slots /\ \A k \in Jobs \ S : slot'[k] = slot[k]
    BY <2>1 DEF Started
  <2>3. IsFiniteSet(S) /\ Cardinality(S) <= n /\ Cardinality(S) \in Nat
    <3>1. first \in Surjection(1 .. n, S)
      BY <2>1 DEF Started, Surjection
    <3>2. ExistsSurjection(1 .. n, S)
      BY <3>1 DEF ExistsSurjection
    <3>3. Cardinality(S) <= n
      BY <2>2, <3>2, FS_SurjCardinalityBound
    <3>4. IsFiniteSet(S)
      BY <2>2, <3>2, FS_NatSurjection
    <3> QED
      BY <3>3, <3>4, FS_CardinalityType
  <2>4. Holding' \subseteq Holding \cup S
    BY <2>2 DEF Holding
  <2> DEFINE h == Cardinality(Holding)
             u == Cardinality(Holding \cup S)
             x == Cardinality(Holding \cap S)
             i == Cardinality(Holding')
             s == Cardinality(S)
  <2>5. u = h + s - x /\ x \in Nat /\ h \in Nat /\ IsFiniteSet(Holding \cup S)
    <3>1. IsFiniteSet(Holding \cap S)
      BY HoldingFinite, FS_Subset
    <3> QED
      BY <2>3, <3>1, HoldingFinite, FS_Union, FS_CardinalityType
  <2>6. i <= u /\ i \in Nat /\ u \in Nat
    BY <2>4, <2>5, FS_Subset, FS_CardinalityType
  <2>7. s <= n /\ s \in Nat /\ n \in Nat
    BY <2>2, <2>3
  <2>8. n <= (IF h + sync < MaxParallel THEN MaxParallel - (h + sync) ELSE 0)
    BY <2>2, <2>5, BackgroundJobsAssumption DEF Slots, InUse, TypeOK, CapacityType
  <2>9. sync \in Nat /\ MaxParallel \in Nat /\ h + sync <= MaxParallel
    BY BackgroundJobsAssumption DEF TypeOK, CapacityType, InUse
  <2>10. InUse' = i + sync
    BY DEF InUse
  <2> HIDE DEF h, u, x, i, s
  <2> QED
    BY <2>5, <2>6, <2>7, <2>8, <2>9, <2>10
<1>2. CASE slot' = slot
  BY <1>2, GivingBackKeeps DEF GivesBackOnly, TypeOK, CapacityType
<1> QED
  BY <1>1, <1>2 DEF PumpPass, PumpExpires

\* What each step does to the capacity and to the active map.
Bounded == InUse <= MaxParallel /\ Cardinality(active) <= MaxActive

\* A step that takes no capacity and admits nobody keeps both bounds.
LEMMA CalmKeeps ==
  ASSUME TypeOK, TypeOK', Bounded, GivesBackOnly, active' \subseteq active
  PROVE  Bounded'
  BY GivingBackKeeps, ShrinkingKeeps DEF Bounded

\* So does a pump pass.
LEMMA PassKeeps ==
  ASSUME TypeOK, TypeOK', Bounded, NEW q, PumpPass(q), UNCHANGED <<sync, active>>
  PROVE  Bounded'
  BY PassWithinCapacity DEF Bounded

\* So does the answer to any store operation.
LEMMA SettleCapacity ==
  ASSUME TypeOK, TypeOK', Bounded, NEW t, NEW ok \in BOOLEAN, NEW q, Settle(t, ok, q)
  PROVE  Bounded'
<1> sync' = sync /\ sync \in Nat
  BY DEF Settle, TypeOK, CapacityType
<1>1. CASE AcceptSaved(t.job, ok, q) /\ ok /\ MayPump
  BY <1>1, PassKeeps DEF AcceptSaved, PumpNow
<1>2. CASE AcceptSaved(t.job, ok, q) /\ ~(ok /\ MayPump)
  <2>1. slot' = slot /\ active' \subseteq active
    BY <1>2 DEF AcceptSaved, PumpNow, Leaves
  <2> QED
    BY <2>1, CalmKeeps DEF GivesBackOnly
<1>3. CASE \/ RunSaved(t.job, ok, q) \/ FinalSaved(t.job, ok, q)
           \/ FinishSaved(t.job, t.op, ok, q) \/ CleanupDone(ok, q)
  <2>1. slot' = slot /\ active' \subseteq active
    BY <1>3 DEF RunSaved, FinalSaved, FinishSaved, CleanupDone, Leaves
  <2> QED
    BY <2>1, CalmKeeps DEF GivesBackOnly
<1> QED
  BY <1>1, <1>2, <1>3 DEF Settle

\* An admission checks the number of active jobs in its own turn.
LEMMA AdmitBounded ==
  ASSUME TypeOK, TypeOK', Bounded, NEW j \in Jobs, Admit(j) PROVE Bounded'
<1>1. slot' = slot /\ sync' = sync /\ active' = active \cup {j}
  BY DEF Admit, SubmissionFrame, capacity
<1>2. InUse' <= MaxParallel
  <2>1. GivesBackOnly
    BY <1>1 DEF GivesBackOnly, TypeOK, CapacityType
  <2> QED
    BY <2>1, GivingBackKeeps DEF Bounded
<1>3. Cardinality(active \cup {j}) <= Cardinality(active) + 1
  <2> DEFINE c == Cardinality(active)
             d == Cardinality(active \cup {j})
  <2>1. d = (IF j \in active THEN c ELSE c + 1) /\ c \in Nat
    BY ActiveFinite, FS_AddElement
  <2>2. d <= c + 1
    <3> HIDE DEF c, d
    <3> QED BY <2>1
  <2> QED
    BY <2>2
<1>4. ~(Cardinality(active) >= MaxActive)
  BY DEF Admit, Full
<1>5. Cardinality(active \cup {j}) \in Nat
  BY ActiveFinite, FS_AddElement, FS_CardinalityType
<1> DEFINE a == Cardinality(active)
           b == Cardinality(active \cup {j})
<1>6. a \in Nat /\ b \in Nat /\ MaxActive \in Nat /\ b <= a + 1 /\ ~(a >= MaxActive)
  BY <1>3, <1>4, <1>5, ActiveFinite, BackgroundJobsAssumption
<1> HIDE DEF a, b
<1>7. b <= MaxActive
  BY <1>6
<1> QED
  BY <1>1, <1>2, <1>7 DEF Bounded, b

\* A synchronous command checks the free slots in its own turn.
LEMMA SyncBounded ==
  ASSUME TypeOK, TypeOK', Bounded, SyncStarts PROVE Bounded'
<1>1. slot' = slot /\ active' = active /\ sync' = sync + 1 /\ Slots > 0
  BY DEF SyncStarts, SyncFrame, records
<1>2. Holding' = Holding
  BY <1>1 DEF Holding
<1> DEFINE h == Cardinality(Holding)
<1>3. h \in Nat /\ sync \in Nat /\ MaxParallel \in Nat
  BY HoldingFinite, BackgroundJobsAssumption DEF TypeOK, CapacityType
<1>4. InUse = h + sync /\ InUse' = h + sync'
  BY <1>2 DEF InUse
<1> HIDE DEF h
<1>5. h + sync < MaxParallel
  BY <1>1, <1>3, <1>4 DEF Slots
<1>6. InUse' <= MaxParallel
  BY <1>1, <1>3, <1>4, <1>5
<1> QED
  BY <1>1, <1>6 DEF Bounded

\* Every step keeps both bounds.
LEMMA BoundedStep ==
  ASSUME TypeOK, TypeOK', StartInv, Bounded, [Next]_vars PROVE Bounded'
<1> sync \in Nat /\ sync' \in Nat /\ storeQ \in Seq(Tickets)
  BY DEF TypeOK, CapacityType, StoreType
<1>1. CASE \E j \in Jobs, r \in Requests : Submit(j, r)
  BY <1>1, CalmKeeps DEF Submit, GivesBackOnly, records, capacity
<1>2. CASE \E j \in Jobs, ok \in BOOLEAN :
              AttemptAudited(j, ok) \/ Refuse(j) \/ RefusalAudited(j, ok)
  <2>1. UNCHANGED <<slot, sync, active>>
    BY <1>2 DEF AttemptAudited, Refuse, RefusalAudited, SubmissionFrame, records, capacity
  <2> QED
    BY <2>1, CalmKeeps DEF GivesBackOnly
<1>3. CASE \E j \in Jobs : Admit(j)
  BY <1>3, AdmitBounded
<1>4. CASE \E j \in Jobs : Cancel(j)
  BY <1>4, CalmKeeps DEF Cancel, GivesBackOnly, capacity
<1>5. ASSUME NEW j \in Jobs, NEW o \in Outcomes,
             \/ Spawn(j) \/ ExecutorRefuses(j) \/ TerminationFails(j)
             \/ QuarantineReleases(j) \/ ChildEnds(j, o)
      PROVE  Bounded'
  <2>1. slot[j] # "none"
    BY <1>5 DEF StartInv, JobInv, Spawn, ExecutorRefuses, TerminationFails,
       QuarantineReleases, ChildEnds
  <2>2. UNCHANGED <<sync, active>> /\ \E s : slot' = [slot EXCEPT ![j] = s]
    BY <1>5 DEF Spawn, ExecutorRefuses, TerminationFails, QuarantineReleases, ChildEnds
  <2> QED
    BY <2>1, <2>2, CalmKeeps DEF GivesBackOnly, TypeOK, CapacityType
<1>6. ASSUME NEW j \in Jobs, NEW ok \in BOOLEAN,
             CompletionAudited(j, ok) \/ FailureAudited(j, ok) \/ OrphanAudited(j, ok)
      PROVE  Bounded'
  <2>1. Finalize(j)
    BY <1>6 DEF CompletionAudited, FailureAudited, OrphanAudited
  <2> QED
    BY <2>1, CalmKeeps DEF Finalize, GivesBack, GivesBackOnly, TypeOK, CapacityType
<1>7. CASE \E j \in Jobs, c \in Closers, ok \in BOOLEAN : FinishAudited(j, c, ok)
  BY <1>7, CalmKeeps DEF FinishAudited, Leaves, GivesBackOnly, capacity
<1>8. CASE Pump \/ PumpResumes
  BY <1>8, PassKeeps DEF Pump, PumpResumes, PumpFrame
<1>9. CASE PumpCleans \/ StoreBegins \/ StoreEndsLate \/ Shutdown \/ Restart
           \/ BootCompletes \/ (\E j \in Jobs : BootReads(j)) \/ UNCHANGED vars
  <2>1. UNCHANGED <<slot, sync, active>>
    BY <1>9 DEF PumpCleans, StoreBegins, StoreEndsLate, Shutdown, Restart, BootCompletes,
       BootReads, BootFrame, vars, records, capacity
  <2> QED
    BY <2>1, CalmKeeps DEF GivesBackOnly
<1>10. CASE StoreCommits \/ StoreFails \/ StoreTimesOut \/ StoreRefuses
  BY <1>10, SettleCapacity
  DEF StoreCommits, StoreFails, StoreTimesOut, StoreRefuses
<1>11. CASE Stop
  BY <1>11, CalmKeeps DEF Stop, GivesBackOnly
<1>12. CASE Environment
  <2>1. CASE SyncStarts
    BY <2>1, SyncBounded
  <2>2. CASE SyncEnds \/ ModeChanges
    BY <2>2, CalmKeeps DEF SyncEnds, ModeChanges, SyncFrame, GivesBackOnly, records
  <2> QED
    BY <1>12, <2>1, <2>2 DEF Environment
<1> QED
  BY <1>1, <1>2, <1>3, <1>4, <1>5, <1>6, <1>7, <1>8, <1>9, <1>10, <1>11, <1>12, StepCases
  DEF Storing, Lifecycle, Exit, Crash, Boot

\* Jobs, synchronous commands, reservations and quarantine together never
\* exceed the shared capacity, nor unfinished jobs theirs, for every capacity.
THEOREM CapacityInvariant == Spec => []Bounded
<1>1. Init => Bounded
  <2> SUFFICES ASSUME Init PROVE Bounded
    OBVIOUS
  <2>1. Holding = {} /\ active = {} /\ sync = 0
    BY DEF Init, Holding
  <2> QED
    BY <2>1, FS_EmptySet, BackgroundJobsAssumption DEF Bounded, InUse
<1>2. TypeOK /\ TypeOK' /\ StartInv /\ Bounded /\ [Next]_vars => Bounded'
  BY BoundedStep
<1> QED
  BY <1>1, <1>2, TypeCorrect, StartInvariant, PTL DEF Spec
=============================================================================
