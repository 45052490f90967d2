----------------------- MODULE BackgroundJobsContract -----------------------
(***************************************************************************)
(* The course of a job, for any number of jobs, requests and restarts and   *)
(* any set of faults: a command starts only after its acceptance, attempt   *)
(* and running state are recorded, its end is told once and stays, a        *)
(* quarantined end is reported as such, output is read only when it is      *)
(* durable, and the service as a whole implements JobContract.              *)
(***************************************************************************)
EXTENDS BackgroundJobsRecovery

-----------------------------------------------------------------------------
(* The course of one job.  However many actors there are, a step does one of *)
(* these things to a job and to nothing else of it.                          *)

SameAsk(k) == UNCHANGED <<sub[k], req[k]>> /\ (k \in attempted' <=> k \in attempted)
SameRun(k)  == UNCHANGED <<run[k], outcome[k], slot[k], spawned[k]>>
SameClose(k)    == UNCHANGED <<fin[k], terminals[k]>> /\ (k \in active' <=> k \in active)

Rests(k) == SameAsk(k) /\ SameRun(k) /\ SameClose(k) /\ rec'[k] = rec[k]

\* startInternal up to the admission, and after a refusal.
Asks(k) ==
    /\ SameRun(k) /\ UNCHANGED <<rec[k], fin[k]>> /\ (k \in active' <=> k \in active)
    /\ \/ /\ req[k] = NoRequest
          /\ sub'[k] = "attempt" /\ req'[k] # NoRequest
          /\ UNCHANGED terminals[k] /\ (k \in attempted' <=> k \in attempted)
       \/ /\ sub[k] = "attempt" /\ sub'[k] \in {"recheck", "refusing", "refused"}
          /\ k \in attempted \/ sub'[k] = "recheck" => k \in attempted'
          /\ UNCHANGED <<req[k], terminals[k]>>
       \/ /\ sub[k] = "recheck" /\ sub'[k] = "refusing"
          /\ UNCHANGED <<req[k], terminals[k]>> /\ (k \in attempted' <=> k \in attempted)
       \/ /\ sub[k] \in {"refusing", "failing"} /\ sub'[k] = "refused"
          /\ UNCHANGED req[k] /\ (k \in attempted' <=> k \in attempted)

Enters(k) ==
    /\ SameRun(k) /\ UNCHANGED <<req[k], fin[k], terminals[k]>>
    /\ (k \in attempted' <=> k \in attempted)
    /\ sub[k] = "recheck" /\ sub'[k] = "save"
    /\ rec'[k] = NewRecord /\ k \in active' /\ k \in known'

\* A pass of the pump, on its own or after the acceptance of some job.
Passes(k) ==
    /\ sub'[k] = sub[k] \/ (sub[k] = "save" /\ sub'[k] = "accepted")
    /\ UNCHANGED <<outcome[k], spawned[k], terminals[k], req[k]>>
    /\ (k \in attempted' <=> k \in attempted) /\ (k \in active' <=> k \in active)
    /\ \/ UNCHANGED <<rec[k], run[k], slot[k], fin[k]>>
       \/ /\ k \in active /\ rec[k].state = "queued"
          /\ rec'[k] = [rec[k] EXCEPT !.state = "starting"]
          /\ run'[k] = "starting" /\ slot'[k] = "reserved" /\ fin'[k] = fin[k]
       \/ /\ k \in active /\ rec[k].state = "queued"
          /\ rec'[k] = [rec[k] EXCEPT !.state = "failed"]
          /\ fin'[k] = [fin[k] EXCEPT !["pump"] = "audit"]
          /\ UNCHANGED <<run[k], slot[k]>>

\* Its acceptance could not be saved.
IsDropped(k) ==
    /\ SameRun(k) /\ UNCHANGED <<rec[k], req[k], fin[k], terminals[k]>>
    /\ (k \in attempted' <=> k \in attempted)
    /\ sub[k] = "save" /\ sub'[k] = "failing" /\ k \notin active'

\* The saves of run() and of finishQueued.
Saves(k) ==
    /\ SameAsk(k) /\ SameClose(k) /\ UNCHANGED <<slot[k], spawned[k]>>
    /\ \/ /\ run[k] = "starting" /\ run'[k] = "running" /\ outcome'[k] = outcome[k]
          /\ rec'[k] = [rec[k] EXCEPT !.state = "running"]
       \/ /\ run[k] = "running" /\ run'[k] = "mode" /\ UNCHANGED <<outcome[k], rec[k]>>
       \/ /\ run[k] \in {"starting", "running"} /\ run'[k] = "orphan"
          /\ rec'[k] = Caught(rec[k], "storage", k \in aborted)
          /\ outcome'[k] = "storage"
Ends(k) ==
    /\ SameAsk(k) /\ UNCHANGED <<fin[k], terminals[k], outcome[k], slot[k], spawned[k]>>
    /\ run[k] = "final" /\ run'[k] = "end" /\ k \notin active'
    /\ rec'[k] \in {rec[k], Withheld(rec[k])}
Closes(k) ==
    /\ SameAsk(k) /\ SameRun(k) /\ UNCHANGED <<rec[k], terminals[k]>>
    /\ (k \in active' <=> k \in active)
    /\ \E c \in Closers : fin[k][c] = "save" /\ fin'[k] = [fin[k] EXCEPT ![c] = "end"]

\* executeInternal.
Executes(k) ==
    /\ SameAsk(k) /\ SameClose(k)
    /\ \/ /\ run[k] = "mode" /\ run'[k] = "child" /\ slot'[k] = "active"
          /\ spawned'[k] = spawned[k] + 1 /\ UNCHANGED <<rec[k], outcome[k]>>
       \/ /\ run[k] = "mode" /\ run'[k] = "blocked" /\ slot'[k] = "none"
          /\ outcome'[k] = "refused" /\ UNCHANGED <<rec[k], spawned[k]>>
       \/ /\ run[k] = "child" /\ run'[k] = "failed" /\ slot'[k] \in {"quarantined", "none"}
          /\ outcome'[k] = "termination" /\ UNCHANGED <<rec[k], spawned[k]>>
       \/ /\ run[k] = "child" /\ run'[k] = "failed" /\ slot'[k] = "none"
          /\ UNCHANGED <<rec[k], spawned[k]>>
       \/ /\ run[k] = "child" /\ run'[k] = "completed" /\ slot'[k] = "none"
          /\ rec'[k] = [rec[k] EXCEPT !.state = "finalizing"] /\ UNCHANGED spawned[k]
       \/ /\ slot[k] = "quarantined" /\ slot'[k] = "none"
          /\ UNCHANGED <<run[k], rec[k], outcome[k], spawned[k]>>

\* The terminal event, of run() or of finishQueued, is written or lost.
Tells(k, ok) == IF ok THEN terminals'[k] = terminals[k] + 1
                ELSE terminals'[k] \in {terminals[k], terminals[k] + 1}
Reports(k) ==
    /\ SameAsk(k) /\ UNCHANGED <<fin[k], outcome[k], spawned[k]>>
    /\ (k \in active' <=> k \in active)
    /\ run'[k] = "final" /\ slot'[k] = IF slot[k] = "reserved" THEN "none" ELSE slot[k]
    /\ \E ok \in BOOLEAN :
          /\ Tells(k, ok)
          /\ \/ /\ run[k] = "completed"
                /\ rec'[k] = IF ok THEN Published(rec[k], outcome[k])
                             ELSE Evidenced(Caught(rec[k], "audit", k \in aborted), "audit",
                                            k \in aborted)
             \/ /\ run[k] \in {"blocked", "failed"}
                /\ \E err \in {IF ok THEN outcome[k] ELSE "audit"} :
                      rec'[k] = Evidenced(Caught(rec[k], err, k \in aborted), err,
                                          k \in aborted)
             \/ /\ run[k] = "orphan"
                /\ rec'[k] = Evidenced(IF ok THEN rec[k]
                                       ELSE [rec[k] EXCEPT !.audit = "unavailable"],
                                       "storage", k \in aborted)
Finishes(k) ==
    /\ SameAsk(k) /\ SameRun(k) /\ k \notin active'
    /\ \E c \in Closers : fin[k][c] = "audit" /\ fin'[k] = [fin[k] EXCEPT ![c] = "save"]
    /\ \E ok \in BOOLEAN :
          /\ Tells(k, ok)
          /\ rec'[k] = [rec[k] EXCEPT !.audit = IF ok THEN "confirmed" ELSE "unavailable"]

\* cancel() and shutdown().
IsStopped(k) ==
    /\ SameAsk(k) /\ SameRun(k) /\ UNCHANGED terminals[k]
    /\ k \in active /\ k \in active'
    /\ \/ /\ rec[k].state = "queued" \/ run[k] = "idle"
          /\ rec'[k] = [rec[k] EXCEPT !.state = "cancelled"]
          /\ \E c \in Closers : fin'[k] = [fin[k] EXCEPT ![c] = "audit"]
       \/ /\ rec[k].state \in {"starting", "running"} /\ fin'[k] = fin[k]
          /\ rec'[k] = [rec[k] EXCEPT !.term = "requested"]

\* The process is gone, or has read the file of the job.
IsLost(k) ==
    /\ UNCHANGED <<req[k], spawned[k], terminals[k]>> /\ (k \in attempted' <=> k \in attempted)
    /\ phase' = "down" /\ k \notin active'
    /\ sub'[k] = "idle" /\ run'[k] = "idle" /\ slot'[k] = "none"
    /\ fin'[k] = [c \in Closers |-> "idle"] /\ rec'[k] = NoRecord
IsRead(k) ==
    /\ SameAsk(k) /\ SameRun(k) /\ SameClose(k) /\ phase = "boot" /\ k \notin known
    /\ rec'[k] = IF disk[k].state \in Live THEN Interrupted ELSE disk[k]
    /\ disk'[k] = rec'[k]

\* What the answer to an operation may do to a job, and what any step may.
Heard(k) == Rests(k) \/ Passes(k) \/ IsDropped(k) \/ Saves(k) \/ Ends(k) \/ Closes(k)
Moves(k) == \/ Asks(k) \/ Enters(k) \/ Heard(k) \/ Executes(k) \/ Reports(k)
            \/ Finishes(k) \/ IsStopped(k) \/ IsLost(k) \/ IsRead(k)

-----------------------------------------------------------------------------
(* Every step is one of these to every job                                   *)

\* Nothing of the job changes when only others move.
LEMMA RestsUnchanged ==
  ASSUME NEW k \in Jobs,
         UNCHANGED <<sub, req, attempted, run, outcome, slot, spawned, fin, terminals, active,
                     rec>>
  PROVE  Rests(k)
  BY DEF Rests, SameAsk, SameRun, SameClose

\* The steps of a submission.
LEMMA SubmissionMoves ==
  ASSUME TypeOK, NEW j \in Jobs, NEW ok \in BOOLEAN, NEW k \in Jobs,
         \/ \E r \in Requests : Submit(j, r)
         \/ AttemptAudited(j, ok) \/ RefusalAudited(j, ok) \/ Refuse(j) \/ Admit(j)
  PROVE  Moves(k)
<1>1. ASSUME NEW r \in Requests, Submit(j, r) PROVE Moves(k)
  <2>1. UNCHANGED <<attempted, run, outcome, slot, spawned, fin, terminals, active, rec>>
    BY <1>1 DEF Submit, records, capacity, audit
  <2>2. /\ sub'[k] = IF k = j THEN "attempt" ELSE sub[k]
        /\ req'[k] = IF k = j THEN r ELSE req[k]
        /\ req[j] = NoRequest /\ r # NoRequest
    BY <1>1, BackgroundJobsAssumption DEF Submit, TypeOK, ProgramsType, HistoryType
  <2> QED
    BY <2>1, <2>2 DEF Moves, Heard, Rests, Asks, SameAsk, SameRun, SameClose
<1>2. CASE AttemptAudited(j, ok) \/ RefusalAudited(j, ok) \/ Refuse(j)
  <2>1. /\ UNCHANGED <<run, outcome, slot, spawned, fin, active, rec, req>>
        /\ attempted \subseteq attempted'
    BY <1>2 DEF AttemptAudited, RefusalAudited, Refuse, SubmissionFrame, TerminalEvent, records,
       capacity, audit, identities
  <2>2. CASE AttemptAudited(j, ok)
    <3>1. /\ terminals' = terminals /\ sub[j] = "attempt"
          /\ attempted' = IF ok THEN attempted \cup {j} ELSE attempted
          /\ sub'[k] = IF k = j THEN sub'[j] ELSE sub[k]
          /\ sub'[j] \in IF ok THEN {"recheck", "refusing"} ELSE {"refused"}
      BY <2>2 DEF AttemptAudited, TypeOK, ProgramsType
    <3> QED
      BY <2>1, <3>1 DEF Moves, Heard, Rests, Asks, SameAsk, SameRun, SameClose
  <2>3. CASE RefusalAudited(j, ok)
    <3>1. /\ sub[j] \in {"refusing", "failing"} /\ attempted' = attempted
          /\ sub'[k] = IF k = j THEN "refused" ELSE sub[k]
          /\ k # j => terminals'[k] = terminals[k]
      BY <2>3 DEF RefusalAudited, TerminalEvent, TypeOK, ProgramsType, HistoryType
    <3> QED
      BY <2>1, <3>1 DEF Moves, Heard, Rests, Asks, SameAsk, SameRun, SameClose
  <2>4. CASE Refuse(j)
    <3>1. /\ sub[j] = "recheck" /\ UNCHANGED <<attempted, terminals>>
          /\ sub'[k] = IF k = j THEN "refusing" ELSE sub[k]
      BY <2>4 DEF Refuse, audit, TypeOK, ProgramsType
    <3> QED
      BY <2>1, <3>1 DEF Moves, Heard, Rests, Asks, SameAsk, SameRun, SameClose
  <2> QED
    BY <1>2, <2>2, <2>3, <2>4
<1>3. CASE Admit(j)
  <2>1. UNCHANGED <<run, outcome, slot, spawned, fin, terminals, attempted, req>>
    BY <1>3 DEF Admit, SubmissionFrame, capacity, audit, identities
  <2>2. /\ sub[j] = "recheck" /\ active' = active \cup {j} /\ known' = known \cup {j}
        /\ sub'[k] = IF k = j THEN "save" ELSE sub[k]
        /\ rec'[k] = IF k = j THEN NewRecord ELSE rec[k]
    BY <1>3 DEF Admit, TypeOK, ProgramsType, RecordsType
  <2> QED
    BY <2>1, <2>2 DEF Moves, Heard, Rests, Enters, SameAsk, SameRun, SameClose
<1> QED
  BY <1>1, <1>2, <1>3

\* The steps of the executor.
LEMMA ExecutorMoves ==
  ASSUME TypeOK, NEW j \in Jobs, NEW o \in Outcomes, NEW k \in Jobs,
         \/ Spawn(j) \/ ExecutorRefuses(j) \/ TerminationFails(j) \/ QuarantineReleases(j)
         \/ ChildEnds(j, o)
  PROVE  Moves(k)
<1>1. UNCHANGED <<sub, req, attempted, fin, terminals, active>>
  BY DEF Spawn, ExecutorRefuses, TerminationFails, QuarantineReleases, ChildEnds, RunFrame,
     identities, audit
<1>2. CASE k # j
  <2>1. UNCHANGED <<run[k], outcome[k], slot[k], spawned[k], rec[k]>>
    BY <1>2 DEF Spawn, ExecutorRefuses, TerminationFails, QuarantineReleases, ChildEnds,
       TypeOK, RecordsType, ProgramsType, CapacityType, HistoryType
  <2> QED
    BY <1>1, <2>1 DEF Moves, Heard, Rests, SameAsk, SameRun, SameClose
<1>3. CASE k = j
  <2>1. CASE Spawn(j)
    <3>1. /\ run[k] = "mode" /\ run'[k] = "child" /\ slot'[k] = "active"
          /\ spawned'[k] = spawned[k] + 1 /\ UNCHANGED <<rec, outcome>>
      BY <1>3, <2>1 DEF Spawn, TypeOK, ProgramsType, CapacityType, HistoryType
    <3> QED
      BY <1>1, <3>1 DEF Moves, Executes, SameAsk, SameClose
  <2>2. CASE ExecutorRefuses(j)
    <3>1. /\ run[k] = "mode" /\ run'[k] = "blocked" /\ slot'[k] = "none"
          /\ outcome'[k] = "refused" /\ UNCHANGED <<rec, spawned>>
      BY <1>3, <2>2 DEF ExecutorRefuses, TypeOK, ProgramsType, CapacityType
    <3> QED
      BY <1>1, <3>1 DEF Moves, Executes, SameAsk, SameClose
  <2>3. CASE TerminationFails(j)
    <3>1. /\ run[k] = "child" /\ run'[k] = "failed" /\ slot'[k] \in {"quarantined", "none"}
          /\ outcome'[k] = "termination" /\ UNCHANGED <<rec, spawned>>
      BY <1>3, <2>3 DEF TerminationFails, TypeOK, ProgramsType, CapacityType
    <3> QED
      BY <1>1, <3>1 DEF Moves, Executes, SameAsk, SameClose
  <2>4. CASE QuarantineReleases(j)
    <3>1. /\ slot[k] = "quarantined" /\ slot'[k] = "none"
          /\ UNCHANGED <<run, rec, outcome, spawned>>
      BY <1>3, <2>4 DEF QuarantineReleases, RunFrame, TypeOK, CapacityType
    <3> QED
      BY <1>1, <3>1 DEF Moves, Executes, SameAsk, SameClose
  <2>5. CASE ChildEnds(j, o)
    <3>1. run[k] = "child" /\ slot'[k] = "none" /\ UNCHANGED spawned
      BY <1>3, <2>5 DEF ChildEnds, TypeOK, CapacityType
    <3>2. \/ run'[k] = "failed" /\ UNCHANGED rec
          \/ run'[k] = "completed" /\ rec'[k] = [rec[k] EXCEPT !.state = "finalizing"]
      BY <1>3, <2>5 DEF ChildEnds, TypeOK, ProgramsType, RecordsType
    <3> QED
      BY <1>1, <3>1, <3>2 DEF Moves, Executes, SameAsk, SameClose
  <2> QED
    BY <2>1, <2>2, <2>3, <2>4, <2>5
<1> QED
  BY <1>2, <1>3

\* What a terminal event does to the count of its job, and to no other.
LEMMA EventTold ==
  ASSUME TypeOK, NEW j \in Jobs, NEW ok \in BOOLEAN, TerminalEvent(j, ok), NEW k \in Jobs
  PROVE  (k = j => Tells(k, ok)) /\ (k # j => terminals'[k] = terminals[k])
<1>1. PICK n \in IF ok THEN {1} ELSE IF auditUp THEN {0, 1} ELSE {0} :
         terminals' = [terminals EXCEPT ![j] = @ + n]
  BY DEF TerminalEvent
<1>2. terminals \in [Jobs -> Nat]
  BY DEF TypeOK, HistoryType
<1> QED
  BY <1>1, <1>2 DEF Tells

\* The end of run() and of finishQueued.
LEMMA LastMoves ==
  ASSUME TypeOK, NEW j \in Jobs, NEW ok \in BOOLEAN, NEW c \in Closers, NEW k \in Jobs,
         \/ CompletionAudited(j, ok) \/ FailureAudited(j, ok) \/ OrphanAudited(j, ok)
         \/ FinishAudited(j, c, ok)
  PROVE  Moves(k)
<1>1. UNCHANGED <<sub, req, attempted, outcome, spawned>> /\ TerminalEvent(j, ok)
  BY DEF CompletionAudited, FailureAudited, OrphanAudited, FinishAudited, Finalize, RunFrame,
     TerminalEvent, identities
<1>2. CASE CompletionAudited(j, ok) \/ FailureAudited(j, ok) \/ OrphanAudited(j, ok)
  <2>1. UNCHANGED <<fin, active>> /\ Finalize(j)
    BY <1>2 DEF CompletionAudited, FailureAudited, OrphanAudited, Finalize
  <2>2. /\ run'[k] = IF k = j THEN "final" ELSE run[k]
        /\ slot'[k] = IF k = j /\ slot[k] = "reserved" THEN "none" ELSE slot[k]
    BY <2>1 DEF Finalize, GivesBack, TypeOK, ProgramsType, CapacityType
  <2>3. CASE k # j
    <3>1. rec'[k] = rec[k]
      BY <1>2, <2>3 DEF CompletionAudited, FailureAudited, OrphanAudited, TypeOK, RecordsType
    <3> QED
      BY <1>1, <2>1, <2>2, <2>3, <3>1, EventTold
      DEF Moves, Heard, Rests, SameAsk, SameRun, SameClose
  <2>4. CASE k = j
    <3>1. Tells(k, ok)
      BY <1>1, <2>4, EventTold
    <3>2. \/ /\ run[k] = "completed"
             /\ rec'[k] = IF ok THEN Published(rec[k], outcome[k])
                          ELSE Evidenced(Caught(rec[k], "audit", k \in aborted), "audit",
                                         k \in aborted)
          \/ /\ run[k] \in {"blocked", "failed"}
             /\ \E err \in {IF ok THEN outcome[k] ELSE "audit"} :
                   rec'[k] = Evidenced(Caught(rec[k], err, k \in aborted), err, k \in aborted)
          \/ /\ run[k] = "orphan"
             /\ rec'[k] = Evidenced(IF ok THEN rec[k]
                                    ELSE [rec[k] EXCEPT !.audit = "unavailable"],
                                    "storage", k \in aborted)
      <4>1. CASE CompletionAudited(j, ok)
        BY <2>4, <4>1 DEF CompletionAudited, TypeOK, RecordsType
      <4>2. CASE FailureAudited(j, ok)
        <5> DEFINE err == IF ok THEN outcome[j] ELSE "audit"
        <5>1. rec' = [rec EXCEPT ![j] = Evidenced(Caught(@, err, j \in aborted), err,
                                                  j \in aborted)]
          BY <4>2 DEF FailureAudited
        <5>2. rec'[k] = Evidenced(Caught(rec[k], err, k \in aborted), err, k \in aborted)
          BY <2>4, <5>1 DEF TypeOK, RecordsType
        <5> QED
          BY <2>4, <4>2, <5>2 DEF FailureAudited
      <4>3. CASE OrphanAudited(j, ok)
        BY <2>4, <4>3 DEF OrphanAudited, TypeOK, RecordsType
      <4> QED
        BY <1>2, <4>1, <4>2, <4>3
    <3>3. Reports(k)
      BY <1>1, <2>1, <2>2, <2>4, <3>1, <3>2 DEF Reports, SameAsk
    <3> QED
      BY <3>3 DEF Moves
  <2> QED
    BY <2>3, <2>4
<1>3. CASE FinishAudited(j, c, ok)
  <2>1. UNCHANGED <<run, slot>> /\ active' = active \ {j} /\ fin[j][c] = "audit"
    BY <1>3 DEF FinishAudited, Leaves, capacity
  <2>2. /\ fin'[k] = IF k = j THEN [fin[k] EXCEPT ![c] = "save"] ELSE fin[k]
        /\ rec'[k] = IF k = j THEN [rec[k] EXCEPT !.audit = IF ok THEN "confirmed"
                                                            ELSE "unavailable"]
                     ELSE rec[k]
    BY <1>3 DEF FinishAudited, TypeOK, ProgramsType, RecordsType
  <2>3. CASE k # j
    BY <1>1, <2>1, <2>2, <2>3, EventTold DEF Moves, Heard, Rests, SameAsk, SameRun, SameClose
  <2>4. CASE k = j
    <3>1. SameAsk(k) /\ SameRun(k) /\ k \notin active'
      BY <1>1, <2>1, <2>4 DEF SameAsk, SameRun
    <3>2. Tells(k, ok)
      BY <1>1, <2>4, EventTold
    <3>3. /\ fin[k][c] = "audit" /\ fin'[k] = [fin[k] EXCEPT ![c] = "save"]
          /\ rec'[k] = [rec[k] EXCEPT !.audit = IF ok THEN "confirmed" ELSE "unavailable"]
      BY <2>1, <2>2, <2>4
    <3>4. Finishes(k)
      BY <3>1, <3>2, <3>3 DEF Finishes
    <3> QED
      BY <3>4 DEF Moves
  <2> QED
    BY <2>3, <2>4
<1> QED
  BY <1>2, <1>3

\* Cancellation and shutdown.
LEMMA StopMoves ==
  ASSUME TypeOK, NEW j \in Jobs, NEW k \in Jobs, Cancel(j) \/ Shutdown PROVE Moves(k)
<1>1. UNCHANGED <<sub, req, attempted, run, outcome, slot, spawned, terminals, active>>
  BY DEF Cancel, Shutdown, capacity, identities, audit
<1>2. CASE Cancel(j)
  <2>1. \/ /\ rec[j].state = "queued"
           /\ rec'[k] = IF k = j THEN [rec[k] EXCEPT !.state = "cancelled"] ELSE rec[k]
           /\ fin'[k] = IF k = j THEN [fin[k] EXCEPT !["client"] = "audit"] ELSE fin[k]
        \/ /\ rec[j].state \in {"starting", "running"} /\ fin' = fin
           /\ rec'[k] = IF k = j THEN [rec[k] EXCEPT !.term = "requested"] ELSE rec[k]
    BY <1>2 DEF Cancel, TypeOK, ProgramsType, RecordsType
  <2>2. j \in active /\ "client" \in Closers
    BY <1>2 DEF Cancel, Closers
  <2> QED
    BY <1>1, <2>1, <2>2 DEF Moves, Heard, Rests, IsStopped, SameAsk, SameRun, SameClose
<1>3. CASE Shutdown
  <2>1. /\ rec'[k] = IF k \in Unstarted THEN [rec[k] EXCEPT !.state = "cancelled"] ELSE rec[k]
        /\ fin'[k] = IF k \in Unstarted THEN [fin[k] EXCEPT !["shutdown"] = "audit"] ELSE fin[k]
    BY <1>3 DEF Shutdown
  <2>2. (k \in Unstarted => k \in active /\ run[k] = "idle") /\ "shutdown" \in Closers
    BY DEF Unstarted, Closers
  <2> QED
    BY <1>1, <2>1, <2>2 DEF Moves, Heard, Rests, IsStopped, SameAsk, SameRun, SameClose
<1> QED
  BY <1>2, <1>3

\* A pass of the pump, in whichever turn it runs.
LEMMA PassMoves ==
  ASSUME TypeOK, NEW q, PumpPass(q), NEW k \in Jobs,
         sub'[k] = sub[k] \/ (sub[k] = "save" /\ sub'[k] = "accepted"),
         UNCHANGED <<outcome, spawned, terminals, req, attempted, active>>
  PROVE  Passes(k)
<1>1. CASE PumpStarts(q)
  <2>1. PICK n, first, S : Started(q, n, first, S)
    BY <1>1, PumpStartsShape
  <2>2. k \in S => k \in active /\ rec[k].state = "queued"
    BY <2>1 DEF Started, Queued
  <2> QED
    BY <2>1, <2>2 DEF Started, Passes
<1>2. CASE PumpExpires(q)
  <2>1. PICK j \in Least(rank, Queued) : /\ rec' = [rec EXCEPT ![j].state = "failed"]
                                         /\ fin' = [fin EXCEPT ![j]["pump"] = "audit"]
    BY <1>2 DEF PumpExpires
  <2>2. j \in active /\ rec[j].state = "queued"
    BY <2>1 DEF Least, Queued
  <2>3. /\ rec'[k] = IF k = j THEN [rec[k] EXCEPT !.state = "failed"] ELSE rec[k]
        /\ fin'[k] = IF k = j THEN [fin[k] EXCEPT !["pump"] = "audit"] ELSE fin[k]
    BY <2>1 DEF TypeOK, RecordsType, ProgramsType
  <2> QED
    BY <1>2, <2>2, <2>3 DEF PumpExpires, Passes
<1>3. CASE UNCHANGED <<rec, slot, run, fin>>
  BY <1>3 DEF Passes
<1> QED
  BY <1>1, <1>2, <1>3 DEF PumpPass

\* The answer to an operation concerns its job, and through the pump others.
LEMMA SettleMoves ==
  ASSUME TypeOK, NEW t \in Tickets, NEW ok \in BOOLEAN, NEW q, Settle(t, ok, q), NEW k \in Jobs
  PROVE  Heard(k)
<1> DEFINE j == t.job
<1>1. j \in Jobs /\ UNCHANGED <<spawned, req, attempted, terminals>>
  BY DEF Tickets, Settle, audit, identities
<1>2. CASE AcceptSaved(j, ok, q) /\ sub[j] = "save"
  <2>1. UNCHANGED outcome
    BY <1>2 DEF AcceptSaved
  <2>2. sub'[k] = IF k = j THEN IF ok THEN "accepted" ELSE "failing" ELSE sub[k]
    BY <1>1, <1>2 DEF AcceptSaved, TypeOK, ProgramsType
  <2>3. CASE ok
    <3>1. UNCHANGED active
      BY <1>2, <2>3 DEF AcceptSaved
    <3>2. CASE MayPump
      <4>1. Passes(k)
        BY <1>1, <1>2, <2>1, <2>2, <2>3, <3>1, <3>2, PassMoves DEF AcceptSaved, PumpNow
      <4> QED
        BY <4>1 DEF Heard
    <3>3. CASE ~MayPump
      <4>1. UNCHANGED <<rec, slot, run, fin>>
        BY <1>2, <2>3, <3>3 DEF AcceptSaved, PumpNow
      <4> QED
        BY <1>1, <1>2, <2>1, <2>2, <2>3, <3>1, <4>1 DEF Heard, Passes
    <3> QED
      BY <3>2, <3>3
  <2>4. CASE ~ok
    <3>1. UNCHANGED <<rec, slot, run, fin>> /\ active' = active \ {j}
      BY <1>2, <2>4 DEF AcceptSaved, Leaves
    <3> QED
      BY <1>1, <1>2, <2>1, <2>2, <2>4, <3>1
      DEF Heard, IsDropped, Rests, SameAsk, SameRun, SameClose
  <2> QED
    BY <2>3, <2>4
<1>3. CASE run[j] \in {"starting", "running"} /\ RunSaved(j, ok, q)
  <2>1. UNCHANGED <<sub, active, slot, fin>>
    BY <1>3 DEF RunSaved
  <2>2. CASE k # j
    <3>1. UNCHANGED <<run[k], rec[k], outcome[k]>>
      BY <1>1, <1>3, <2>2 DEF RunSaved, TypeOK, RecordsType, ProgramsType
    <3> QED
      BY <1>1, <2>1, <3>1 DEF Heard, Rests, SameAsk, SameRun, SameClose
  <2>3. CASE k = j
    <3>1. \/ /\ run[k] = "starting" /\ run'[k] = "running" /\ outcome'[k] = outcome[k]
             /\ rec'[k] = [rec[k] EXCEPT !.state = "running"]
          \/ /\ run[k] = "running" /\ run'[k] = "mode" /\ UNCHANGED <<outcome[k], rec[k]>>
          \/ /\ run[k] \in {"starting", "running"} /\ run'[k] = "orphan"
             /\ rec'[k] = Caught(rec[k], "storage", k \in aborted)
             /\ outcome'[k] = "storage"
      BY <1>3, <2>3 DEF RunSaved, After, TypeOK, RecordsType, ProgramsType
    <3> QED
      BY <1>1, <2>1, <3>1 DEF Heard, Saves, SameAsk, SameClose
  <2> QED
    BY <2>2, <2>3
<1>4. CASE run[j] = "final" /\ FinalSaved(j, ok, q)
  <2>1. UNCHANGED <<sub, slot, fin, outcome>> /\ active' = active \ {j}
    BY <1>4 DEF FinalSaved, Leaves
  <2>2. /\ run'[k] = IF k = j THEN "end" ELSE run[k]
        /\ rec'[k] \in IF k = j THEN {rec[k], Withheld(rec[k])} ELSE {rec[k]}
    BY <1>1, <1>4 DEF FinalSaved, TypeOK, ProgramsType, RecordsType
  <2> QED
    BY <1>1, <1>4, <2>1, <2>2 DEF Heard, Ends, Rests, SameAsk, SameRun, SameClose
<1>5. ASSUME NEW c \in Closers, fin[j][c] = "save", FinishSaved(j, c, ok, q) PROVE Heard(k)
  <2>1. UNCHANGED <<sub, outcome, active, rec, slot, run>>
    BY <1>5 DEF FinishSaved
  <2>2. fin'[k] = IF k = j THEN [fin[k] EXCEPT ![c] = "end"] ELSE fin[k]
    BY <1>1, <1>5 DEF FinishSaved, TypeOK, ProgramsType
  <2> QED
    BY <1>1, <1>5, <2>1, <2>2 DEF Heard, Closes, Rests, SameAsk, SameRun, SameClose
<1>6. CASE CleanupDone(ok, q)
  BY <1>1, <1>6, RestsUnchanged DEF CleanupDone, Heard
<1> QED
  BY <1>2, <1>3, <1>4, <1>5, <1>6 DEF Settle

\* Every store step is an answer, or changes files only.
LEMMA StoreMoves == ASSUME TypeOK, Storing, NEW k \in Jobs PROVE Heard(k)
<1>1. CASE StoreBegins \/ StoreEndsLate
  BY <1>1, RestsUnchanged DEF StoreBegins, StoreEndsLate, Heard, records, programs, capacity,
     identities, audit
<1>2. ASSUME NEW t \in Tickets, NEW ok \in BOOLEAN, NEW q, Settle(t, ok, q) PROVE Heard(k)
  BY <1>2, SettleMoves
<1>3. storeQ # <<>> => storeQ[1] \in Tickets
  BY QueueParts
<1>4. \A i \in 1 .. Len(storeQ) : storeQ[i] \in Tickets
  BY QueueParts
<1>5. head # "idle" => storeQ # <<>>
  BY DEF TypeOK, StoreType
<1> QED
  BY <1>1, <1>2, <1>3, <1>4, <1>5
  DEF Storing, StoreCommits, StoreFails, StoreTimesOut, StoreRefuses

\* The life of the process, and what happens around it.
LEMMA LifeMoves ==
  ASSUME TypeOK, NEW k \in Jobs,
         \/ Stop \/ Restart \/ BootCompletes \/ \E j \in Jobs : BootReads(j)
         \/ Environment \/ PumpCleans \/ Pump \/ PumpResumes \/ UNCHANGED vars
  PROVE  Moves(k)
<1>1. CASE Stop
  BY <1>1 DEF Stop, identities, Moves, IsLost
<1>2. CASE Restart \/ BootCompletes \/ Environment \/ PumpCleans \/ UNCHANGED vars
  BY <1>2, RestsUnchanged DEF Restart, BootCompletes, BootFrame, Environment, SyncStarts,
     SyncEnds, ModeChanges, SyncFrame, PumpCleans, vars, records, programs, capacity,
     identities, audit, Moves, Heard
<1>3. ASSUME NEW j \in Jobs, BootReads(j) PROVE Moves(k)
  <2>1. UNCHANGED <<sub, req, attempted, run, outcome, slot, spawned, fin, terminals, active>>
    BY <1>3 DEF BootReads, BootFrame, programs, capacity, identities, audit
  <2>2. /\ phase = "boot" /\ j \notin known
        /\ rec'[k] = IF k # j THEN rec[k]
                     ELSE IF disk[k].state \in Live THEN Interrupted ELSE disk[k]
        /\ k = j => disk'[k] = rec'[k]
    BY <1>3 DEF BootReads, TypeOK, RecordsType
  <2> QED
    BY <2>1, <2>2 DEF Moves, Heard, Rests, IsRead, SameAsk, SameRun, SameClose
<1>4. CASE Pump \/ PumpResumes
  <2>1. Passes(k)
    BY <1>4, PassMoves DEF Pump, PumpResumes, PumpFrame, audit, identities
  <2> QED
    BY <2>1 DEF Moves, Heard
<1> QED
  BY <1>1, <1>2, <1>3, <1>4

\* So every step is one of the moves, for every job.
LEMMA StepMoves == ASSUME TypeOK, [Next]_vars, NEW k \in Jobs PROVE Moves(k)
<1>1. Lifecycle => Shutdown \/ Stop \/ Restart \/ BootCompletes \/ \E j \in Jobs : BootReads(j)
  BY DEF Lifecycle, Exit, Crash, Boot
<1>2. Storing => Moves(k)
  BY StoreMoves DEF Moves
<1>3. \/ \E j \in Jobs, r \in Requests : Submit(j, r)
      \/ \E j \in Jobs, ok \in BOOLEAN :
            AttemptAudited(j, ok) \/ Refuse(j) \/ RefusalAudited(j, ok)
      \/ \E j \in Jobs : Admit(j)
      => Moves(k)
  <2>1. TRUE \in BOOLEAN
    OBVIOUS
  <2> QED
    BY <2>1, SubmissionMoves
<1>4. (\E j \in Jobs : Cancel(j)) \/ Shutdown => Moves(k)
  BY StopMoves
<1>5. (\E j \in Jobs, o \in Outcomes :
          \/ Spawn(j) \/ ExecutorRefuses(j) \/ TerminationFails(j)
          \/ QuarantineReleases(j) \/ ChildEnds(j, o)) => Moves(k)
  BY ExecutorMoves
<1>6. (\E j \in Jobs, ok \in BOOLEAN :
          CompletionAudited(j, ok) \/ FailureAudited(j, ok) \/ OrphanAudited(j, ok)) => Moves(k)
  <2>1. "pump" \in Closers
    BY DEF Closers
  <2> QED
    BY <2>1, LastMoves
<1>7. (\E j \in Jobs, c \in Closers, ok \in BOOLEAN : FinishAudited(j, c, ok)) => Moves(k)
  BY LastMoves
<1>8. Stop \/ Restart \/ BootCompletes \/ (\E j \in Jobs : BootReads(j))
      \/ Environment \/ PumpCleans \/ Pump \/ PumpResumes \/ UNCHANGED vars => Moves(k)
  BY LifeMoves
<1> QED
  BY <1>1, <1>2, <1>3, <1>4, <1>5, <1>6, <1>7, <1>8, StepCases

-----------------------------------------------------------------------------
(* How far a job has come.  Its three program counters and its record agree: *)
(* run() and finishQueued exclude each other, since both leave "queued" in   *)
(* the same turn, and a quarantined slot is evidenced in the record.         *)

Calm(j) == run[j] = "idle" /\ \A c \in Closers : fin[j][c] = "idle"

Stage(r) == CASE r = "starting" -> {"starting"}
              [] r \in {"running", "mode", "child", "blocked", "failed"} -> {"running"}
              [] r = "completed" -> {"finalizing"}
              [] r \in {"orphan", "final", "end"} -> Terminal
              [] OTHER -> States

Evident(j) == /\ run[j] \in {"final", "end"}
              /\ rec[j].term = "unknown" \/ rec[j].audit = "unavailable"

Orderly(j) ==
    /\ req[j] = NoRequest => sub[j] = "idle"
    /\ sub[j] \in {"idle", "attempt", "recheck", "refusing"} => Calm(j) /\ j \notin active
    /\ run[j] # "idle" => \A c \in Closers : fin[j][c] = "idle"
    /\ ~Calm(j) => rec[j].state # "queued"
    /\ sub[j] \in {"recheck", "save", "accepted"} => j \in attempted
    /\ rec[j].state \in Stage(run[j])
    /\ slot[j] = "quarantined" =>
          \/ run[j] = "failed" /\ outcome[j] = "termination"
          \/ Evident(j)

CourseInv == \A j \in Jobs : Orderly(j)

\* A quarantined slot is reported by the record of its finished job.
LEMMA CourseImplies == CourseInv => QuarantineReported
  BY DEF CourseInv, Orderly, Evident, QuarantineReported

\* What the assignments of run() do to the parts of a record: the error path,
LEMMA CaughtParts ==
  ASSUME NEW r \in Record, NEW err, NEW ab
  PROVE  /\ Caught(r, err, ab).state \in Terminal
         /\ Caught(r, err, ab).term = r.term /\ ~Caught(r, err, ab).result
         /\ err = "audit" => Caught(r, err, ab).audit = "unavailable"
  BY DEF Caught, Record, Terminal

\* the evidence of its termination,
LEMMA EvidencedParts ==
  ASSUME NEW r \in Record, NEW err, NEW ab
  PROVE  /\ Evidenced(r, err, ab).state = r.state
         /\ Evidenced(r, err, ab).audit = r.audit
         /\ Evidenced(r, err, ab).result = r.result
         /\ err = "termination" => Evidenced(r, err, ab).term = "unknown"
  BY DEF Evidenced, Record

\* both together,
LEMMA FailedParts ==
  ASSUME NEW r \in Record, NEW err, NEW ab
  PROVE  /\ Evidenced(Caught(r, err, ab), err, ab).state \in Terminal
         /\ ~Evidenced(Caught(r, err, ab), err, ab).result
         /\ err = "audit" => Evidenced(Caught(r, err, ab), err, ab).audit = "unavailable"
         /\ err = "termination" => Evidenced(Caught(r, err, ab), err, ab).term = "unknown"
<1>1. Caught(r, err, ab) \in Record
  BY DEF Caught, Record, Terminal
<1> QED
  BY <1>1, CaughtParts, EvidencedParts

\* the result,
LEMMA PublishedParts ==
  ASSUME NEW r \in Record, NEW end
  PROVE  /\ Published(r, end).state \in Terminal /\ Published(r, end).audit = "confirmed"
         /\ Published(r, end).result
  BY DEF Published, Record, Terminal

\* and its withdrawal.
LEMMA WithheldParts ==
  ASSUME NEW r \in Record
  PROVE  /\ Withheld(r).state = r.state /\ Withheld(r).audit = r.audit
         /\ Withheld(r).term = r.term /\ ~Withheld(r).result
  BY DEF Withheld, Record

\* A job nothing was done to is as orderly as it was.
LEMMA OrderlyRests == ASSUME NEW j \in Jobs, Orderly(j), Rests(j) PROVE Orderly(j)'
  BY DEF Orderly, Calm, Evident, Rests, SameAsk, SameRun, SameClose

\* A submission does not touch what run() and finishQueued do.
LEMMA OrderlyAsks ==
  ASSUME TypeOK, NEW j \in Jobs, Orderly(j), Asks(j) \/ IsDropped(j) PROVE Orderly(j)'
<1>1. /\ UNCHANGED <<run[j], outcome[j], slot[j], rec[j], fin[j]>>
      /\ (j \in active' => j \in active)
      /\ (j \in attempted => j \in attempted')
  BY DEF Asks, IsDropped, SameRun
<1>2. (Calm(j)' <=> Calm(j)) /\ (Evident(j)' <=> Evident(j))
  BY <1>1 DEF Calm, Evident
<1>3. /\ req'[j] = NoRequest => sub'[j] = "idle"
      /\ sub'[j] \in {"idle", "attempt", "recheck", "refusing"} =>
            sub[j] \in {"idle", "attempt", "recheck", "refusing"}
      /\ sub'[j] \in {"recheck", "save", "accepted"} =>
            j \in attempted' \/ sub[j] \in {"recheck", "save", "accepted"}
  BY DEF Asks, IsDropped, Orderly
<1> QED
  BY <1>1, <1>2, <1>3 DEF Orderly

\* An admission finds nothing begun.
LEMMA OrderlyEnters == ASSUME TypeOK, NEW j \in Jobs, Orderly(j), Enters(j) PROVE Orderly(j)'
<1>1. /\ UNCHANGED <<run[j], outcome[j], slot[j], fin[j], req[j]>>
      /\ sub[j] = "recheck" /\ sub'[j] = "save" /\ (j \in attempted' <=> j \in attempted)
      /\ rec'[j].state = "queued"
  BY DEF Enters, SameRun, NewRecord, NoRecord
<1>2. Calm(j) /\ Calm(j)' /\ run[j] = "idle"
  BY <1>1 DEF Orderly, Calm
<1>3. "queued" \in Stage("idle")
  BY DEF Stage, States, Live
<1> QED
  BY <1>1, <1>2, <1>3 DEF Orderly, Evident

\* A pass of the pump starts or expires a queued job.
LEMMA OrderlyPasses == ASSUME TypeOK, NEW j \in Jobs, Orderly(j), Passes(j) PROVE Orderly(j)'
<1> rec[j] \in Record /\ fin[j] \in [Closers -> {"idle", "audit", "save", "end"}]
  BY DEF TypeOK, RecordsType, ProgramsType
<1>1. /\ UNCHANGED <<outcome[j], req[j]>> /\ (j \in attempted' <=> j \in attempted)
      /\ (j \in active' <=> j \in active)
      /\ sub'[j] = sub[j] \/ (sub[j] = "save" /\ sub'[j] = "accepted")
  BY DEF Passes
<1>2. CASE UNCHANGED <<rec[j], run[j], slot[j], fin[j]>>
  BY <1>1, <1>2 DEF Orderly, Calm, Evident
<1>3. CASE /\ j \in active /\ rec[j].state = "queued"
           /\ rec'[j] = [rec[j] EXCEPT !.state = "starting"]
           /\ run'[j] = "starting" /\ slot'[j] = "reserved" /\ fin'[j] = fin[j]
  <2>1. rec'[j].state = "starting" /\ Calm(j)
    BY <1>3 DEF Record, Orderly
  <2> QED
    BY <1>1, <1>3, <2>1 DEF Orderly, Calm, Evident, Stage
<1>4. CASE /\ j \in active /\ rec[j].state = "queued"
           /\ rec'[j] = [rec[j] EXCEPT !.state = "failed"]
           /\ UNCHANGED <<run[j], slot[j]>>
  <2>1. rec'[j].state = "failed" /\ run[j] = "idle" /\ "failed" \in States
    BY <1>4 DEF Record, Orderly, Calm, States, Terminal
  <2> QED
    BY <1>1, <1>4, <2>1 DEF Orderly, Calm, Evident, Stage
<1> QED
  BY <1>2, <1>3, <1>4 DEF Passes

\* The saves of run(),
LEMMA OrderlySaves == ASSUME TypeOK, NEW j \in Jobs, Orderly(j), Saves(j) PROVE Orderly(j)'
<1> rec[j] \in Record
  BY DEF TypeOK, RecordsType
<1>1. /\ UNCHANGED <<sub[j], req[j], fin[j], slot[j]>> /\ (j \in attempted' <=> j \in attempted)
      /\ (j \in active' <=> j \in active) /\ run[j] \in {"starting", "running"}
      /\ run'[j] \in {"running", "mode", "orphan"}
  BY DEF Saves, SameAsk, SameClose
<1>2. rec'[j].state \in Stage(run'[j]) /\ rec'[j].state # "queued"
  <2>1. CASE run[j] = "starting" /\ run'[j] = "running"
    BY <2>1 DEF Saves, Stage, Record
  <2>2. CASE run[j] = "running" /\ run'[j] = "mode" /\ rec'[j] = rec[j]
    BY <2>2 DEF Orderly, Stage
  <2>3. CASE run'[j] = "orphan" /\ rec'[j] = Caught(rec[j], "storage", j \in aborted)
    <3>1. rec'[j].state \in Terminal /\ "queued" \notin Terminal
      BY <2>3, CaughtParts DEF Terminal
    <3> QED
      BY <2>3, <3>1 DEF Stage
  <2> QED
    BY <2>1, <2>2, <2>3 DEF Saves
<1> QED
  BY <1>1, <1>2 DEF Orderly, Calm, Evident

\* its last one, and the save of finishQueued.
LEMMA OrderlyEnds ==
  ASSUME TypeOK, NEW j \in Jobs, Orderly(j), Ends(j) \/ Closes(j) PROVE Orderly(j)'
<1> rec[j] \in Record /\ fin[j] \in [Closers -> {"idle", "audit", "save", "end"}]
  BY DEF TypeOK, RecordsType, ProgramsType
<1>1. CASE Ends(j)
  <2>1. /\ UNCHANGED <<sub[j], req[j], fin[j], slot[j], outcome[j]>>
        /\ (j \in attempted' <=> j \in attempted)
        /\ run[j] = "final" /\ run'[j] = "end" /\ j \notin active'
    BY <1>1 DEF Ends, SameAsk
  <2>2. /\ rec'[j].state = rec[j].state /\ rec'[j].term = rec[j].term
        /\ rec'[j].audit = rec[j].audit
    BY <1>1, WithheldParts DEF Ends
  <2> QED
    BY <2>1, <2>2 DEF Orderly, Calm, Evident, Stage
<1>2. CASE Closes(j)
  <2>1. /\ UNCHANGED <<sub[j], req[j], run[j], slot[j], outcome[j], rec[j]>>
        /\ (j \in attempted' <=> j \in attempted) /\ (j \in active' <=> j \in active)
        /\ \E c \in Closers : fin[j][c] = "save" /\ fin'[j] = [fin[j] EXCEPT ![c] = "end"]
    BY <1>2 DEF Closes, SameAsk, SameRun
  <2>2. ~Calm(j) /\ run[j] = "idle"
    BY <2>1 DEF Calm, Orderly
  <2> QED
    BY <2>1, <2>2 DEF Orderly, Evident
<1> QED
  BY <1>1, <1>2

\* The executor works for a job that run() has made running.
LEMMA OrderlyExecutes ==
  ASSUME TypeOK, NEW j \in Jobs, Orderly(j), Executes(j) PROVE Orderly(j)'
<1> rec[j] \in Record
  BY DEF TypeOK, RecordsType
<1>1. /\ UNCHANGED <<sub[j], req[j], fin[j]>> /\ (j \in attempted' <=> j \in attempted)
      /\ (j \in active' <=> j \in active)
  BY DEF Executes, SameAsk, SameClose
<1>2. CASE slot[j] = "quarantined" /\ slot'[j] = "none" /\ UNCHANGED <<run[j], rec[j]>>
  BY <1>1, <1>2 DEF Orderly, Calm, Evident
<1>3. CASE /\ run[j] \in {"mode", "child"} /\ run'[j] \in {"child", "blocked", "failed"}
           /\ rec'[j] = rec[j]
           /\ slot'[j] = "quarantined" => run'[j] = "failed" /\ outcome'[j] = "termination"
  BY <1>1, <1>3 DEF Orderly, Calm, Evident, Stage
<1>4. CASE /\ run[j] = "child" /\ run'[j] = "completed" /\ slot'[j] = "none"
           /\ rec'[j] = [rec[j] EXCEPT !.state = "finalizing"]
  <2>1. rec'[j].state = "finalizing"
    BY <1>4 DEF Record
  <2> QED
    BY <1>1, <1>4, <2>1 DEF Orderly, Calm, Evident, Stage
<1> QED
  BY <1>2, <1>3, <1>4 DEF Executes

\* Every way for run() to end leaves a terminal record with the evidence.
LEMMA OrderlyReports ==
  ASSUME TypeOK, NEW j \in Jobs, Orderly(j), Reports(j) PROVE Orderly(j)'
<1> rec[j] \in Record
  BY DEF TypeOK, RecordsType
<1>1. /\ UNCHANGED <<sub[j], req[j], fin[j], outcome[j]>> /\ (j \in attempted' <=> j \in attempted)
      /\ (j \in active' <=> j \in active)
      /\ run[j] \in {"completed", "blocked", "failed", "orphan"} /\ run'[j] = "final"
      /\ slot'[j] = "quarantined" => slot[j] = "quarantined"
  BY DEF Reports, SameAsk
<1>2. PICK ok \in BOOLEAN :
         \/ /\ run[j] = "completed"
            /\ rec'[j] = IF ok THEN Published(rec[j], outcome[j])
                         ELSE Evidenced(Caught(rec[j], "audit", j \in aborted), "audit",
                                        j \in aborted)
         \/ /\ run[j] \in {"blocked", "failed"}
            /\ \E err \in {IF ok THEN outcome[j] ELSE "audit"} :
                  rec'[j] = Evidenced(Caught(rec[j], err, j \in aborted), err, j \in aborted)
         \/ /\ run[j] = "orphan"
            /\ rec'[j] = Evidenced(IF ok THEN rec[j] ELSE [rec[j] EXCEPT !.audit = "unavailable"],
                                   "storage", j \in aborted)
  BY DEF Reports
<1>4. CASE run[j] = "completed"
  <2>1. rec'[j].state \in Terminal
    BY <1>2, <1>4, FailedParts, PublishedParts
  <2> QED
    BY <1>1, <1>4, <2>1 DEF Orderly, Calm, Evident, Stage, Terminal
<1>5. CASE run[j] \in {"blocked", "failed"}
  <2>1. PICK err \in {IF ok THEN outcome[j] ELSE "audit"} :
           rec'[j] = Evidenced(Caught(rec[j], err, j \in aborted), err, j \in aborted)
    BY <1>2, <1>5
  <2>2. /\ rec'[j].state \in Terminal
        /\ err = "audit" => rec'[j].audit = "unavailable"
        /\ err = "termination" => rec'[j].term = "unknown"
    BY <2>1, FailedParts
  <2> QED
    BY <1>1, <1>5, <2>1, <2>2 DEF Orderly, Calm, Evident, Stage, Terminal
<1>6. CASE run[j] = "orphan"
  <2>1. rec[j].state \in Terminal
    BY <1>6 DEF Orderly, Stage
  <2>2. /\ [rec[j] EXCEPT !.audit = "unavailable"] \in Record
        /\ [rec[j] EXCEPT !.audit = "unavailable"].state = rec[j].state
    BY SetAudit DEF Record
  <2>3. PICK r \in Record : /\ r.state = rec[j].state
                             /\ rec'[j] = Evidenced(r, "storage", j \in aborted)
    BY <1>2, <1>6, <2>2
  <2>4. rec'[j].state \in Terminal
    BY <2>1, <2>3, EvidencedParts
  <2> QED
    BY <1>1, <1>6, <2>4 DEF Orderly, Calm, Evident, Stage, Terminal
<1> QED
  BY <1>1, <1>4, <1>5, <1>6

\* A job that finishQueued ends never runs.
LEMMA OrderlyFinishes ==
  ASSUME TypeOK, NEW j \in Jobs, Orderly(j), Finishes(j) \/ IsStopped(j) PROVE Orderly(j)'
<1> rec[j] \in Record /\ fin[j] \in [Closers -> {"idle", "audit", "save", "end"}]
  BY DEF TypeOK, RecordsType, ProgramsType
<1>1. /\ UNCHANGED <<sub[j], req[j], run[j], outcome[j], slot[j]>>
      /\ (j \in attempted' <=> j \in attempted) /\ (j \in active' => j \in active)
  BY DEF Finishes, IsStopped, SameAsk, SameRun
<1>2. CASE Finishes(j)
  <2>1. ~Calm(j) /\ run[j] = "idle" /\ rec'[j].state = rec[j].state
    BY <1>2 DEF Finishes, Orderly, Calm, Record
  <2> QED
    BY <1>1, <1>2, <2>1 DEF Orderly, Evident, Calm, Finishes
<1>3. CASE /\ rec[j].state = "queued" \/ run[j] = "idle"
           /\ j \in active
           /\ rec'[j] = [rec[j] EXCEPT !.state = "cancelled"]
  <2>1. run[j] = "idle" /\ rec'[j].state = "cancelled" /\ "cancelled" \in Stage("idle")
        /\ j \in active
    BY <1>3 DEF Orderly, Calm, Record, Stage, States, Terminal
  <2> QED
    BY <1>1, <2>1 DEF Orderly, Evident, Calm
<1>4. CASE /\ rec[j].state \in {"starting", "running"} /\ fin'[j] = fin[j]
           /\ rec'[j] = [rec[j] EXCEPT !.term = "requested"]
  <2>1. rec'[j].state = rec[j].state /\ run[j] \notin {"final", "end"}
    BY <1>4 DEF Orderly, Record, Stage, Terminal
  <2> QED
    BY <1>1, <1>4, <2>1 DEF Orderly, Evident, Calm
<1> QED
  BY <1>2, <1>3, <1>4 DEF IsStopped

\* What a crash and initialize() leave is in order.
LEMMA OrderlyLife ==
  ASSUME TypeOK, RecoveryInv, NEW j \in Jobs, Orderly(j), IsLost(j) \/ IsRead(j)
  PROVE  Orderly(j)'
<1>1. CASE IsLost(j)
  <2>1. Calm(j)' /\ rec'[j].state = "absent" /\ "absent" \in Stage("idle")
    BY <1>1 DEF IsLost, Calm, NoRecord, Stage, States
  <2> QED
    BY <1>1, <2>1 DEF Orderly, IsLost, Evident
<1>2. CASE IsRead(j)
  <2>1. /\ UNCHANGED <<sub[j], req[j], run[j], outcome[j], slot[j], fin[j]>>
        /\ (j \in attempted' <=> j \in attempted) /\ (j \in active' <=> j \in active)
        /\ phase = "boot"
    BY <1>2 DEF IsRead, SameAsk, SameRun, SameClose
  <2>2. sub[j] = "idle" /\ Calm(j)
    BY <2>1 DEF RecoveryInv, Waking, Asleep, Orderly
  <2>3. rec'[j] \in Record
    BY <1>2, InterruptedType DEF IsRead, TypeOK, RecordsType
  <2>4. rec'[j].state \in Stage("idle")
    BY <2>3 DEF Stage, States, Record
  <2> QED
    BY <2>1, <2>2, <2>4 DEF Orderly, Calm, Evident
<1> QED
  BY <1>1, <1>2

\* So every step keeps the order.
LEMMA CourseStep == ASSUME TypeOK, RecoveryInv, CourseInv, [Next]_vars PROVE CourseInv'
<1> SUFFICES ASSUME NEW j \in Jobs PROVE Orderly(j)'
  BY DEF CourseInv
<1> Orderly(j) /\ Moves(j)
  BY StepMoves DEF CourseInv
<1> QED
  BY OrderlyRests, OrderlyAsks, OrderlyEnters, OrderlyPasses, OrderlySaves, OrderlyEnds,
     OrderlyExecutes, OrderlyReports, OrderlyFinishes, OrderlyLife DEF Moves, Heard

\* The three program counters and the record of a job agree throughout.
THEOREM CourseInvariant == Spec => []CourseInv
<1>1. Init => CourseInv
  <2> SUFFICES ASSUME Init, NEW j \in Jobs PROVE Orderly(j)
    BY DEF CourseInv
  <2>1. Calm(j) /\ rec[j].state \in Stage(run[j])
    BY DEF Init, Calm, NoRecord, Stage, States
  <2> QED
    BY <2>1 DEF Init, Orderly, Calm
<1>2. TypeOK /\ RecoveryInv /\ CourseInv /\ [Next]_vars => CourseInv'
  BY CourseStep
<1> QED
  BY <1>1, <1>2, TypeCorrect, RecoveryInvariant, PTL DEF Spec

\* A finished job that still holds quarantined capacity says so, whichever of
\* timeout, cancellation, shutdown and lost events ended it.
THEOREM QuarantineIsReported == Spec => []QuarantineReported
  BY CourseInvariant, CourseImplies, PTL

-----------------------------------------------------------------------------
(* Nothing runs before its record says so on disk.  The pump may start a job *)
(* before its acceptance is saved, but the acceptance is ahead of the start  *)
(* in the queue; and when the acceptance fails, so has the store, which lets *)
(* at most one more operation through.                                       *)

\* The acceptance of job j is due in q, and no start of it comes before.
AcceptLeads(q, n, j) ==
    \E a \in n .. Len(q) :
        /\ q[a] = Op(j, "accept")
        /\ \A i \in 1 .. Len(q) : q[i] = Op(j, "starting") => a < i

Reached == {"mode", "child", "blocked", "completed", "failed"}

Secured(j) ==
    /\ j \in active => j \in known
    /\ sub[j] \in {"failing", "refused"} => j \notin known
    /\ run[j] = "starting" => j \in known \/ storeFailed
    /\ run[j] = "running" => /\ sub[j] # "save"
                             /\ j \in known \/ (storeFailed /\ head = "idle")
    /\ run[j] \in Reached => j \in known /\ sub[j] = "accepted" /\ disk[j].state = "running"

InOrder(j) == sub[j] = "save" => AcceptLeads(storeQ, First, j)

Abandoned == head = "late" /\ storeQ[1].op # "cleanup" =>
                run[storeQ[1].job] \notin Reached \cup {"running"}
Serialised == head = "busy" /\ storeQ[1].op = "running" => snap.state = "running"

DurableInv == /\ Abandoned /\ Serialised
              /\ \A j \in Jobs : Secured(j) /\ InOrder(j)

\* The invariant implies what a running command can rely on.
LEMMA DurableImplies == CourseInv /\ DurableInv => DurableBeforeSpawn
<1> SUFFICES ASSUME CourseInv, DurableInv, NEW j \in Jobs, run[j] = "child"
             PROVE  j \in attempted /\ j \in known /\ disk[j].state = "running"
  BY DEF DurableBeforeSpawn
<1> QED
  BY DEF CourseInv, Orderly, DurableInv, Secured, Reached

\* A queue that grows at its end keeps the acceptance ahead,
LEMMA LeadsGrows ==
  ASSUME NEW q \in Seq(Tickets), NEW n \in {1, 2}, NEW j, AcceptLeads(q, n, j), Extends(q),
         storeQ' \in Seq(Tickets)
  PROVE  AcceptLeads(storeQ', n, j)
<1>1. PICK a \in n .. Len(q) :
         /\ q[a] = Op(j, "accept")
         /\ \A i \in 1 .. Len(q) : q[i] = Op(j, "starting") => a < i
  BY DEF AcceptLeads
<1>2. Len(q) \in Nat /\ Len(storeQ') \in Nat /\ Len(q) <= Len(storeQ')
  BY LenProperties DEF Extends
<1>3. a \in 1 .. Len(q) /\ a \in n .. Len(storeQ') /\ storeQ'[a] = q[a]
  BY <1>1, <1>2 DEF Extends
<1>4. ASSUME NEW i \in 1 .. Len(storeQ'), storeQ'[i] = Op(j, "starting") PROVE a < i
  <2>1. CASE i \in 1 .. Len(q)
    BY <1>1, <1>4, <2>1 DEF Extends
  <2>2. CASE i \notin 1 .. Len(q)
    BY <1>1, <1>2, <2>2
  <2> QED
    BY <2>1, <2>2
<1> QED
  BY <1>1, <1>3, <1>4 DEF AcceptLeads

\* so does one that loses another operation that was due,
LEMMA LeadsShorter ==
  ASSUME NEW q, NEW p, NEW i, NEW n \in {1, 2}, NEW j,
         Shortens(q, p, i), AcceptLeads(p, n, j), i \in n .. Len(p), p[i] # Op(j, "accept")
  PROVE  AcceptLeads(q, n, j)
<1>1. Len(p) \in Nat /\ Len(q) = Len(p) - 1 /\ i \in Nat /\ n <= i /\ i <= Len(p)
  BY LenProperties DEF Shortens
<1>2. PICK a \in n .. Len(p) :
         /\ p[a] = Op(j, "accept")
         /\ \A k \in 1 .. Len(p) : p[k] = Op(j, "starting") => a < k
  BY DEF AcceptLeads
<1> DEFINE b == IF a < i THEN a ELSE a - 1
<1>3. b \in n .. Len(q) /\ b \in 1 .. Len(q) /\ (b < i => b = a) /\ (~(b < i) => b + 1 = a)
  BY <1>1, <1>2
<1>4. q[b] = Op(j, "accept")
  BY <1>2, <1>3 DEF Shortens
<1>5. ASSUME NEW k \in 1 .. Len(q), q[k] = Op(j, "starting") PROVE b < k
  <2>1. CASE k < i
    <3>1. k \in 1 .. Len(p) /\ p[k] = q[k]
      BY <1>1, <2>1 DEF Shortens
    <3> QED
      BY <1>1, <1>2, <1>3, <1>5, <3>1
  <2>2. CASE ~(k < i)
    <3>1. k + 1 \in 1 .. Len(p) /\ p[k + 1] = q[k]
      BY <1>1, <2>2 DEF Shortens
    <3>2. a < k + 1
      BY <1>2, <1>5, <3>1
    <3> QED
      BY <1>1, <1>2, <1>3, <2>2, <3>2
  <2> QED
    BY <2>1, <2>2
<1> QED
  BY <1>3, <1>4, <1>5 DEF AcceptLeads

\* one that gets rid of an abandoned operation,
LEMMA LeadsRid ==
  ASSUME NEW q, NEW p, NEW j, Shortens(q, p, 1), AcceptLeads(p, 2, j)
  PROVE  AcceptLeads(q, 1, j)
<1>1. Len(p) \in Nat /\ Len(q) = Len(p) - 1
  BY LenProperties DEF Shortens
<1>2. PICK a \in 2 .. Len(p) :
         /\ p[a] = Op(j, "accept")
         /\ \A k \in 1 .. Len(p) : p[k] = Op(j, "starting") => a < k
  BY DEF AcceptLeads
<1>3. a - 1 \in 1 .. Len(q) /\ q[a - 1] = Op(j, "accept")
  BY <1>1, <1>2 DEF Shortens
<1>4. ASSUME NEW k \in 1 .. Len(q), q[k] = Op(j, "starting") PROVE a - 1 < k
  <2>1. k + 1 \in 1 .. Len(p) /\ p[k + 1] = q[k]
    BY <1>1 DEF Shortens
  <2> QED
    BY <1>2, <1>4, <2>1
<1> QED
  BY <1>3, <1>4 DEF AcceptLeads

\* and one whose oldest operation is given up.
LEMMA LeadsAbandons ==
  ASSUME NEW q \in Seq(Tickets), NEW j, AcceptLeads(q, 1, j), q[1] # Op(j, "accept")
  PROVE  AcceptLeads(q, 2, j)
<1>1. PICK a \in 1 .. Len(q) :
         /\ q[a] = Op(j, "accept")
         /\ \A k \in 1 .. Len(q) : q[k] = Op(j, "starting") => a < k
  BY DEF AcceptLeads
<1>2. a \in 2 .. Len(q)
  BY <1>1, LenProperties
<1> QED
  BY <1>1, <1>2 DEF AcceptLeads

\* Steps that ask the store for nothing that is due, and nothing of it.
StoreStays == /\ UNCHANGED <<known, disk, head, snap, storeFailed>>
              /\ Extends(storeQ) /\ storeQ' \in Seq(Tickets)
\* The job goes on waiting for what it waits for, and is not admitted now.
Lingers(k) == /\ WaitsOn(k) /\ (sub'[k] = "save" => sub[k] = "save")
              /\ (k \in active' => k \in active)

\* Such a step, with such a job, secures what was secured.
LEMMA SecuredLingers ==
  ASSUME TypeOK, RecoveryInv, CourseInv, NEW k \in Jobs, Secured(k),
         UNCHANGED <<known, disk, head, storeFailed>>, Lingers(k), Moves(k), ~IsLost(k)
  PROVE  Secured(k)'
<1>1. Orderly(k) /\ Identity(k)
  BY DEF CourseInv, RecoveryInv
<1>2. sub'[k] \in {"failing", "refused"} => k \notin known
  <2>1. CASE Asks(k)
    <3>1. sub[k] \in {"attempt", "recheck", "refusing", "failing"} \/ sub'[k] = "attempt"
      BY <2>1 DEF Asks
    <3>2. sub[k] \in Early => k \notin known
      BY <1>1 DEF Identity, Touched, InMemory
    <3> QED
      BY <3>1, <3>2 DEF Early, Secured
  <2>2. CASE ~Asks(k)
    <3>1. sub'[k] = sub[k] \/ sub'[k] \in {"save", "accepted"}
      BY <2>2 DEF Moves, Heard, Rests, Enters, Passes, IsDropped, Saves, Ends, Closes, Executes,
         Reports, Finishes, IsStopped, IsRead, SameAsk, Lingers, WaitsOn
    <3> QED
      BY <3>1 DEF Secured
  <2> QED
    BY <2>1, <2>2
<1>3. run'[k] = "starting" => run[k] = "starting" \/ k \in active
  BY DEF Moves, Heard, Rests, Asks, Enters, Passes, IsDropped, Saves, Ends, Closes, Executes,
     Reports, Finishes, IsStopped, IsRead, SameRun
<1>4. run'[k] = "running" => run[k] = "running"
  BY DEF Moves, Heard, Rests, Asks, Enters, Passes, IsDropped, Saves, Ends, Closes, Executes,
     Reports, Finishes, IsStopped, IsRead, SameRun, Lingers, WaitsOn
<1>5. run'[k] \in Reached => run[k] \in Reached /\ (sub[k] = "accepted" => sub'[k] = "accepted")
  <2>1. run'[k] \in Reached => run[k] \in Reached
    BY DEF Moves, Heard, Rests, Asks, Enters, Passes, IsDropped, Saves, Ends, Closes, Executes,
       Reports, Finishes, IsStopped, IsRead, SameRun, Lingers, WaitsOn, Reached
  <2>2. sub[k] = "accepted" => sub'[k] = "accepted"
    <3>1. req[k] = NoRequest => sub[k] = "idle"
      BY <1>1 DEF Orderly
    <3> QED
      BY <3>1 DEF Moves, Heard, Rests, Asks, Enters, Passes, IsDropped, Saves, Ends, Closes,
         Executes, Reports, Finishes, IsStopped, IsRead, SameAsk
  <2> QED
    BY <2>1, <2>2
<1> QED
  BY <1>2, <1>3, <1>4, <1>5 DEF Secured, Lingers

\* No step brings a job to the executor while an operation it gave up is in
\* progress, and what that writes does not change.
LEMMA HeadLingers ==
  ASSUME TypeOK, RecoveryInv, CourseInv, DurableInv, StoreStays,
         \A k \in Jobs : Lingers(k) /\ Moves(k) /\ ~IsLost(k)
  PROVE  Abandoned' /\ Serialised'
<1>1. head # "idle" => storeQ'[1] = storeQ[1] /\ storeQ[1].job \in Jobs
  BY HeadStays, QueueParts DEF StoreStays, TypeOK, StoreType, Tickets
<1>2. ASSUME NEW k \in Jobs
      PROVE  run'[k] \in Reached \cup {"running"} => run[k] \in Reached \cup {"running"}
  <2>1. Lingers(k) /\ Moves(k) /\ ~IsLost(k)
    OBVIOUS
  <2> QED
    BY <2>1 DEF Moves, Heard, Rests, Asks, Enters, Passes, IsDropped, Saves, Ends, Closes,
       Executes, Reports, Finishes, IsStopped, IsRead, SameRun, Lingers, WaitsOn, Reached
<1> QED
  BY <1>1, <1>2 DEF DurableInv, Abandoned, Serialised, StoreStays

\* All of it together.
LEMMA LingeringKeeps ==
  ASSUME TypeOK, RecoveryInv, CourseInv, DurableInv, StoreStays,
         \A k \in Jobs : Lingers(k) /\ Moves(k) /\ ~IsLost(k)
  PROVE  DurableInv'
<1>1. ASSUME NEW k \in Jobs PROVE Secured(k)'
  BY SecuredLingers DEF StoreStays, DurableInv
<1>2. ASSUME NEW k \in Jobs PROVE InOrder(k)'
  <2>1. First' = First /\ First \in {1, 2} /\ storeQ \in Seq(Tickets)
    BY DEF First, StoreStays, TypeOK, StoreType
  <2>2. sub'[k] = "save" => AcceptLeads(storeQ, First, k)
    BY DEF Lingers, DurableInv, InOrder
  <2>3. sub'[k] = "save" => AcceptLeads(storeQ', First', k)
    BY <2>1, <2>2, LeadsGrows DEF StoreStays
  <2> QED
    BY <2>3 DEF InOrder
<1> QED
  BY <1>1, <1>2, HeadLingers DEF DurableInv

\* When the process is gone or has not opened yet, there is nothing to keep.
LEMMA AsleepKeeps == ASSUME CourseInv', Asleep', NEW k \in Jobs PROVE Secured(k)' /\ InOrder(k)'
<1>1. sub'[k] = "idle" /\ active' = {} /\ Orderly(k)'
  BY DEF Asleep, CourseInv
<1>2. run'[k] = "idle"
  BY <1>1 DEF Orderly, Calm
<1> QED
  BY <1>1, <1>2 DEF Secured, InOrder, Reached

\* Steps of a submission, of the executor, of cancellation and of shutdown.
LEMMA QuietSecures ==
  ASSUME TypeOK, RecoveryInv, CourseInv, DurableInv, \A k \in Jobs : Moves(k), TypeOK',
         \/ QuietStep
         \/ \E j \in Jobs, ok \in BOOLEAN, c \in Closers :
               \/ CompletionAudited(j, ok) \/ FailureAudited(j, ok) \/ OrphanAudited(j, ok)
               \/ FinishAudited(j, c, ok)
  PROVE  DurableInv'
<1>1. /\ \A k \in Jobs : Mild(k)
      /\ FilesStay /\ phase = "up" /\ UNCHANGED storeFailed
      /\ storeQ' = storeQ \/ \E t \in Tickets : storeQ' = Append(storeQ, t)
  <2>1. CASE QuietStep
    BY <2>1, QuietFiles, QuietMild DEF RecoveryInv
  <2>2. ASSUME NEW j \in Jobs, NEW ok \in BOOLEAN, NEW c \in Closers,
               \/ CompletionAudited(j, ok) \/ FailureAudited(j, ok) \/ OrphanAudited(j, ok)
               \/ FinishAudited(j, c, ok)
        PROVE  /\ \A k \in Jobs : Mild(k)
               /\ FilesStay /\ phase = "up" /\ UNCHANGED storeFailed
               /\ \E t \in Tickets : storeQ' = Append(storeQ, t)
    BY <2>2, LastMild, OpType DEF RecoveryInv
  <2> QED
    BY <2>1, <2>2
<1>2. Extends(storeQ) /\ storeQ' \in Seq(Tickets)
  <2>1. storeQ \in Seq(Tickets) /\ storeQ' \in Seq(Tickets)
    BY DEF TypeOK, StoreType
  <2> QED
    BY <1>1, <2>1, AppendProperties, LenProperties DEF Extends
<1>3. \A k \in Jobs : Lingers(k) /\ ~IsLost(k)
  BY <1>1 DEF Mild, Lingers, FilesStay, IsLost
<1> QED
  BY <1>1, <1>2, <1>3, LingeringKeeps DEF StoreStays, FilesStay

\* A submission, and a cleanup that is asked for.
LEMMA AsksSecures ==
  ASSUME TypeOK, RecoveryInv, CourseInv, DurableInv, \A k \in Jobs : Moves(k), TypeOK',
         PumpCleans \/ \E j \in Jobs, r \in Requests : Submit(j, r)
  PROVE  DurableInv'
<1>1. /\ UNCHANGED <<known, disk, head, snap, storeFailed, active, run, fin>>
      /\ phase = "up" /\ phase' = "up"
      /\ storeQ' = storeQ \/ \E t \in Tickets : storeQ' = Append(storeQ, t)
      /\ \A k \in Jobs : /\ sub'[k] = "save" => sub[k] = "save"
                         /\ sub[k] = "save" => sub'[k] = "save"
  <2>1. CASE PumpCleans
    <3>1. Aged \subseteq Jobs
      BY DEF Aged, TypeOK, RecordsType
    <3> QED
      BY <2>1, <3>1, OpType DEF PumpCleans, process, records, Ops
  <2>2. ASSUME NEW j \in Jobs, NEW r \in Requests, Submit(j, r)
        PROVE  /\ UNCHANGED <<known, disk, head, snap, storeFailed, active, run, fin, storeQ>>
               /\ phase = "up" /\ phase' = "up"
               /\ \A k \in Jobs : /\ sub'[k] = "save" => sub[k] = "save"
                                  /\ sub[k] = "save" => sub'[k] = "save"
    <3>1. sub[j] # "save"
      BY <2>2 DEF Submit, CourseInv, Orderly
    <3> QED
      BY <2>2, <3>1 DEF Submit, process, records, store, TypeOK, ProgramsType
  <2> QED
    BY <2>1, <2>2
<1>2. Extends(storeQ) /\ storeQ' \in Seq(Tickets)
  <2>1. storeQ \in Seq(Tickets) /\ storeQ' \in Seq(Tickets)
    BY DEF TypeOK, StoreType
  <2> QED
    BY <1>1, <2>1, AppendProperties, LenProperties DEF Extends
<1>3. \A k \in Jobs : Lingers(k) /\ ~IsLost(k)
  BY <1>1 DEF Lingers, WaitsOn, IsLost
<1> QED
  BY <1>1, <1>2, <1>3, LingeringKeeps DEF StoreStays

\* A pass of the pump.
LEMMA PumpSecures ==
  ASSUME TypeOK, StartInv, RecoveryInv, CourseInv, DurableInv, \A k \in Jobs : Moves(k), TypeOK',
         Pump \/ PumpResumes
  PROVE  DurableInv'
<1>1. /\ PumpPass(storeQ) /\ phase' = "up" /\ phase = "up"
      /\ UNCHANGED <<known, disk, head, snap, storeFailed, active, sub>>
  BY DEF Pump, PumpResumes, PumpFrame, process
<1>2. storeQ \in Seq(Tickets) /\ storeQ' \in Seq(Tickets)
  BY DEF TypeOK, StoreType
<1>3. Extends(storeQ) /\ \A k \in Jobs : Passed(k, storeQ)
  BY <1>1, <1>2, PassEffect DEF RecoveryInv
<1>4. \A k \in Jobs : Lingers(k) /\ ~IsLost(k)
  BY <1>1, <1>3 DEF Lingers, WaitsOn, IsLost, Passed
<1> QED
  BY <1>1, <1>2, <1>3, <1>4, LingeringKeeps DEF StoreStays

\* An admission puts the acceptance into the queue.
LEMMA AdmitSecures ==
  ASSUME TypeOK, RecoveryInv, CourseInv, DurableInv, TypeOK', NEW j \in Jobs, Admit(j)
  PROVE  DurableInv'
<1>1. /\ UNCHANGED <<disk, head, snap, storeFailed, run>>
      /\ sub[j] = "recheck" /\ phase = "up"
      /\ active' = active \cup {j} /\ known' = known \cup {j}
      /\ storeQ' = Append(storeQ, Op(j, "accept"))
  BY DEF Admit, SubmissionFrame
<1>2. \A k \in Jobs : sub'[k] = IF k = j THEN "save" ELSE sub[k]
  BY DEF Admit, TypeOK, ProgramsType
<1>3. storeQ \in Seq(Tickets) /\ storeQ' \in Seq(Tickets)
  BY DEF TypeOK, StoreType
<1>4. /\ Len(storeQ) \in Nat /\ Len(storeQ') = Len(storeQ) + 1
      /\ storeQ'[Len(storeQ) + 1] = Op(j, "accept")
      /\ \A i \in 1 .. Len(storeQ) : storeQ'[i] = storeQ[i]
  BY <1>1, <1>3, AppendProperties, LenProperties, OpType DEF Ops
<1>5. Extends(storeQ) /\ First' = First /\ First \in {1, 2}
  BY <1>1, <1>4 DEF Extends, First
<1>6. run[j] = "idle" /\ ~Carries(storeQ, j)
  BY <1>1 DEF RecoveryInv, Identity, Early, Touched, InMemory, CourseInv, Orderly, Calm
<1>7. ASSUME NEW k \in Jobs PROVE Secured(k)'
  BY <1>1, <1>2, <1>6 DEF DurableInv, Secured, Reached
<1>8. ASSUME NEW k \in Jobs PROVE InOrder(k)'
  <2>1. CASE k # j
    <3>1. sub'[k] = "save" => AcceptLeads(storeQ, First, k)
      BY <1>2, <2>1 DEF DurableInv, InOrder
    <3>2. sub'[k] = "save" => AcceptLeads(storeQ', First', k)
      BY <1>3, <1>5, <3>1, LeadsGrows
    <3> QED
      BY <3>2 DEF InOrder
  <2>2. CASE k = j
    <3>1. \A i \in 1 .. Len(storeQ) : storeQ[i] # Op(j, "starting")
      BY <1>6 DEF Carries, Op
    <3>2. \A i \in 1 .. Len(storeQ') : storeQ'[i] # Op(j, "starting")
      <4>1. Op(j, "accept") # Op(j, "starting")
        BY DEF Op
      <4> QED
        BY <1>4, <3>1, <4>1
    <3>3. Len(storeQ) + 1 \in First' .. Len(storeQ')
      <4>1. First = 2 => storeQ # <<>>
        BY DEF First, TypeOK, StoreType
      <4>2. First = 2 => Len(storeQ) # 0
        BY <1>3, <4>1, EmptySeq, LenProperties
      <4> QED
        BY <1>4, <1>5, <4>2
    <3> QED
      BY <1>4, <2>2, <3>2, <3>3 DEF InOrder, AcceptLeads
  <2> QED
    BY <2>1, <2>2
<1>9. Abandoned' /\ Serialised'
  <2>1. head # "idle" => storeQ'[1] = storeQ[1]
    BY <1>5, HeadStays
  <2> QED
    BY <1>1, <2>1 DEF DurableInv, Abandoned, Serialised
<1> QED
  BY <1>7, <1>8, <1>9 DEF DurableInv

\* The life of the process.
LEMMA LifeSecures ==
  ASSUME TypeOK, RecoveryInv, CourseInv, DurableInv, CourseInv', RecoveryInv',
         \/ Stop \/ Restart \/ BootCompletes \/ \E j \in Jobs : BootReads(j)
  PROVE  DurableInv'
<1>1. Asleep'
  <2>1. CASE Stop \/ Restart \/ \E j \in Jobs : BootReads(j)
    <3>1. phase' # "up"
      BY <2>1 DEF Stop, Restart, BootReads, BootFrame
    <3> QED
      BY <3>1 DEF RecoveryInv, Waking
  <2>2. CASE BootCompletes
    <3>1. Asleep /\ UNCHANGED <<active, storeQ, head, fault, sub, run, fin>>
      BY <2>2 DEF BootCompletes, BootFrame, programs, RecoveryInv, Waking
    <3> QED
      BY <3>1 DEF Asleep, Working, Closing
  <2> QED
    BY <2>1, <2>2
<1>2. Abandoned' /\ Serialised'
  BY <1>1 DEF Asleep, Abandoned, Serialised
<1> QED
  BY <1>1, <1>2, AsleepKeeps DEF DurableInv

\* Who an answer is for, and how it goes on.
Told(k, t, ok) ==
    /\ t \in Awaits
    /\ sub'[k] # sub[k] => /\ t = Op(k, "accept") /\ sub[k] = "save"
                           /\ sub'[k] = IF ok THEN "accepted" ELSE "failing"
    /\ t = Op(k, "accept") => /\ sub'[k] # "save" /\ (ok \/ k \notin active')
                              /\ run'[k] \in {run[k], "starting"}
    /\ run[k] \in {"starting", "running"} /\ run'[k] # run[k] =>
          /\ t = Op(k, run[k])
          /\ run'[k] = IF ok THEN After[run[k]] ELSE "orphan"
    /\ t.job = k /\ t.op \in {"starting", "running", "final"} => run'[k] # run[k]
    /\ k \in active' => k \in active

\* The answer to an acceptance,
LEMMA AcceptTold ==
  ASSUME TypeOK, StartInv, NEW t \in Tickets, NEW ok \in BOOLEAN, NEW q, NEW k \in Jobs,
         t.op = "accept", sub[t.job] = "save", AcceptSaved(t.job, ok, q)
  PROVE  Told(k, t, ok)
<1> DEFINE j == t.job
<1>1. /\ j \in Jobs /\ t = Op(j, "accept")
      /\ t \in Awaits
  BY DEF Tickets, Op, Awaits, Closers
<1>2. sub'[k] = IF k = j THEN IF ok THEN "accepted" ELSE "failing" ELSE sub[k]
  BY <1>1 DEF AcceptSaved, TypeOK, ProgramsType
<1>3. active' = IF ok THEN active ELSE active \ {j}
  BY DEF AcceptSaved, Leaves
<1>4. run'[k] = run[k] \/ (run[k] = "idle" /\ run'[k] = "starting")
  <2>1. CASE ok /\ MayPump
    <3>1. PumpPass(q)
      BY <2>1 DEF AcceptSaved, PumpNow
    <3>2. CASE PumpStarts(q)
      <4>1. PICK n, first, S : Started(q, n, first, S)
        BY <3>2, PumpStartsShape
      <4>2. k \in S => rec[k].state = "queued"
        BY <4>1 DEF Started, Queued
      <4> QED
        BY <4>1, <4>2 DEF Started, StartInv, JobInv, Unused
    <3> QED
      BY <3>1, <3>2 DEF PumpPass, PumpExpires
  <2>2. CASE ~(ok /\ MayPump)
    BY <2>2 DEF AcceptSaved, PumpNow
  <2> QED
    BY <2>1, <2>2
<1> QED
  BY <1>1, <1>2, <1>3, <1>4 DEF Told, Op

\* to a save of run(),
LEMMA RunTold ==
  ASSUME TypeOK, NEW t \in Tickets, NEW ok \in BOOLEAN, NEW q, NEW k \in Jobs,
         t.op \in {"starting", "running"}, run[t.job] = t.op, RunSaved(t.job, ok, q)
  PROVE  Told(k, t, ok)
<1> DEFINE j == t.job
<1>1. j \in Jobs /\ t \in Awaits /\ t = Op(j, run[j])
  BY DEF Tickets, Op, Awaits, Closers
<1>2. UNCHANGED <<sub, active>>
  BY DEF RunSaved
<1>3. run'[k] = IF k # j THEN run[k] ELSE IF ok THEN After[run[k]] ELSE "orphan"
  BY <1>1 DEF RunSaved, TypeOK, ProgramsType
<1>4. After["starting"] = "running" /\ After["running"] = "mode"
  BY DEF After
<1> QED
  BY <1>1, <1>2, <1>3, <1>4 DEF Told, Op

\* and to anything else.
LEMMA OtherTold ==
  ASSUME TypeOK, NEW t \in Tickets, NEW ok \in BOOLEAN, NEW q, NEW k \in Jobs,
         \/ t.op = "final" /\ run[t.job] = "final" /\ FinalSaved(t.job, ok, q)
         \/ t.op \in Closers /\ fin[t.job][t.op] = "save" /\ FinishSaved(t.job, t.op, ok, q)
         \/ t.op = "cleanup" /\ CleanupDone(ok, q)
  PROVE  Told(k, t, ok)
<1> DEFINE j == t.job
<1>1. j \in Jobs /\ t \in Awaits /\ t.op \notin {"accept", "starting", "running"}
  BY DEF Tickets, Awaits, Closers
<1>2. sub' = sub /\ active' \subseteq active
  BY DEF FinalSaved, FinishSaved, CleanupDone, Leaves
<1>3. run'[k] = IF k = j /\ t.op = "final" THEN "end" ELSE run[k]
  BY <1>1 DEF FinalSaved, FinishSaved, CleanupDone, TypeOK, ProgramsType, Closers
<1>4. k = j /\ t.op = "final" => run[k] = "final"
  BY DEF Closers
<1> QED
  BY <1>1, <1>2, <1>3, <1>4 DEF Told, Op

\* The answer to any operation.
LEMMA SettleTold ==
  ASSUME TypeOK, StartInv, NEW t \in Tickets, NEW ok \in BOOLEAN, NEW q, Settle(t, ok, q),
         NEW k \in Jobs
  PROVE  Told(k, t, ok)
  BY AcceptTold, RunTold, OtherTold DEF Settle

\* What an operation that is answered leaves in the files, seen by one job.
Writes(k, t, ok) == ok /\ k = t.job /\ t.op # "cleanup"
\* It may be rejected and have written all the same.
Strays(k, t, ok) == /\ ~ok /\ k = t.job /\ t.op # "cleanup" /\ disk'[k] \in {snap, rec[k]}
                    /\ t = storeQ[1] /\ head = "busy"
Written(k, t, ok) ==
    /\ k \in known' => k \in known
    /\ k \in known => k \in known' \/ k \in Aged \/ (~ok /\ t = Op(k, "accept"))
    /\ ~ok /\ t = Op(k, "accept") => k \notin known'
    /\ ~ok => storeFailed'
    /\ k \notin Aged \/ k \in known' =>
          disk'[k] = disk[k] \/ Writes(k, t, ok) \/ Strays(k, t, ok)
    /\ disk'[k] \in {disk[k], NoRecord} \/ Writes(k, t, ok) \/ Strays(k, t, ok)
    /\ ok /\ t.op # "cleanup" => disk'[t.job] \in {snap, rec[t.job]}
    /\ ok => t = storeQ[1] /\ head = "busy" /\ head' = "idle"
    /\ storeFailed => storeFailed'
    /\ head = "idle" => head' = "idle"

\* An answer secures what was secured, and what it lets go on.
LEMMA SecuredTold ==
  ASSUME TypeOK, StartInv, RecoveryInv, CourseInv, DurableInv, NEW t \in Tickets,
         NEW ok \in BOOLEAN, NEW k \in Jobs, Heard(k), Told(k, t, ok), Written(k, t, ok),
         sub[k] = "save" /\ ok => t # Op(k, "starting")
  PROVE  Secured(k)'
<1>1. Orderly(k) /\ Secured(k)
  BY DEF CourseInv, DurableInv
<1>2. k \in Aged => k \notin active /\ ~Working(k) /\ sub[k] \notin Pending
  BY AgedAlone DEF RecoveryInv
<1>3. t.op # "cleanup" => t = Op(t.job, t.op)
  BY DEF Op, Tickets
<1>4. k \in active' => k \in known'
  BY <1>1, <1>2 DEF Told, Written, Secured
<1>5. sub'[k] \in {"failing", "refused"} => k \notin known'
  BY <1>1 DEF Told, Written, Secured
<1>6. run'[k] = "starting" => k \in known' \/ storeFailed'
  <2>1. run'[k] = "starting" => run[k] = "starting" \/ (k \in active /\ k \in active')
    BY DEF Heard, Rests, Passes, IsDropped, Saves, Ends, Closes, SameRun
  <2>2. run[k] = "starting" => Working(k)
    BY DEF Working
  <2> QED
    BY <1>1, <1>2, <1>4, <2>1, <2>2 DEF Secured, Written
<1>7. run'[k] = "running" => /\ sub'[k] # "save"
                             /\ k \in known' \/ (storeFailed' /\ head' = "idle")
  <2>1. SUFFICES ASSUME run'[k] = "running"
                 PROVE  /\ sub'[k] # "save"
                        /\ k \in known' \/ (storeFailed' /\ head' = "idle")
    OBVIOUS
  <2>2. run[k] \in {"starting", "running"} /\ Working(k)
    BY <2>1 DEF Heard, Rests, Passes, IsDropped, Saves, Ends, Closes, SameRun, Working
  <2>3. CASE run[k] = "running"
    <3>1. sub[k] # "save" /\ t # Op(k, "accept")
      BY <1>1, <2>3 DEF Secured, Told, Awaits, Op
    <3> QED
      BY <1>1, <1>2, <2>2, <2>3, <3>1 DEF Secured, Told, Written
  <2>4. CASE run[k] = "starting"
    <3>1. t = Op(k, "starting") /\ ok
      BY <2>1, <2>4 DEF Told
    <3>2. sub[k] # "save" /\ t # Op(k, "accept")
      BY <3>1 DEF Op
    <3> QED
      BY <1>1, <1>2, <2>2, <2>4, <3>1, <3>2 DEF Secured, Told, Written
  <2> QED
    BY <2>2, <2>3, <2>4
<1>8. run'[k] \in Reached => k \in known' /\ sub'[k] = "accepted" /\ disk'[k].state = "running"
  <2>1. SUFFICES ASSUME run'[k] \in Reached
                 PROVE  k \in known' /\ sub'[k] = "accepted" /\ disk'[k].state = "running"
    OBVIOUS
  <2>2. run[k] \in Reached \cup {"running"} /\ Working(k)
    BY <2>1 DEF Heard, Rests, Passes, IsDropped, Saves, Ends, Closes, SameRun, Working, Reached
  <2>3. sub[k] # "save"
    BY <1>1, <2>2 DEF Secured
  <2>4. sub'[k] = sub[k] /\ t # Op(k, "accept")
    BY <2>3 DEF Told, Awaits, Op
  <2>5. (k \in known => k \in known') /\ k \notin Aged
    BY <1>2, <2>2, <2>4 DEF Written
  <2>6. CASE run[k] \in Reached
    <3>1. ~(k = t.job /\ t.op # "cleanup")
      <4>1. SUFFICES ASSUME k = t.job, t.op # "cleanup" PROVE FALSE
        OBVIOUS
      <4>2. run[k] \notin {"idle", "starting", "running", "final"}
        BY <2>6 DEF Reached
      <4>3. \A c \in Closers : fin[k][c] = "idle"
        BY <1>1, <4>2 DEF Orderly
      <4> QED
        BY <2>3, <4>1, <4>2, <4>3 DEF Told, Awaits, Tickets, Ops
    <3> QED
      BY <1>1, <2>4, <2>5, <2>6, <3>1 DEF Secured, Written, Writes, Strays
  <2>7. CASE run[k] = "running"
    <3>1. t = Op(k, "running") /\ ok
      BY <2>1, <2>7 DEF Told, Reached
    <3>2. t.op = "running" /\ t.job = k
      BY <3>1 DEF Op
    <3>3. head = "busy" /\ storeQ[1].op = "running" /\ disk'[k] \in {snap, rec[k]}
      BY <3>1, <3>2 DEF Written
    <3>4. snap.state = "running" /\ rec[k].state = "running"
      BY <1>1, <2>7, <3>3 DEF DurableInv, Serialised, Orderly, Stage
    <3>5. k \in known
      BY <1>1, <2>7, <3>3 DEF Secured
    <3>6. sub[k] = "accepted"
      BY <1>1, <2>3, <2>7, <3>5 DEF Secured, Orderly, Calm, TypeOK, ProgramsType, Pending
    <3> QED
      BY <2>4, <2>5, <3>3, <3>4, <3>5, <3>6
  <2> QED
    BY <2>2, <2>6, <2>7
<1> QED
  BY <1>4, <1>5, <1>6, <1>7, <1>8 DEF Secured

\* What an answered operation does to the files, when it is carried out,
LEMMA PersistWritten ==
  ASSUME TypeOK, NEW t \in Tickets, NEW gone \in Removable(t), Persist(t, gone), NEW k \in Jobs,
         t = storeQ[1], head = "busy", head' = "idle", storeFailed' = storeFailed
  PROVE  Written(k, t, TRUE)
<1>1. gone \subseteq Aged /\ known' = known \ gone /\ t.job \in Jobs
  BY DEF Removable, Persist, Tickets
<1>2. PICK r \in {snap, rec[t.job]} :
         disk' = IF t.op = "cleanup" THEN Without(gone)
                 ELSE [Without(gone) EXCEPT ![t.job] = r]
  BY DEF Persist, Lands
<1>3. disk'[k] = IF k = t.job /\ t.op # "cleanup" THEN r
                 ELSE IF k \in gone THEN NoRecord ELSE disk[k]
  BY <1>2 DEF Without
<1>4. t.op # "cleanup" => disk'[t.job] = r
  BY <1>1, <1>2 DEF Without
<1> QED
  BY <1>1, <1>2, <1>3, <1>4 DEF Written, Writes

\* when it is carried out and rejected,
LEMMA OverranWritten ==
  ASSUME TypeOK, NEW t \in Tickets, NEW gone \in Removable(t), Overran(t, gone), NEW k \in Jobs,
         t = storeQ[1], head = "busy", storeFailed'
  PROVE  Written(k, t, FALSE)
<1>1. gone \subseteq Aged /\ t.job \in Jobs
  BY DEF Removable, Tickets
<1>2. PICK r \in {snap, rec[t.job]} :
         disk' = IF t.op = "cleanup" THEN Without(gone)
                 ELSE [Without(gone) EXCEPT ![t.job] = r]
  BY DEF Overran, Lands
<1>3. disk'[k] = IF k = t.job /\ t.op # "cleanup" THEN r
                 ELSE IF k \in gone THEN NoRecord ELSE disk[k]
  BY <1>2 DEF Without
<1>4. t.op = "accept" => (k = t.job <=> t = Op(k, "accept"))
  BY DEF Tickets, Op
<1>5. t = Op(k, "accept") => t.op = "accept"
  BY DEF Op
<1>6. known' = known \ (IF t.op = "accept" THEN gone \cup {t.job} ELSE gone)
  BY DEF Overran, Forgets
<1> QED
  BY <1>1, <1>2, <1>3, <1>4, <1>5, <1>6 DEF Written, Writes, Strays

\* and when it is not.
LEMMA RejectedWritten ==
  ASSUME TypeOK, NEW t \in Tickets, NEW gone, gone \subseteq Aged, Rejected(t, gone),
         NEW k \in Jobs, storeFailed', head = "idle" => head' = "idle"
  PROVE  Written(k, t, FALSE)
<1>1. disk'[k] = IF k \in gone THEN NoRecord ELSE disk[k]
  BY DEF Rejected, Without
<1>2. t.op = "accept" => (k = t.job <=> t = Op(k, "accept"))
  BY DEF Tickets, Op
<1>3. t = Op(k, "accept") => t.op = "accept"
  BY DEF Op
<1> QED
  BY <1>1, <1>2, <1>3 DEF Written, Writes, Rejected, Forgets

\* Together with what the answer lets go on.
LEMMA AnswerSecures ==
  ASSUME TypeOK, StartInv, RecoveryInv, CourseInv, DurableInv, NEW t \in Tickets,
         NEW ok \in BOOLEAN, NEW q, Settle(t, ok, q), NEW k \in Jobs, Written(k, t, ok)
  PROVE  Secured(k)'
<1>1. Heard(k) /\ Told(k, t, ok)
  BY SettleMoves, SettleTold
<1>2. sub[k] = "save" /\ ok => t # Op(k, "starting")
  <2> SUFFICES ASSUME sub[k] = "save", ok PROVE t # Op(k, "starting")
    OBVIOUS
  <2>1. t = storeQ[1] /\ First = 1 /\ storeQ # <<>>
    BY DEF Written, First, TypeOK, StoreType
  <2>2. 1 \in 1 .. Len(storeQ)
    BY <2>1, EmptySeq, LenProperties DEF TypeOK, StoreType
  <2>3. PICK a \in 1 .. Len(storeQ) :
           \A i \in 1 .. Len(storeQ) : storeQ[i] = Op(k, "starting") => a < i
    BY <2>1 DEF DurableInv, InOrder, AcceptLeads
  <2> QED
    BY <2>1, <2>2, <2>3
<1> QED
  BY <1>1, <1>2, SecuredTold

\* The acceptance of another job stays ahead when an operation is answered
\* and leaves the queue,
LEMMA OrderTold ==
  ASSUME TypeOK, NEW k \in Jobs, NEW t, NEW ok, Told(k, t, ok), InOrder(k), NEW q,
         NEW n \in {1, 2}, NEW i \in n .. Len(storeQ), t = storeQ[i], Shortens(q, storeQ, i),
         First = n, First' = n, Extends(q), storeQ' \in Seq(Tickets)
  PROVE  InOrder(k)'
<1> SUFFICES ASSUME sub'[k] = "save" PROVE AcceptLeads(storeQ', n, k)
  BY DEF InOrder
<1>1. sub[k] = "save" /\ t # Op(k, "accept")
  BY DEF Told
<1>2. AcceptLeads(q, n, k)
  BY <1>1, LeadsShorter DEF InOrder
<1> QED
  BY <1>2, LeadsGrows DEF Shortens

\* and when its caller gives up on one.
LEMMA OrderGivenUp ==
  ASSUME TypeOK, NEW k \in Jobs, NEW t, NEW ok, Told(k, t, ok), InOrder(k), t = storeQ[1],
         First = 1, First' = 2, Extends(storeQ), storeQ' \in Seq(Tickets)
  PROVE  InOrder(k)'
<1> SUFFICES ASSUME sub'[k] = "save" PROVE AcceptLeads(storeQ', 2, k)
  BY DEF InOrder
<1>1. sub[k] = "save" /\ t # Op(k, "accept")
  BY DEF Told
<1>2. storeQ \in Seq(Tickets) /\ AcceptLeads(storeQ, 2, k)
  BY <1>1, LeadsAbandons DEF InOrder, TypeOK, StoreType
<1> QED
  BY <1>2, LeadsGrows

\* A rejection brings no job to the executor,
LEMMA RejectionStops ==
  ASSUME NEW k \in Jobs, NEW t, Heard(k), Told(k, t, FALSE),
         run[k] \notin Reached \cup {"running"}
  PROVE  run'[k] \notin Reached \cup {"running"}
<1>1. \/ run'[k] \in {run[k], "starting", "end"}
      \/ run[k] \in {"starting", "running"} /\ run'[k] # run[k]
  BY DEF Heard, Rests, Passes, IsDropped, Saves, Ends, Closes, SameRun
<1> QED
  BY <1>1 DEF Told, Reached

\* least of all the one it is for.
LEMMA GivenUp ==
  ASSUME TypeOK, CourseInv, DurableInv, NEW t \in Tickets, t.op # "cleanup", Heard(t.job),
         Told(t.job, t, FALSE)
  PROVE  run'[t.job] \notin Reached \cup {"running"}
<1> DEFINE k == t.job
<1>1. k \in Jobs /\ t = Op(k, t.op) /\ t.op \in Ops
  BY DEF Tickets, Op
<1>2. Orderly(k) /\ Secured(k)
  BY <1>1 DEF CourseInv, DurableInv
<1>3. CASE t.op \in {"accept", "final"} \cup Closers
  <2>1. run[k] \notin Reached \cup {"running"}
    <3>1. t.op = "accept" => sub[k] = "save"
      BY DEF Told, Awaits
    <3>2. t.op = "final" => run[k] = "final"
      BY DEF Told, Awaits
    <3>3. t.op \in Closers => run[k] = "idle"
      <4>1. t.op \in Closers => fin[k][t.op] = "save"
        BY DEF Told, Awaits
      <4> QED
        BY <1>2, <4>1 DEF Orderly
    <3> QED
      BY <1>2, <1>3, <3>1, <3>2, <3>3 DEF Secured, Reached
  <2> QED
    BY <1>1, <2>1, RejectionStops
<1>4. CASE t.op \in {"starting", "running"}
  <2>1. run[k] = t.op /\ run'[k] # run[k]
    BY <1>4 DEF Told, Awaits
  <2> QED
    BY <1>4, <2>1 DEF Told, Reached
<1> QED
  BY <1>1, <1>3, <1>4 DEF Ops

\* A write that ends in time,
LEMMA CommitSecures ==
  ASSUME TypeOK, StartInv, RecoveryInv, CourseInv, DurableInv, StoreCommits, TypeOK'
  PROVE  DurableInv'
<1>1. /\ head = "busy" /\ head' = "idle" /\ storeFailed' = storeFailed
      /\ Settle(storeQ[1], TRUE, Tail(storeQ))
  BY DEF StoreCommits
<1>2. PICK gone \in Removable(storeQ[1]) : Persist(storeQ[1], gone)
  BY DEF StoreCommits
<1>3. /\ storeQ[1] \in Tickets /\ Shortens(Tail(storeQ), storeQ, 1) /\ 1 \in 1 .. Len(storeQ)
      /\ Extends(Tail(storeQ)) /\ storeQ' \in Seq(Tickets) /\ First = 1 /\ First' = 1
  BY <1>1, HeadParts, HeadAnswered DEF First, TypeOK, StoreType
<1>4. ASSUME NEW k \in Jobs PROVE Secured(k)' /\ InOrder(k)'
  <2>1. Written(k, storeQ[1], TRUE)
    BY <1>1, <1>2, <1>3, PersistWritten
  <2>2. Told(k, storeQ[1], TRUE)
    BY <1>1, <1>3, SettleTold
  <2> QED
    BY <1>1, <1>3, <2>1, <2>2, AnswerSecures, OrderTold DEF DurableInv
<1> QED
  BY <1>1, <1>4 DEF DurableInv, Abandoned, Serialised

\* one that fails, with another that has passed its check,
LEMMA FailSecures ==
  ASSUME TypeOK, StartInv, RecoveryInv, CourseInv, DurableInv, StoreFails, TypeOK'
  PROVE  DurableInv'
<1>1. /\ head = "busy" /\ head' \in {"busy", "idle"} /\ storeFailed'
      /\ Settle(storeQ[1], FALSE, Tail(storeQ))
      /\ head' = "busy" => Len(storeQ) > 1 /\ snap' = rec[storeQ[2].job]
  BY DEF StoreFails
<1>2. PICK gone \in Removable(storeQ[1]) :
         Rejected(storeQ[1], gone) \/ Overran(storeQ[1], gone)
  BY DEF StoreFails
<1>3. /\ storeQ[1] \in Tickets /\ Shortens(Tail(storeQ), storeQ, 1) /\ 1 \in 1 .. Len(storeQ)
      /\ Extends(Tail(storeQ)) /\ storeQ' \in Seq(Tickets) /\ First = 1 /\ First' = 1
  BY <1>1, HeadParts, HeadAnswered DEF First, TypeOK, StoreType
<1>4. ASSUME NEW k \in Jobs PROVE Secured(k)' /\ InOrder(k)'
  <2>1. Written(k, storeQ[1], FALSE)
    <3>1. gone \subseteq Aged
      BY <1>2 DEF Removable
    <3> QED
      BY <1>1, <1>2, <1>3, <3>1, RejectedWritten, OverranWritten
  <2>2. Told(k, storeQ[1], FALSE)
    BY <1>1, <1>3, SettleTold
  <2> QED
    BY <1>1, <1>3, <2>1, <2>2, AnswerSecures, OrderTold DEF DurableInv
<1>5. Serialised'
  <2> SUFFICES ASSUME head' = "busy", storeQ'[1].op = "running" PROVE snap'.state = "running"
    BY DEF Serialised
  <2>1. 2 \in 1 .. Len(storeQ) /\ 1 \in 1 .. Len(Tail(storeQ)) /\ Tail(storeQ)[1] = storeQ[2]
    <3>1. Len(storeQ) \in Nat
      BY LenProperties DEF TypeOK, StoreType
    <3> QED
      BY <1>1, <1>3, <3>1 DEF Shortens
  <2>2. storeQ'[1] = storeQ[2] /\ storeQ[2] \in Awaits
    BY <1>3, <2>1 DEF Extends, RecoveryInv, QueueInv, Sound
  <2>3. run[storeQ[2].job] = "running" /\ storeQ[2].job \in Jobs
    BY <2>2 DEF Awaits, Tickets
  <2> QED
    BY <1>1, <2>3 DEF CourseInv, Orderly, Stage
<1> QED
  BY <1>1, <1>4, <1>5 DEF DurableInv, Abandoned

\* one whose caller gives up on it,
LEMMA TimeOutSecures ==
  ASSUME TypeOK, StartInv, RecoveryInv, CourseInv, DurableInv, StoreTimesOut, TypeOK'
  PROVE  DurableInv'
<1>1. /\ head = "busy" /\ head' = "late" /\ storeFailed'
      /\ Settle(storeQ[1], FALSE, storeQ) /\ Rejected(storeQ[1], {})
  BY DEF StoreTimesOut
<1>2. /\ storeQ[1] \in Tickets /\ storeQ \in Seq(Tickets) /\ storeQ' \in Seq(Tickets)
      /\ First = 1 /\ First' = 2
  BY <1>1, HeadParts DEF First, TypeOK, StoreType
<1>3. Extends(storeQ) /\ storeQ'[1] = storeQ[1]
  <2>1. LeftSound(storeQ[1], storeQ)
    BY <1>1, <1>2, SettleAnswered DEF RecoveryInv
  <2> QED
    BY <1>1, <2>1, HeadStays DEF LeftSound
<1>4. ASSUME NEW k \in Jobs PROVE Secured(k)' /\ InOrder(k)'
  <2>1. Written(k, storeQ[1], FALSE)
    <3>1. PICK gone : gone \subseteq Aged /\ Rejected(storeQ[1], gone)
      BY <1>1
    <3> QED
      BY <1>1, <1>2, <3>1, RejectedWritten
  <2>2. Told(k, storeQ[1], FALSE)
    BY <1>1, <1>2, SettleTold
  <2> QED
    BY <1>1, <1>2, <1>3, <2>1, <2>2, AnswerSecures, OrderGivenUp DEF DurableInv
<1>5. Abandoned'
  <2>1. storeQ[1].job \in Jobs
    BY <1>2 DEF Tickets
  <2>2. Heard(storeQ[1].job) /\ Told(storeQ[1].job, storeQ[1], FALSE)
    BY <1>1, <1>2, <2>1, SettleMoves, SettleTold
  <2> QED
    BY <1>2, <1>3, <2>2, GivenUp DEF Abandoned
<1> QED
  BY <1>1, <1>4, <1>5 DEF DurableInv, Serialised

\* one that is refused,
LEMMA RefuseSecures ==
  ASSUME TypeOK, StartInv, RecoveryInv, CourseInv, DurableInv, StoreRefuses, TypeOK'
  PROVE  DurableInv'
<1>1. UNCHANGED <<head, snap, storeFailed>> /\ storeFailed
  BY DEF StoreRefuses
<1>2. PICK i \in 1 .. Len(storeQ) :
         /\ i > 1 \/ head = "idle"
         /\ Settle(storeQ[i], FALSE, RemoveAt(storeQ, i))
         /\ Rejected(storeQ[i], {})
  BY DEF StoreRefuses
<1> DEFINE t == storeQ[i]
           q == RemoveAt(storeQ, i)
<1>3. /\ Shortens(q, storeQ, i) /\ t \in Tickets /\ q \in Seq(Tickets)
      /\ storeQ' \in Seq(Tickets)
  BY QueueParts, RemoveAtShortens DEF TypeOK, StoreType
<1>4. Extends(q)
  BY <1>2, <1>3, SettleAnswered DEF RecoveryInv, LeftSound
<1> HIDE DEF q
<1>5. First \in {1, 2} /\ First' = First /\ i \in First .. Len(storeQ)
  BY <1>1, <1>2 DEF First
<1>6. ASSUME NEW k \in Jobs PROVE Heard(k) /\ Told(k, t, FALSE)
  BY <1>2, <1>3, SettleMoves, SettleTold
<1>7. ASSUME NEW k \in Jobs PROVE Secured(k)' /\ InOrder(k)'
  <2>1. Written(k, t, FALSE)
    <3>1. PICK gone : gone \subseteq Aged /\ Rejected(t, gone)
      BY <1>2
    <3> QED
      BY <1>1, <1>3, <3>1, RejectedWritten
  <2> QED
    BY <1>2, <1>3, <1>4, <1>5, <1>6, <2>1, AnswerSecures, OrderTold DEF DurableInv
<1>8. head # "idle" => storeQ'[1] = storeQ[1] /\ storeQ[1].job \in Jobs
  <2> SUFFICES ASSUME head # "idle"
               PROVE  storeQ'[1] = storeQ[1] /\ storeQ[1].job \in Jobs
    OBVIOUS
  <2>1. 1 \in 1 .. Len(q) /\ q[1] = storeQ[1]
    <3>1. Len(storeQ) \in Nat /\ i > 1
      BY <1>2, LenProperties DEF TypeOK, StoreType
    <3> QED
      BY <1>3, <3>1 DEF Shortens
  <2> QED
    BY <1>4, <2>1, HeadParts DEF Extends, Tickets
<1> QED
  BY <1>1, <1>6, <1>7, <1>8, RejectionStops DEF DurableInv, Abandoned, Serialised

\* and one that ends after its caller has gone.
LEMMA LateSecures ==
  ASSUME TypeOK, RecoveryInv, CourseInv, DurableInv, StoreEndsLate PROVE DurableInv'
<1>1. /\ head = "late" /\ head' = "idle" /\ storeQ' = Tail(storeQ)
      /\ UNCHANGED <<sub, run, active, storeFailed>>
  BY DEF StoreEndsLate, programs
<1>2. /\ storeQ[1] \in Tickets /\ Shortens(storeQ', storeQ, 1) /\ First = 2 /\ First' = 1
  BY <1>1, HeadParts DEF First
<1>3. Aged = {}
  BY <1>1 DEF Aged, RecoveryInv, QueueInv
<1>4. /\ known' = known
      /\ \A k \in Jobs : disk'[k] = disk[k] \/ (k = storeQ[1].job /\ storeQ[1].op # "cleanup")
  <2>1. CASE \E gone \in Removable(storeQ[1]) : Persist(storeQ[1], gone)
    <3>1. Persist(storeQ[1], {})
      BY <1>3, <2>1 DEF Removable
    <3>2. disk \in [Jobs -> Record]
      BY DEF TypeOK, RecordsType
    <3> QED
      BY <3>1, <3>2 DEF Persist, Lands, Without
  <2>2. CASE UNCHANGED <<disk, known, forgotten>>
    BY <2>2
  <2> QED
    BY <2>1, <2>2 DEF StoreEndsLate
<1>5. ASSUME NEW k \in Jobs PROVE Secured(k)'
  BY <1>1, <1>4 DEF DurableInv, Secured, Abandoned
<1>6. ASSUME NEW k \in Jobs PROVE InOrder(k)'
  <2>1. sub[k] = "save" => AcceptLeads(storeQ, 2, k)
    BY <1>2 DEF DurableInv, InOrder
  <2> QED
    BY <1>1, <1>2, <2>1, LeadsRid DEF InOrder
<1> QED
  BY <1>1, <1>5, <1>6 DEF DurableInv, Abandoned, Serialised

\* The oldest operation starts only while the store has not failed.
LEMMA BeginSecures ==
  ASSUME TypeOK, RecoveryInv, CourseInv, DurableInv, StoreBegins PROVE DurableInv'
<1>1. /\ head = "idle" /\ head' = "busy" /\ storeQ # <<>> /\ snap' = rec[storeQ[1].job]
      /\ ~storeFailed
      /\ UNCHANGED <<known, disk, storeFailed, storeQ, active, sub, run>>
  BY DEF StoreBegins, records, programs
<1>2. First = 1 /\ First' = 1
  BY <1>1 DEF First
<1>3. ASSUME NEW k \in Jobs PROVE Secured(k)' /\ InOrder(k)'
  BY <1>1, <1>2 DEF DurableInv, Secured, InOrder
<1>4. Serialised'
  <2> SUFFICES ASSUME storeQ[1].op = "running" PROVE rec[storeQ[1].job].state = "running"
    BY <1>1 DEF Serialised
  <2>1. 1 \in 1 .. Len(storeQ)
    BY <1>1, EmptySeq, LenProperties DEF TypeOK, StoreType
  <2>2. storeQ[1] \in Awaits
    BY <1>2, <2>1 DEF RecoveryInv, QueueInv, Sound
  <2>3. run[storeQ[1].job] = "running" /\ storeQ[1].job \in Jobs
    BY <2>2 DEF Awaits, Tickets
  <2> QED
    BY <2>3 DEF CourseInv, Orderly, Stage
<1> QED
  BY <1>1, <1>3, <1>4 DEF DurableInv, Abandoned

\* Every step of the service keeps starts behind durable acceptances.
LEMMA DurableStep ==
  ASSUME TypeOK, StartInv, RecoveryInv, CourseInv, DurableInv, [Next]_vars PROVE DurableInv'
<1> TypeOK' /\ RecoveryInv' /\ CourseInv' /\ \A k \in Jobs : Moves(k)
  BY TypeStep, RecoveryStep, CourseStep, StepMoves
<1>1. CASE QuietStep
  BY <1>1, QuietSecures
<1>2. CASE \E j \in Jobs, ok \in BOOLEAN, c \in Closers :
              \/ CompletionAudited(j, ok) \/ FailureAudited(j, ok) \/ OrphanAudited(j, ok)
              \/ FinishAudited(j, c, ok)
  BY <1>2, QuietSecures
<1>3. CASE Storing
  BY <1>3, BeginSecures, CommitSecures, FailSecures, TimeOutSecures, LateSecures, RefuseSecures
  DEF Storing
<1>4. CASE Pump \/ PumpResumes \/ PumpCleans
  BY <1>4, PumpSecures, AsksSecures
<1>5. CASE Lifecycle
  BY <1>1, <1>5, LifeSecures DEF Lifecycle, Exit, Crash, Boot, QuietStep
<1>6. CASE \E j \in Jobs : (\E r \in Requests : Submit(j, r)) \/ Admit(j)
  BY <1>6, AsksSecures, AdmitSecures
<1>7. CASE UNCHANGED vars
  <2>1. UNCHANGED <<head, storeQ, snap, run, sub, active, known, storeFailed, disk>>
    BY <1>7 DEF vars, records, programs, store
  <2>2. First' = First
    BY <2>1 DEF First
  <2> QED
    BY <2>1, <2>2 DEF DurableInv, Abandoned, Serialised, Secured, InOrder
<1>8. "none" \in Outcomes /\ TRUE \in BOOLEAN /\ "client" \in Closers
  BY DEF Outcomes, Closers
<1> QED
  BY <1>1, <1>2, <1>3, <1>4, <1>5, <1>6, <1>7, <1>8
  DEF Next, Client, Submission, Running, Finishing, Pumping, QuietStep, JobSteps

\* The acceptance of a job is always decided before its start is.
THEOREM DurableInvariant == Spec => []DurableInv
<1>1. Init => DurableInv
  <2> SUFFICES ASSUME Init PROVE DurableInv
    OBVIOUS
  <2>1. ASSUME NEW j \in Jobs PROVE Secured(j) /\ InOrder(j)
    BY DEF Init, Secured, InOrder, Reached
  <2> QED
    BY <2>1 DEF Init, DurableInv, Abandoned, Serialised
<1>2. TypeOK /\ StartInv /\ RecoveryInv /\ CourseInv /\ DurableInv /\ [Next]_vars => DurableInv'
  BY DurableStep
<1> QED
  BY <1>1, <1>2, TypeCorrect, StartInvariant, RecoveryInvariant, CourseInvariant, PTL DEF Spec

\* While a command runs, its attempt is in the audit log and its record file
\* says that it is running, although the pump may start a job before its
\* acceptance is saved and a failed store lets the next operation start.
THEOREM NothingRunsBeforeItIsDurable == Spec => []DurableBeforeSpawn
  BY DurableInvariant, CourseInvariant, DurableImplies, PTL

-----------------------------------------------------------------------------
(* The terminal events of a job.  None is written before run() or            *)
(* finishQueued ends it; and what has run was accepted before, so that only   *)
(* the end of run() writes one for it.                                        *)

Unended(j) == /\ sub[j] \in {"attempt", "recheck", "save", "accepted"}
              /\ run[j] \notin {"final", "end"}
              /\ \A c \in Closers : fin[j][c] \in {"idle", "audit"}

Ran(j)  == sub[j] = "accepted" /\ run[j] \in {"child", "completed", "failed", "final", "end"}
Past(j) == sub[j] = "idle" /\ Calm(j) /\ j \notin active

Counted(j) ==
    /\ j \in active => \A c \in Closers : fin[j][c] \in {"idle", "audit"}
    /\ req[j] = NoRequest \/ Unended(j) => terminals[j] = 0
    /\ spawned[j] > 0 => req[j] # NoRequest /\ terminals[j] <= 1 /\ (Ran(j) \/ Past(j))

EventsInv == \A j \in Jobs : Counted(j)

\* The invariant implies that a command that ran has one terminal event.
LEMMA EventsImply == EventsInv => OneTerminalPerRun
  BY DEF EventsInv, Counted, OneTerminalPerRun

\* A submission, and what the life of the process does to a job.
LEMMA CountedAsks ==
  ASSUME TypeOK, NEW j \in Jobs, Orderly(j), Counted(j),
         Rests(j) \/ Asks(j) \/ Enters(j) \/ IsDropped(j)
  PROVE  Counted(j)'
<1>1. CASE Rests(j)
  BY <1>1 DEF Rests, SameAsk, SameRun, SameClose, Counted, Unended, Ran, Past, Calm
<1>2. CASE Asks(j)
  <2>1. /\ UNCHANGED <<run[j], spawned[j], fin[j]>> /\ (j \in active' <=> j \in active)
    BY <1>2 DEF Asks, SameRun
  <2>2. CASE req[j] = NoRequest
    <3>1. sub[j] = "idle"
      BY <2>2 DEF Orderly
    <3>2. UNCHANGED terminals[j] /\ terminals[j] = 0
      BY <1>2, <2>2, <3>1 DEF Asks, Counted
    <3>3. ~(spawned[j] > 0)
      BY <2>2 DEF Counted
    <3> QED
      BY <2>1, <3>2, <3>3 DEF Counted
  <2>3. CASE req[j] # NoRequest
    <3>1. /\ sub[j] \in {"attempt", "recheck", "refusing", "failing"} /\ UNCHANGED req[j]
          /\ sub'[j] \in {"recheck", "refusing", "refused"}
          /\ sub'[j] = "recheck" => sub[j] = "attempt" /\ UNCHANGED terminals[j]
      BY <1>2, <2>3 DEF Asks
    <3>2. ~(spawned[j] > 0)
      BY <3>1 DEF Counted, Ran, Past
    <3> QED
      BY <2>1, <2>3, <3>1, <3>2 DEF Counted, Unended
  <2> QED
    BY <2>2, <2>3
<1>3. CASE Enters(j)
  <2>1. /\ UNCHANGED <<run[j], spawned[j], fin[j], req[j], terminals[j]>>
        /\ sub[j] = "recheck" /\ sub'[j] = "save"
    BY <1>3 DEF Enters, SameRun
  <2>2. \A c \in Closers : fin[j][c] = "idle"
    BY <2>1 DEF Orderly, Calm
  <2> QED
    BY <2>1, <2>2 DEF Counted, Unended, Ran, Past
<1>4. CASE IsDropped(j)
  BY <1>4 DEF IsDropped, SameRun, Counted, Unended, Ran, Past
<1> QED
  BY <1>1, <1>2, <1>3, <1>4

\* What a crash leaves, and what initialize() reads.
LEMMA CountedLife ==
  ASSUME TypeOK, NEW j \in Jobs, Counted(j), IsLost(j) \/ IsRead(j) PROVE Counted(j)'
<1>1. CASE IsLost(j)
  <2>1. Past(j)' /\ ~Unended(j)'
    BY <1>1 DEF IsLost, Past, Calm, Unended
  <2> QED
    BY <1>1, <2>1 DEF IsLost, Counted
<1>2. CASE IsRead(j)
  BY <1>2 DEF IsRead, SameAsk, SameRun, SameClose, Counted, Unended, Ran, Past, Calm
<1> QED
  BY <1>1, <1>2

\* A pass of the pump finds a queued job that never ran.
LEMMA CountedPasses ==
  ASSUME TypeOK, NEW j \in Jobs, Orderly(j), Counted(j), Passes(j) PROVE Counted(j)'
<1> fin[j] \in [Closers -> {"idle", "audit", "save", "end"}]
  BY DEF TypeOK, ProgramsType
<1>1. /\ UNCHANGED <<spawned[j], terminals[j], req[j]>> /\ (j \in active' <=> j \in active)
      /\ sub'[j] = sub[j] \/ (sub[j] = "save" /\ sub'[j] = "accepted")
  BY DEF Passes
<1>2. sub[j] = "save" => ~(spawned[j] > 0)
  BY DEF Counted, Ran, Past
<1>3. CASE UNCHANGED <<run[j], fin[j]>>
  BY <1>1, <1>2, <1>3 DEF Counted, Unended, Ran, Past, Calm
<1>4. CASE /\ j \in active /\ rec[j].state = "queued"
           /\ \/ run'[j] = "starting" /\ fin'[j] = fin[j]
              \/ fin'[j] = [fin[j] EXCEPT !["pump"] = "audit"] /\ UNCHANGED run[j]
  <2>1. Calm(j)
    BY <1>4 DEF Orderly
  <2>2. ~(spawned[j] > 0)
    BY <1>4, <2>1 DEF Counted, Ran, Past, Calm
  <2>3. (Unended(j)' => Unended(j)) /\ \A c \in Closers : fin'[j][c] \in {"idle", "audit"}
    BY <1>1, <1>4, <2>1 DEF Unended, Calm
  <2> QED
    BY <1>1, <2>2, <2>3 DEF Counted
<1> QED
  BY <1>3, <1>4 DEF Passes

\* The saves.
LEMMA CountedSaves ==
  ASSUME TypeOK, NEW j \in Jobs, Orderly(j), Counted(j), Saves(j) \/ Ends(j) \/ Closes(j)
  PROVE  Counted(j)'
<1> fin[j] \in [Closers -> {"idle", "audit", "save", "end"}]
  BY DEF TypeOK, ProgramsType
<1>1. CASE Saves(j)
  <2>1. /\ UNCHANGED <<sub[j], req[j], fin[j], terminals[j], spawned[j]>>
        /\ (j \in active' <=> j \in active) /\ run[j] \in {"starting", "running"}
    BY <1>1 DEF Saves, SameAsk, SameClose
  <2>2. ~(spawned[j] > 0)
    BY <2>1 DEF Counted, Ran, Past, Calm
  <2> QED
    BY <2>1, <2>2 DEF Counted, Unended
<1>2. CASE Ends(j)
  BY <1>2 DEF Ends, SameAsk, Counted, Unended, Ran, Past, Calm
<1>3. CASE Closes(j)
  <2>1. /\ UNCHANGED <<sub[j], req[j], run[j], terminals[j], spawned[j]>>
        /\ (j \in active' <=> j \in active)
    BY <1>3 DEF Closes, SameAsk, SameRun
  <2>2. PICK c \in Closers : fin[j][c] = "save" /\ fin'[j] = [fin[j] EXCEPT ![c] = "end"]
    BY <1>3 DEF Closes
  <2>3. run[j] = "idle" /\ ~Calm(j) /\ j \notin active
    BY <2>2 DEF Orderly, Calm, Counted
  <2>4. ~(spawned[j] > 0) /\ ~Unended(j)'
    BY <2>2, <2>3 DEF Counted, Ran, Past, Unended
  <2> QED
    BY <2>1, <2>3, <2>4 DEF Counted
<1> QED
  BY <1>1, <1>2, <1>3

\* The executor runs only what was accepted.
LEMMA CountedExecutes ==
  ASSUME TypeOK, NEW j \in Jobs, Orderly(j), Secured(j), Counted(j), Executes(j)
  PROVE  Counted(j)'
<1>1. /\ UNCHANGED <<sub[j], req[j], fin[j], terminals[j]>> /\ (j \in active' <=> j \in active)
      /\ spawned[j] \in Nat
  BY DEF Executes, SameAsk, SameClose, TypeOK, HistoryType
<1>2. CASE run[j] = "mode"
  <2>1. /\ sub[j] = "accepted" /\ req[j] # NoRequest
        /\ \A c \in Closers : fin[j][c] = "idle"
    BY <1>2 DEF Secured, Reached, Orderly
  <2>2. ~(spawned[j] > 0) /\ terminals[j] = 0
    BY <1>2, <2>1 DEF Counted, Ran, Past, Unended
  <2>3. run'[j] = "child" \/ (run'[j] = "blocked" /\ spawned'[j] = spawned[j])
    BY <1>2 DEF Executes, Orderly, Evident
  <2> QED
    BY <1>1, <2>1, <2>2, <2>3 DEF Counted, Ran, Unended
<1>3. CASE run[j] = "child" /\ run'[j] \in {"failed", "completed"} /\ UNCHANGED spawned[j]
  BY <1>1, <1>3 DEF Counted, Ran, Past, Unended, Calm
<1>4. CASE UNCHANGED <<run[j], spawned[j]>>
  BY <1>1, <1>4 DEF Counted, Ran, Past, Unended, Calm
<1> QED
  BY <1>2, <1>3, <1>4 DEF Executes

\* The end of run() writes the only event of a job that has run,
LEMMA CountedReports ==
  ASSUME TypeOK, NEW j \in Jobs, Orderly(j), Counted(j), Reports(j) PROVE Counted(j)'
<1>1. /\ UNCHANGED <<sub[j], req[j], fin[j], spawned[j]>> /\ (j \in active' <=> j \in active)
      /\ run[j] \in {"completed", "blocked", "failed", "orphan"} /\ run'[j] = "final"
      /\ \E ok \in BOOLEAN : Tells(j, ok)
      /\ terminals[j] \in Nat
  BY DEF Reports, SameAsk, TypeOK, HistoryType
<1>2. req[j] # NoRequest /\ \A c \in Closers : fin[j][c] = "idle"
  BY <1>1 DEF Orderly, Calm
<1>3. spawned[j] > 0 => Ran(j)' /\ terminals'[j] <= 1
  <2> SUFFICES ASSUME spawned[j] > 0 PROVE Ran(j)' /\ terminals'[j] <= 1
    OBVIOUS
  <2>1. sub[j] = "accepted"
    BY <1>1 DEF Counted, Ran, Past, Calm
  <2>2. terminals[j] = 0
    BY <1>1, <1>2, <2>1 DEF Counted, Unended
  <2> QED
    BY <1>1, <2>1, <2>2 DEF Ran, Tells
<1> QED
  BY <1>1, <1>2, <1>3 DEF Counted, Unended

\* and finishQueued writes none for it.
LEMMA CountedFinishes ==
  ASSUME TypeOK, NEW j \in Jobs, Orderly(j), Counted(j), Finishes(j) \/ IsStopped(j)
  PROVE  Counted(j)'
<1> fin[j] \in [Closers -> {"idle", "audit", "save", "end"}]
  BY DEF TypeOK, ProgramsType
<1>1. UNCHANGED <<sub[j], req[j], run[j], spawned[j]>>
  BY DEF Finishes, IsStopped, SameAsk, SameRun
<1>2. CASE Finishes(j)
  <2>1. PICK c \in Closers : fin[j][c] = "audit" /\ fin'[j] = [fin[j] EXCEPT ![c] = "save"]
    BY <1>2 DEF Finishes
  <2>2. run[j] = "idle" /\ ~Calm(j) /\ j \notin active'
    BY <1>2, <2>1 DEF Finishes, Orderly, Calm
  <2>3. ~(spawned[j] > 0) /\ ~Unended(j)' /\ req[j] # NoRequest
    BY <2>1, <2>2 DEF Counted, Ran, Past, Unended, Orderly
  <2> QED
    BY <1>1, <2>2, <2>3 DEF Counted
<1>3. CASE IsStopped(j)
  <2>1. j \in active /\ UNCHANGED terminals[j]
    BY <1>3 DEF IsStopped
  <2>2. CASE fin'[j] = fin[j]
    BY <1>1, <2>1, <2>2 DEF Counted, Unended, Ran, Past, Calm
  <2>3. CASE /\ rec[j].state = "queued" \/ run[j] = "idle"
             /\ \E c \in Closers : fin'[j] = [fin[j] EXCEPT ![c] = "audit"]
    <3>1. run[j] = "idle"
      BY <2>3 DEF Orderly, Calm
    <3>2. ~(spawned[j] > 0) /\ \A c \in Closers : fin[j][c] \in {"idle", "audit"}
      BY <2>1, <3>1 DEF Counted, Ran, Past
    <3>3. \A c \in Closers : fin'[j][c] \in {"idle", "audit"}
      BY <2>3, <3>2
    <3> QED
      BY <1>1, <2>1, <3>2, <3>3 DEF Counted, Unended
  <2> QED
    BY <1>3, <2>2, <2>3 DEF IsStopped
<1> QED
  BY <1>2, <1>3

\* So every step keeps the count.
LEMMA EventsStep ==
  ASSUME TypeOK, CourseInv, DurableInv, EventsInv, [Next]_vars PROVE EventsInv'
<1> SUFFICES ASSUME NEW j \in Jobs PROVE Counted(j)'
  BY DEF EventsInv
<1> Orderly(j) /\ Secured(j) /\ Counted(j) /\ Moves(j)
  BY StepMoves DEF CourseInv, DurableInv, EventsInv
<1> QED
  BY CountedAsks, CountedLife, CountedPasses, CountedSaves, CountedExecutes, CountedReports,
     CountedFinishes DEF Moves, Heard

\* Who writes the terminal events of a job, over all restarts.
THEOREM EventsInvariant == Spec => []EventsInv
<1>1. Init => EventsInv
  BY DEF Init, EventsInv, Counted
<1>2. TypeOK /\ CourseInv /\ DurableInv /\ EventsInv /\ [Next]_vars => EventsInv'
  BY EventsStep
<1> QED
  BY <1>1, <1>2, TypeCorrect, CourseInvariant, DurableInvariant, PTL DEF Spec

\* A job whose command was started never gets a second terminal event, however
\* completion, cancellation, expiry, shutdown, lost writes and restarts fall
\* together.
THEOREM EndsAreToldOnce == Spec => []OneTerminalPerRun
  BY EventsInvariant, EventsImply, PTL

-----------------------------------------------------------------------------
(* A finished job stays finished, and a removed one is over for good.        *)

Over(j) == /\ sub[j] \notin Pending /\ req[j] # NoRequest /\ run[j] \in {"idle", "end"}
           /\ j \notin active /\ \A c \in Closers : fin[j][c] \in {"idle", "end"}

Placed(j) ==
    /\ sub[j] \in {"save", "accepted"} /\ run[j] \notin {"idle", "end"} => j \in active
    /\ (\E c \in Closers : fin[j][c] # "idle") => rec[j].state \in Terminal
    /\ j \in forgotten => Over(j)

PlacesInv == \A j \in Jobs : Placed(j)

\* A terminal record stays one, unless the job is admitted anew or lost.
LEMMA RecordStays ==
  ASSUME TypeOK, NEW j \in Jobs, Orderly(j), rec[j].state \in Terminal, Moves(j), ~Enters(j),
         ~IsLost(j), ~IsRead(j)
  PROVE  rec'[j].state \in Terminal
<1> rec[j] \in Record
  BY DEF TypeOK, RecordsType
<1>1. run[j] \in {"idle", "orphan", "final", "end"} /\ rec[j].state # "queued"
      /\ rec[j].state \notin {"starting", "running"}
  BY DEF Orderly, Stage, Terminal, TypeOK, ProgramsType, RunSteps
<1>2. CASE Asks(j) \/ Rests(j) \/ IsDropped(j) \/ Closes(j)
  BY <1>2 DEF Asks, Rests, IsDropped, Closes
<1>3. CASE Passes(j) \/ Saves(j) \/ Executes(j)
  BY <1>1, <1>3 DEF Passes, Saves, Executes
<1>4. CASE Ends(j)
  BY <1>4, WithheldParts DEF Ends
<1>5. CASE Reports(j)
  <2>1. run[j] = "orphan"
    BY <1>1, <1>5 DEF Reports
  <2>2. PICK ok \in BOOLEAN :
           rec'[j] = Evidenced(IF ok THEN rec[j] ELSE [rec[j] EXCEPT !.audit = "unavailable"],
                               "storage", j \in aborted)
    BY <1>5, <2>1 DEF Reports
  <2>3. PICK r \in Record : /\ r.state = rec[j].state
                             /\ rec'[j] = Evidenced(r, "storage", j \in aborted)
    <3>1. /\ [rec[j] EXCEPT !.audit = "unavailable"] \in Record
          /\ [rec[j] EXCEPT !.audit = "unavailable"].state = rec[j].state
      BY SetAudit DEF Record
    <3> QED
      BY <2>2, <3>1
  <2> QED
    BY <2>3, EvidencedParts
<1>6. CASE Finishes(j)
  <2>1. rec'[j].state = rec[j].state
    BY <1>6 DEF Finishes, Record
  <2> QED
    BY <2>1
<1>7. CASE IsStopped(j)
  BY <1>1, <1>7 DEF IsStopped, Record, Terminal
<1> QED
  BY <1>2, <1>3, <1>4, <1>5, <1>6, <1>7 DEF Moves, Heard

\* What is over stays so.
LEMMA OverStays == ASSUME NEW j \in Jobs, Over(j), Moves(j) PROVE Over(j)'
<1>1. CASE Rests(j) \/ IsRead(j)
  BY <1>1 DEF Over, Rests, IsRead, SameAsk, SameRun, SameClose
<1>2. CASE IsLost(j)
  BY <1>2 DEF Over, IsLost, Pending
<1>3. CASE Executes(j)
  BY <1>3 DEF Over, Executes, SameAsk, SameClose
<1>4. CASE Passes(j)
  BY <1>4 DEF Over, Passes, Pending
<1>5. ~(Asks(j) \/ Enters(j) \/ IsDropped(j) \/ Saves(j) \/ Ends(j) \/ Closes(j) \/ Reports(j)
        \/ Finishes(j) \/ IsStopped(j)) \/ Over(j)'
  <2>1. ~(Asks(j) \/ Enters(j) \/ IsDropped(j))
    BY DEF Over, Asks, Enters, IsDropped, Pending
  <2>2. ~(Saves(j) \/ Ends(j) \/ Reports(j))
    BY DEF Over, Saves, Ends, Reports
  <2>3. ~(Closes(j) \/ Finishes(j) \/ IsStopped(j))
    BY DEF Over, Closes, Finishes, IsStopped
  <2> QED
    BY <2>1, <2>2, <2>3
<1> QED
  BY <1>1, <1>2, <1>3, <1>4, <1>5 DEF Moves, Heard

\* Only aged records are removed, and their jobs are over.
LEMMA OnlyAgedGo == ASSUME TypeOK, [Next]_vars PROVE forgotten' \subseteq forgotten \cup Aged
<1>1. CASE Storing
  BY <1>1 DEF Storing, StoreBegins, StoreCommits, StoreFails, StoreTimesOut, StoreEndsLate,
     StoreRefuses, Persist, Rejected, Overran, Forgets, Removable
<1>2. CASE BootCompletes
  BY <1>2 DEF BootCompletes
<1>3. CASE QuietStep
  BY <1>3, QuietFiles DEF FilesStay
<1>4. CASE \E j \in Jobs, ok \in BOOLEAN, c \in Closers :
              \/ CompletionAudited(j, ok) \/ FailureAudited(j, ok) \/ OrphanAudited(j, ok)
              \/ FinishAudited(j, c, ok)
  BY <1>4 DEF CompletionAudited, FailureAudited, OrphanAudited, FinishAudited, RunFrame
<1>5. CASE \E j \in Jobs : (\E r \in Requests : Submit(j, r)) \/ Admit(j) \/ BootReads(j)
  BY <1>5 DEF Submit, Admit, SubmissionFrame, BootReads
<1>6. CASE \/ Pump \/ PumpResumes \/ PumpCleans \/ Shutdown \/ Stop \/ Restart
           \/ UNCHANGED vars
  BY <1>6 DEF Pump, PumpResumes, PumpFrame, PumpCleans, Shutdown, Stop, Restart, vars
<1>7. "none" \in Outcomes /\ TRUE \in BOOLEAN /\ "client" \in Closers
  BY DEF Outcomes, Closers
<1> QED
  BY <1>1, <1>2, <1>3, <1>4, <1>5, <1>6, <1>7
  DEF Next, Client, Submission, Running, Finishing, Pumping, QuietStep, JobSteps, Lifecycle,
      Exit, Crash, Boot

\* So every step keeps jobs in their places.
LEMMA PlacesStep ==
  ASSUME TypeOK, RecoveryInv, CourseInv, PlacesInv, [Next]_vars PROVE PlacesInv'
<1> SUFFICES ASSUME NEW j \in Jobs PROVE Placed(j)'
  BY DEF PlacesInv
<1> Orderly(j) /\ Moves(j) /\ Placed(j) /\ Identity(j)
  BY StepMoves DEF CourseInv, PlacesInv, RecoveryInv
<1> rec[j] \in Record /\ fin[j] \in [Closers -> {"idle", "audit", "save", "end"}]
  BY DEF TypeOK, RecordsType, ProgramsType
<1>1. sub'[j] \in {"save", "accepted"} /\ run'[j] \notin {"idle", "end"} => j \in active'
  <2>1. sub[j] = "recheck" => run[j] = "idle"
    BY DEF Orderly, Calm
  <2>2. sub[j] \in {"idle", "attempt", "refusing"} => run[j] = "idle"
    BY DEF Orderly, Calm
  <2>3. (\E c \in Closers : fin[j][c] = "audit") => run[j] = "idle"
    BY DEF Orderly
  <2> QED
    BY <2>1, <2>2, <2>3 DEF Placed, Moves, Heard, Rests, Asks, Enters, Passes, IsDropped, Saves,
       Ends, Closes, Executes, Reports, Finishes, IsStopped, IsLost, IsRead, SameAsk, SameRun,
       SameClose
<1>2. (\E c \in Closers : fin'[j][c] # "idle") => rec'[j].state \in Terminal
  <2>1. CASE IsLost(j) \/ Enters(j)
    <3>1. \A c \in Closers : fin'[j][c] = "idle"
      BY <2>1 DEF IsLost, Enters, Orderly, Calm
    <3> QED
      BY <3>1
  <2>2. CASE IsRead(j)
    <3>1. \A c \in Closers : fin[j][c] = "idle"
      BY <2>2 DEF IsRead, RecoveryInv, Waking, Asleep, Orderly, Calm
    <3> QED
      BY <2>2, <3>1 DEF IsRead, SameClose
  <2>3. CASE fin'[j] # fin[j] /\ \A c \in Closers : fin[j][c] = "idle"
    <3>1. \A c \in Closers : fin[j][c] \notin {"save", "audit"}
      BY <2>3
    <3>2. Passes(j) \/ IsStopped(j) \/ IsLost(j)
      BY <2>3, <3>1 DEF Moves, Heard, Rests, Asks, Enters, IsDropped, Saves, Ends, Closes,
         Executes, Reports, Finishes, IsRead, SameClose
    <3>3. rec'[j].state \in {"failed", "cancelled"} \/ IsLost(j)
      BY <2>3, <3>2 DEF Passes, IsStopped, Record
    <3> QED
      BY <2>1, <3>3 DEF Terminal
  <2>4. CASE rec[j].state \in Terminal /\ ~IsLost(j) /\ ~Enters(j) /\ ~IsRead(j)
    BY <2>4, RecordStays
  <2> QED
    BY <2>1, <2>2, <2>3, <2>4 DEF Placed
<1>3. j \in forgotten' => Over(j)'
  <2>1. j \in Aged => Over(j)
    <3>1. j \in Aged => /\ j \notin active /\ sub[j] \notin Pending /\ run[j] \in {"idle", "end"}
                        /\ \A c \in Closers : fin[j][c] \in {"idle", "end"} /\ j \in known
      BY DEF Aged
    <3>2. j \in known => req[j] # NoRequest
      BY DEF Identity, Present, Touched, InMemory
    <3> QED
      BY <3>1, <3>2, "client" \in Closers DEF Over, Closers
  <2> QED
    BY <2>1, OnlyAgedGo, OverStays DEF Placed
<1> QED
  BY <1>1, <1>2, <1>3 DEF Placed

\* Jobs stay in their places throughout.
THEOREM PlacesInvariant == Spec => []PlacesInv
<1>1. Init => PlacesInv
  BY DEF Init, PlacesInv, Placed
<1>2. TypeOK /\ RecoveryInv /\ CourseInv /\ PlacesInv /\ [Next]_vars => PlacesInv'
  BY PlacesStep
<1> QED
  BY <1>1, <1>2, TypeCorrect, RecoveryInvariant, CourseInvariant, PTL DEF Spec

\* A job that a client was told is finished is never unfinished again while
\* the service knows it, whatever cancel, shutdown and the pump do to it late.
THEOREM FinishedStaysFinished == Spec => ClosedStaysClosed
<1>1. ASSUME TypeOK, RecoveryInv, RecoveryInv', CourseInv, [Next]_vars, NEW j \in Jobs,
             j \in known, rec[j].state \in Terminal, j \in known'
      PROVE  rec'[j].state \in Terminal
  <2>1. Orderly(j) /\ Identity(j) /\ Moves(j)
    BY <1>1, StepMoves DEF CourseInv, RecoveryInv
  <2>2. ~Enters(j)
    BY <1>1, <2>1 DEF Enters, Identity, Early, Touched, InMemory
  <2>3. ~IsLost(j) /\ ~IsRead(j)
    BY <1>1 DEF IsLost, IsRead, RecoveryInv, Waking
  <2> QED
    BY <1>1, <2>1, <2>2, <2>3, RecordStays
<1>2. TypeOK /\ RecoveryInv /\ RecoveryInv' /\ CourseInv /\ [Next]_vars
         => [\A j \in Jobs : j \in known /\ rec[j].state \in Terminal /\ j \in known'
                => rec'[j].state \in Terminal]_vars
  BY <1>1
<1> QED
  BY <1>2, TypeCorrect, RecoveryInvariant, CourseInvariant, PTL DEF Spec, ClosedStaysClosed

-----------------------------------------------------------------------------
(* Output that a client can read is on disk.  A result is published after    *)
(* its terminal event, by the end of run(), and what the last save wrote is  *)
(* that very record; when it may not have been written, the result is        *)
(* withheld.  The file of a job goes one way: from unfinished to finished.   *)

Spent(j) == spawned[j] = 1 /\ terminals[j] = 1
Backed(j, r) == r.result => r.state \in Terminal /\ Spent(j)

\* Its last save is through.
Ended(j) == run[j] = "end" \/ \E c \in Closers : fin[j][c] = "end"

Shown(j) ==
    /\ Backed(j, rec[j]) /\ Backed(j, disk[j])
    /\ run[j] \in {"child", "completed"} => spawned[j] = 1
    /\ rec[j].result /\ run[j] = "final" =>
          j \in known /\ j \in active /\ disk[j].state = "running"
    /\ rec[j].result /\ run[j] # "final" /\ j \in known => disk[j] = rec[j]
    /\ disk[j].result => run[j] # "final"
    /\ disk[j].state \in Terminal => rec[j].state \in Terminal \cup {"absent"}
    /\ j \in known /\ rec[j].state \in Terminal /\ (Calm(j) \/ (~storeFailed /\ Ended(j)))
          => disk[j].state \in Terminal

\* What the operation o of job j that is in progress will write.
Carried(j, o) ==
    /\ Backed(j, snap)
    /\ head = "busy" /\ o = "final" => snap = rec[j]
    /\ head = "busy" /\ o \in Closers \cup {"final"} => snap.state \in Terminal
    /\ snap.state \in Terminal => rec[j].state \in Terminal
    /\ disk[j].state \in Terminal => snap.state \in Terminal
    /\ head = "late" => /\ ~rec[j].result /\ ~disk[j].result
                        /\ snap.result => disk[j].state = "running" /\ run[j] # "final"

HeadInv == head # "idle" /\ storeQ[1].op # "cleanup" => Carried(storeQ[1].job, storeQ[1].op)

OutputInv == HeadInv /\ \A j \in Jobs : Shown(j)

\* The invariant implies what output() promises.
LEMMA OutputImplies == OutputInv => OutputIsDurable
<1> SUFFICES ASSUME OutputInv, NEW j \in Jobs, Readable(j)
             PROVE  disk[j] = rec[j] /\ spawned[j] = 1 /\ terminals[j] = 1
  BY DEF OutputIsDurable
<1>1. Shown(j) /\ j \in known /\ j \notin active /\ rec[j].result
  BY DEF OutputInv, Readable
<1> QED
  BY <1>1 DEF Shown, Backed, Spent

\* Where a job is whose command ran and whose terminal event is written.
LEMMA SpentPlace ==
  ASSUME NEW j \in Jobs, Orderly(j), Counted(j), Spent(j)
  PROVE  /\ sub[j] \in {"idle", "accepted"} /\ run[j] \in {"idle", "final", "end"}
         /\ req[j] # NoRequest /\ \A c \in Closers : fin[j][c] = "idle"
         /\ run[j] = "idle" => j \notin active
<1>1. terminals[j] # 0 /\ spawned[j] > 0
  BY DEF Spent
<1>2. CASE Ran(j)
  <2>1. \A c \in Closers : fin[j][c] = "idle"
    BY <1>2 DEF Orderly, Ran
  <2>2. run[j] \in {"final", "end"}
    BY <1>1, <1>2, <2>1 DEF Counted, Ran, Unended
  <2> QED
    BY <1>1, <1>2, <2>1, <2>2 DEF Counted, Ran
<1>3. CASE Past(j)
  BY <1>1, <1>3 DEF Counted, Past, Calm
<1> QED
  BY <1>1, <1>2, <1>3 DEF Counted

\* It stays so, and its record only changes when its result is withheld.
LEMMA SpentStays ==
  ASSUME TypeOK, NEW j \in Jobs, Orderly(j), Counted(j), Spent(j), Moves(j)
  PROVE  /\ Spent(j)'
         /\ rec[j].state \in Terminal /\ ~IsLost(j) /\ ~IsRead(j) =>
               \/ UNCHANGED <<rec[j], run[j]>> /\ (j \in active' <=> j \in active)
               \/ Ends(j)
<1>1. /\ sub[j] \in {"idle", "accepted"} /\ run[j] \in {"idle", "final", "end"}
      /\ req[j] # NoRequest /\ \A c \in Closers : fin[j][c] = "idle"
      /\ run[j] = "idle" => j \notin active
  BY SpentPlace
<1>2. ~(Asks(j) \/ Enters(j) \/ IsDropped(j) \/ Saves(j) \/ Closes(j) \/ Reports(j)
        \/ Finishes(j))
  <2>1. ~(Asks(j) \/ Enters(j) \/ IsDropped(j))
    BY <1>1 DEF Asks, Enters, IsDropped
  <2>2. ~(Saves(j) \/ Reports(j))
    BY <1>1 DEF Saves, Reports
  <2>3. ~(Closes(j) \/ Finishes(j))
    BY <1>1 DEF Closes, Finishes
  <2> QED
    BY <2>1, <2>2, <2>3
<1>3. rec[j].state \in Terminal => rec[j].state \notin {"queued", "starting", "running"}
  BY DEF Terminal
<1>4. UNCHANGED <<spawned[j], terminals[j]>>
  BY <1>1, <1>2 DEF Moves, Heard, Rests, Passes, Ends, Executes, IsStopped, IsLost, IsRead,
     SameAsk, SameRun, SameClose
<1>5. rec[j].state \in Terminal /\ ~IsLost(j) /\ ~IsRead(j) /\ ~Ends(j) =>
         UNCHANGED <<rec[j], run[j]>> /\ (j \in active' <=> j \in active)
  BY <1>1, <1>2, <1>3 DEF Moves, Heard, Rests, Passes, Executes, IsStopped, SameAsk, SameRun,
     SameClose
<1> QED
  BY <1>4, <1>5 DEF Spent

\* So what is backed stays backed.
LEMMA BackedStays ==
  ASSUME TypeOK, NEW j \in Jobs, Orderly(j), Counted(j), Moves(j), NEW r, Backed(j, r)
  PROVE  r.result => r.state \in Terminal /\ Spent(j)'
  BY SpentStays DEF Backed

\* A result is kept or withheld; a new one comes from a completion only.
LEMMA ResultMoves ==
  ASSUME TypeOK, NEW j \in Jobs, Orderly(j), Counted(j), Shown(j), Moves(j), ~IsLost(j),
         ~IsRead(j), rec'[j].result
  PROVE  \/ /\ rec[j].result /\ rec'[j] = rec[j]
            /\ \/ Ends(j)
               \/ run'[j] = run[j] /\ (j \in active' <=> j \in active)
         \/ /\ run[j] = "completed" /\ run'[j] = "final" /\ Reports(j)
            /\ rec'[j].state \in Terminal /\ Spent(j)'
<1> rec[j] \in Record
  BY DEF TypeOK, RecordsType
<1>1. CASE rec[j].result
  <2>1. rec[j].state \in Terminal /\ Spent(j)
    BY <1>1 DEF Shown, Backed
  <2>2. Ends(j) => rec'[j] = rec[j]
    BY WithheldParts DEF Ends
  <2> QED
    BY <1>1, <2>1, <2>2, SpentStays
<1>2. CASE ~rec[j].result
  <2>1. ~(Asks(j) \/ Rests(j) \/ IsDropped(j) \/ Closes(j) \/ Enters(j))
    BY <1>2 DEF Asks, Rests, IsDropped, Closes, Enters, NewRecord, NoRecord
  <2>2. ~(Passes(j) \/ Executes(j) \/ Finishes(j) \/ IsStopped(j))
    <3>1. ~Passes(j)
      BY <1>2 DEF Passes, Record
    <3>2. ~Executes(j)
      BY <1>2 DEF Executes, Record
    <3>3. ~Finishes(j)
      BY <1>2 DEF Finishes, Record
    <3>4. ~IsStopped(j)
      BY <1>2 DEF IsStopped, Record
    <3> QED
      BY <3>1, <3>2, <3>3, <3>4
  <2>3. ~(Saves(j) \/ Ends(j))
    <3>1. ~Saves(j)
      BY <1>2, CaughtParts DEF Saves, Record
    <3>2. ~Ends(j)
      BY <1>2, WithheldParts DEF Ends
    <3> QED
      BY <3>1, <3>2
  <2>4. Reports(j)
    BY <2>1, <2>2, <2>3 DEF Moves, Heard
  <2>5. PICK ok \in BOOLEAN :
          /\ Tells(j, ok)
          /\ \/ /\ run[j] = "completed"
                /\ rec'[j] = IF ok THEN Published(rec[j], outcome[j])
                             ELSE Evidenced(Caught(rec[j], "audit", j \in aborted), "audit",
                                            j \in aborted)
             \/ /\ run[j] \in {"blocked", "failed"}
                /\ \E err \in {IF ok THEN outcome[j] ELSE "audit"} :
                      rec'[j] = Evidenced(Caught(rec[j], err, j \in aborted), err,
                                          j \in aborted)
             \/ /\ run[j] = "orphan"
                /\ rec'[j] = Evidenced(IF ok THEN rec[j]
                                       ELSE [rec[j] EXCEPT !.audit = "unavailable"],
                                       "storage", j \in aborted)
    BY <2>4 DEF Reports
  <2>6. run[j] # "orphan"
    <3> SUFFICES ASSUME run[j] = "orphan" PROVE FALSE
      OBVIOUS
    <3>1. PICK r \in Record : r.result = rec[j].result
                              /\ rec'[j] = Evidenced(r, "storage", j \in aborted)
      <4>1. /\ [rec[j] EXCEPT !.audit = "unavailable"] \in Record
            /\ [rec[j] EXCEPT !.audit = "unavailable"].result = rec[j].result
        BY SetAudit DEF Record
      <4> QED
        BY <2>5, <4>1
    <3> QED
      BY <1>2, <3>1, EvidencedParts
  <2>7. run[j] = "completed" /\ ok
    BY <2>5, <2>6, FailedParts
  <2>8. spawned[j] = 1 /\ spawned'[j] = 1
    BY <2>4, <2>7 DEF Shown, Reports
  <2>9. terminals[j] = 0
    BY <2>7, <2>8 DEF Counted, Ran, Past, Calm, Unended, Orderly
  <2> QED
    BY <2>4, <2>5, <2>7, <2>8, <2>9, PublishedParts DEF Tells, Spent, Reports
<1> QED
  BY <1>1, <1>2

\* A job with a finished file is finished in memory, or not in memory.
LEMMA FileAhead ==
  ASSUME TypeOK, NEW j \in Jobs, Orderly(j), Placed(j), Identity(j), Moves(j), ~IsLost(j),
         ~IsRead(j), disk[j].state \in Terminal, rec[j].state \in Terminal \cup {"absent"}
  PROVE  rec'[j].state \in Terminal \cup {"absent"}
<1>1. ~Enters(j)
  BY DEF Enters, Identity, Early, Touched, Terminal
<1>2. CASE rec[j].state = "absent"
  <2>1. run[j] = "idle" /\ \A c \in Closers : fin[j][c] = "idle"
    BY <1>2 DEF Orderly, Placed, Stage, Terminal, TypeOK, ProgramsType, RunSteps
  <2>2. ~(Saves(j) \/ Ends(j) \/ Reports(j) \/ Finishes(j))
    BY <2>1 DEF Saves, Ends, Reports, Finishes
  <2>3. rec[j] \in Record
    BY DEF TypeOK, RecordsType
  <2>4. rec'[j] = rec[j] \/ rec'[j].state = "cancelled"
    BY <1>1, <1>2, <2>1, <2>2, <2>3 DEF Moves, Heard, Rests, Asks, Passes, IsDropped, Closes,
       Executes, IsStopped, Record
  <2> QED
    BY <1>2, <2>4 DEF Terminal
<1> QED
  BY <1>1, <1>2, RecordStays

\* Nothing has begun for a job when nothing has begun after the step,
LEMMA CalmMoves ==
  ASSUME TypeOK, NEW j \in Jobs, Moves(j), ~IsLost(j), ~IsRead(j), Calm(j)',
         rec'[j].state \in Terminal
  PROVE  Calm(j) /\ rec'[j] = rec[j] /\ ~Enters(j)
<1> rec[j] \in Record /\ fin[j] \in [Closers -> {"idle", "audit", "save", "end"}]
  BY DEF TypeOK, RecordsType, ProgramsType
<1>1. run'[j] = "idle" /\ \A c \in Closers : fin'[j][c] = "idle"
  BY DEF Calm
<1>2. "queued" \notin Terminal /\ "starting" \notin Terminal /\ "running" \notin Terminal
  BY DEF Terminal
<1>3. ~(Enters(j) \/ Reports(j) \/ Saves(j) \/ Ends(j))
  BY <1>1, <1>2 DEF Enters, NewRecord, NoRecord, Reports, Saves, Ends
<1>4. ~(Finishes(j) \/ Closes(j))
  BY <1>1 DEF Finishes, Closes
<1>5. CASE Passes(j)
  <2>1. "pump" \in Closers
    BY DEF Closers
  <2> QED
    BY <1>1, <1>5, <2>1, <1>3 DEF Passes, Calm
<1>6. CASE IsStopped(j)
  <2>1. fin'[j] = fin[j] /\ rec[j].state \in {"starting", "running"}
        /\ rec'[j] = [rec[j] EXCEPT !.term = "requested"]
    BY <1>1, <1>6 DEF IsStopped
  <2> QED
    BY <1>2, <2>1 DEF Record
<1>7. CASE Rests(j) \/ Asks(j) \/ IsDropped(j) \/ Executes(j)
  BY <1>1, <1>3, <1>7 DEF Rests, Asks, IsDropped, Executes, SameRun, SameClose, Calm
<1> QED
  BY <1>3, <1>4, <1>5, <1>6, <1>7 DEF Moves, Heard

\* and its last save is through only when the store answered it.
LEMMA EndedMoves ==
  ASSUME TypeOK, NEW j \in Jobs, Moves(j), ~IsLost(j), Ended(j)'
  PROVE  \/ Ended(j)
         \/ run[j] = "final" /\ run'[j] = "end"
         \/ \E c \in Closers : fin[j][c] = "save" /\ fin'[j][c] = "end"
<1> fin[j] \in [Closers -> {"idle", "audit", "save", "end"}]
  BY DEF TypeOK, ProgramsType
<1>1. run'[j] = "end" => run[j] = "end" \/ (run[j] = "final" /\ run'[j] = "end")
  BY DEF Moves, Heard, Rests, Asks, Enters, Passes, IsDropped, Saves, Ends, Closes, Executes,
     Reports, Finishes, IsStopped, IsRead, SameRun
<1>2. ASSUME NEW c \in Closers, fin'[j][c] = "end"
      PROVE  fin[j][c] = "end" \/ (fin[j][c] = "save" /\ fin'[j][c] = "end")
  BY <1>2 DEF Moves, Heard, Rests, Asks, Enters, Passes, IsDropped, Saves, Ends, Closes, Executes,
     Reports, Finishes, IsStopped, IsRead, SameClose
<1> QED
  BY <1>1, <1>2 DEF Ended

\* A job whose last save is through, or of which nothing has begun, and which
\* is finished after the step, was finished before it or is finished by it.
LEMMA EndedRecord ==
  ASSUME NEW j \in Jobs, Orderly(j), Placed(j), Ended(j) PROVE rec[j].state \in Terminal
<1>1. CASE run[j] = "end"
  BY <1>1 DEF Orderly, Stage
<1>2. CASE \E c \in Closers : fin[j][c] = "end"
  BY <1>2 DEF Placed
<1> QED
  BY <1>1, <1>2 DEF Ended

\* Whatever does not touch the files shows what was shown.
LEMMA ShownRests ==
  ASSUME TypeOK, NEW j \in Jobs, Orderly(j), Counted(j), Placed(j), Identity(j), Secured(j),
         JobInv(j), Shown(j), Moves(j), ~IsLost(j), ~IsRead(j), ~Ends(j), ~Closes(j),
         UNCHANGED <<disk[j], storeFailed>>,
         j \in known' => j \in known \/ Enters(j), j \in known => j \in known'
  PROVE  Shown(j)'
<1>1. Backed(j, rec[j])' /\ Backed(j, disk[j])'
  <2>1. rec'[j].result => rec'[j].state \in Terminal /\ Spent(j)'
    BY ResultMoves, BackedStays DEF Shown, Backed
  <2>2. disk[j].result => disk[j].state \in Terminal /\ Spent(j)'
    BY BackedStays DEF Shown
  <2> QED
    BY <2>1, <2>2 DEF Backed
<1>2. run'[j] \in {"child", "completed"} => spawned'[j] = 1
  BY DEF Moves, Heard, Rests, Asks, Enters, Passes, IsDropped, Saves, Executes, Reports, Finishes,
     IsStopped, SameRun, Shown, JobInv, Orderly, Evident
<1>3. rec'[j].result /\ run'[j] = "final" =>
         j \in known' /\ j \in active' /\ disk[j].state = "running"
  <2> SUFFICES ASSUME rec'[j].result, run'[j] = "final"
               PROVE  j \in known' /\ j \in active' /\ disk[j].state = "running"
    OBVIOUS
  <2>1. CASE run[j] = "completed" /\ Reports(j)
    <3>1. j \in known /\ sub[j] = "accepted" /\ disk[j].state = "running"
      BY <2>1 DEF Secured, Reached
    <3>2. j \in active /\ (j \in active' <=> j \in active)
      BY <2>1, <3>1 DEF Placed, Reports
    <3> QED
      BY <3>1, <3>2
  <2>2. CASE rec[j].result /\ run'[j] = run[j] /\ (j \in active' <=> j \in active)
    BY <2>2 DEF Shown
  <2> QED
    BY <2>1, <2>2, ResultMoves
<1>4. rec'[j].result /\ run'[j] # "final" /\ j \in known' => disk[j] = rec'[j]
  <2> SUFFICES ASSUME rec'[j].result, run'[j] # "final", j \in known' PROVE disk[j] = rec'[j]
    OBVIOUS
  <2>1. rec[j].result /\ rec'[j] = rec[j] /\ run'[j] = run[j]
    BY ResultMoves
  <2>2. ~Enters(j)
    BY DEF Enters, NewRecord, NoRecord
  <2> QED
    BY <2>1, <2>2 DEF Shown
<1>5. disk[j].result => run'[j] # "final"
  <2> SUFFICES ASSUME disk[j].result, run'[j] = "final" PROVE FALSE
    OBVIOUS
  <2>1. Spent(j) /\ run[j] # "final"
    BY DEF Shown, Backed
  <2>2. run[j] \in {"idle", "end"}
    BY <2>1, SpentPlace
  <2> QED
    BY <2>2 DEF Moves, Heard, Rests, Asks, Enters, Passes, IsDropped, Saves, Executes, Reports,
       Finishes, IsStopped, SameRun
<1>6. disk[j].state \in Terminal => rec'[j].state \in Terminal \cup {"absent"}
  BY FileAhead DEF Shown
<1>7. j \in known' /\ rec'[j].state \in Terminal /\ (Calm(j)' \/ (~storeFailed' /\ Ended(j)'))
         => disk[j].state \in Terminal
  <2> SUFFICES ASSUME j \in known', rec'[j].state \in Terminal,
                      Calm(j)' \/ (~storeFailed' /\ Ended(j)')
               PROVE  disk[j].state \in Terminal
    OBVIOUS
  <2>1. ~Enters(j)
    BY DEF Enters, NewRecord, NoRecord, Terminal
  <2>2. CASE Calm(j)'
    BY <2>1, <2>2, CalmMoves DEF Shown
  <2>3. CASE ~storeFailed' /\ Ended(j)'
    <3>1. Ended(j) \/ \E c \in Closers : fin[j][c] = "save" /\ fin'[j][c] = "end"
      <4>1. ~(run[j] = "final" /\ run'[j] = "end")
        BY DEF Moves, Heard, Rests, Asks, Enters, Passes, IsDropped, Saves, Executes, Reports,
           Finishes, IsStopped, SameRun
      <4> QED
        BY <2>3, <4>1, EndedMoves
    <3>2. ~\E c \in Closers : fin[j][c] = "save" /\ fin'[j][c] = "end"
      <4> fin[j] \in [Closers -> {"idle", "audit", "save", "end"}]
        BY DEF TypeOK, ProgramsType
      <4> QED
        BY DEF Moves, Heard, Rests, Asks, Enters, Passes, IsDropped, Saves, Executes, Reports,
           Finishes, IsStopped, SameClose
    <3> QED
      BY <2>1, <2>3, <3>1, <3>2, EndedRecord DEF Shown
  <2> QED
    BY <2>2, <2>3
<1> QED
  BY <1>1, <1>2, <1>3, <1>4, <1>5, <1>6, <1>7 DEF Shown

\* A step that leaves the store alone: what is in progress goes on, and who
\* waits for an answer waits.
Apart ==
    /\ UNCHANGED <<disk, head, snap, storeFailed>>
    /\ head # "idle" => storeQ'[1] = storeQ[1]
    /\ \A k \in Jobs : /\ WaitsOn(k) /\ ~IsLost(k) /\ ~IsRead(k)
                       /\ k \in known' => k \in known \/ Enters(k)
                       /\ k \in known => k \in known'

\* A run that is over does not come to its last save again.
LEMMA OverRuns ==
  ASSUME NEW j \in Jobs, Orderly(j), Counted(j), Spent(j), run[j] # "final", Moves(j)
  PROVE  run'[j] # "final"
<1>1. run[j] \in {"idle", "end"}
  BY SpentPlace
<1> QED
  BY <1>1 DEF Moves, Heard, Rests, Asks, Enters, Passes, IsDropped, Saves, Ends, Closes, Executes,
     Reports, Finishes, IsStopped, IsLost, IsRead, SameRun

\* The record of a job at its last save is not changed.
LEMMA FinalRests ==
  ASSUME NEW j \in Jobs, Orderly(j), Moves(j), run[j] = "final", run'[j] = "final",
         ~IsLost(j), ~IsRead(j)
  PROVE  rec'[j] = rec[j]
<1>1. rec[j].state \in Terminal /\ \A c \in Closers : fin[j][c] = "idle"
  BY DEF Orderly, Stage
<1>2. rec[j].state \notin {"queued", "starting", "running"}
  BY <1>1 DEF Terminal
<1>3. sub[j] # "recheck"
  BY DEF Orderly, Calm
<1>4. ~(Finishes(j) \/ IsStopped(j) \/ Enters(j))
  BY <1>1, <1>2, <1>3 DEF Finishes, IsStopped, Enters
<1>5. ~(Reports(j) \/ Saves(j) \/ Ends(j))
  BY DEF Reports, Saves, Ends
<1> QED
  BY <1>2, <1>4, <1>5 DEF Moves, Heard, Asks, Rests, Passes, IsDropped, Closes, Executes

\* What the operation in progress will write does not change meanwhile,
LEMMA HeadApart ==
  ASSUME TypeOK, RecoveryInv, CourseInv, DurableInv, EventsInv, OutputInv, Apart,
         \A k \in Jobs : Moves(k)
  PROVE  HeadInv'
<1> SUFFICES ASSUME NEW j, NEW o, j = storeQ[1].job, o = storeQ[1].op, head # "idle",
                    o # "cleanup"
             PROVE  Carried(j, o)'
  BY DEF HeadInv, Apart
<1>1. /\ j \in Jobs /\ storeQ[1] \in Tickets /\ 1 \in 1 .. Len(storeQ) /\ Carries(storeQ, j)
  BY HeadParts DEF Tickets
<1>2. Carried(j, o) /\ Shown(j) /\ Orderly(j) /\ Counted(j) /\ Identity(j) /\ Moves(j)
      /\ WaitsOn(j) /\ ~IsLost(j) /\ ~IsRead(j)
  BY <1>1 DEF OutputInv, HeadInv, CourseInv, EventsInv, RecoveryInv, Apart
<1>3. snap' = snap /\ disk' = disk /\ head' = head
  BY DEF Apart
<1>4. snap.result => snap.state \in Terminal /\ Spent(j)'
  BY <1>1, <1>2, BackedStays DEF Carried
<1>5. head = "busy" /\ o = "final" => snap = rec'[j]
  <2> SUFFICES ASSUME head = "busy", o = "final" PROVE rec'[j] = rec[j]
    BY <1>2 DEF Carried
  <2>1. storeQ[1] \in Awaits
    BY <1>1 DEF RecoveryInv, QueueInv, Sound, First
  <2>2. run[j] = "final" /\ run'[j] = "final"
    BY <1>2, <2>1 DEF Awaits, WaitsOn
  <2> QED
    BY <1>1, <1>2, <2>2, FinalRests
<1>6. snap.state \in Terminal => rec'[j].state \in Terminal
  <2>1. ~Enters(j)
    BY <1>1, <1>2 DEF Enters, Identity, Early, Touched, InMemory
  <2> QED
    BY <1>1, <1>2, <2>1, RecordStays DEF Carried
<1>7. head = "late" => ~rec'[j].result
  <2> SUFFICES ASSUME head = "late" PROVE ~rec'[j].result
    OBVIOUS
  <2>1. ~rec[j].result /\ run[j] # "completed"
    BY <1>2 DEF Carried, DurableInv, Abandoned, Reached
  <2> QED
    BY <1>1, <1>2, <2>1, ResultMoves
<1>8. head = "late" /\ snap.result => run'[j] # "final"
  <2> SUFFICES ASSUME head = "late", snap.result PROVE run'[j] # "final"
    OBVIOUS
  <2>1. Spent(j) /\ run[j] # "final"
    BY <1>2 DEF Carried, Backed
  <2> QED
    BY <1>1, <1>2, <2>1, OverRuns
<1> QED
  BY <1>2, <1>3, <1>4, <1>5, <1>6, <1>7, <1>8 DEF Carried, Backed

\* nor what the files show.
LEMMA ApartShows ==
  ASSUME TypeOK, StartInv, RecoveryInv, CourseInv, DurableInv, EventsInv, PlacesInv, OutputInv,
         Apart, \A k \in Jobs : Moves(k)
  PROVE  OutputInv'
<1>1. ASSUME NEW k \in Jobs PROVE Shown(k)'
  <2>1. ~Ends(k) /\ ~Closes(k)
    <3> fin[k] \in [Closers -> {"idle", "audit", "save", "end"}]
      BY DEF TypeOK, ProgramsType
    <3>1. WaitsOn(k)
      BY DEF Apart
    <3> QED
      BY <3>1 DEF Ends, Closes, WaitsOn
  <2> QED
    BY <2>1, ShownRests DEF Apart, RecoveryInv, CourseInv, DurableInv, EventsInv, PlacesInv,
       OutputInv, StartInv
<1> QED
  BY <1>1, HeadApart DEF OutputInv

\* Only the store and the life of the process touch what is in progress.
LEMMA StepsApart ==
  ASSUME TypeOK, StartInv, RecoveryInv, CourseInv, TypeOK', \A k \in Jobs : Moves(k),
         \/ QuietStep
         \/ \E j \in Jobs, ok \in BOOLEAN, c \in Closers :
               \/ CompletionAudited(j, ok) \/ FailureAudited(j, ok) \/ OrphanAudited(j, ok)
               \/ FinishAudited(j, c, ok)
         \/ PumpCleans \/ Pump \/ PumpResumes
         \/ \E j \in Jobs : Admit(j) \/ \E r \in Requests : Submit(j, r)
  PROVE  Apart
<1>1. /\ phase = "up" /\ phase' = "up" /\ UNCHANGED <<disk, head, snap, storeFailed>>
      /\ known' = known \/ \E j \in Jobs : Admit(j)
      /\ Extends(storeQ) /\ \A k \in Jobs : WaitsOn(k)
  <2>1. storeQ \in Seq(Tickets) /\ storeQ' \in Seq(Tickets)
    BY DEF TypeOK, StoreType
  <2>2. storeQ' = storeQ \/ (\E t \in Tickets : storeQ' = Append(storeQ, t)) => Extends(storeQ)
    BY <2>1, AppendProperties, LenProperties DEF Extends
  <2>3. CASE QuietStep
    BY <2>2, <2>3, QuietFiles, QuietMild DEF RecoveryInv, Mild, FilesStay
  <2>4. ASSUME NEW j \in Jobs, NEW ok \in BOOLEAN, NEW c \in Closers,
               \/ CompletionAudited(j, ok) \/ FailureAudited(j, ok) \/ OrphanAudited(j, ok)
               \/ FinishAudited(j, c, ok)
        PROVE  /\ phase = "up" /\ phase' = "up" /\ UNCHANGED <<known, disk, head, snap, storeFailed>>
               /\ Extends(storeQ) /\ \A k \in Jobs : WaitsOn(k)
    BY <2>2, <2>4, LastMild, OpType DEF RecoveryInv, Mild, FilesStay
  <2>5. CASE Pump \/ PumpResumes
    <3>1. /\ PumpPass(storeQ) /\ phase' = "up" /\ phase = "up"
          /\ UNCHANGED <<known, disk, head, snap, storeFailed, active, sub>>
      BY <2>5 DEF Pump, PumpResumes, PumpFrame, process
    <3>2. Extends(storeQ) /\ \A k \in Jobs : Passed(k, storeQ)
      BY <2>1, <3>1, PassEffect DEF RecoveryInv
    <3> QED
      BY <3>1, <3>2 DEF WaitsOn, Passed
  <2>6. CASE PumpCleans
    <3>1. Aged \subseteq Jobs
      BY DEF Aged, TypeOK, RecordsType
    <3>2. /\ UNCHANGED <<known, disk, head, snap, storeFailed, sub, run, fin>>
          /\ phase = "up" /\ phase' = "up" /\ \E t \in Tickets : storeQ' = Append(storeQ, t)
      BY <2>6, <3>1, OpType DEF PumpCleans, process, records, Ops
    <3> QED
      BY <2>2, <3>2 DEF WaitsOn
  <2>7. ASSUME NEW j \in Jobs, NEW r \in Requests, Submit(j, r)
        PROVE  /\ phase = "up" /\ phase' = "up" /\ UNCHANGED <<known, disk, head, snap, storeFailed>>
               /\ Extends(storeQ) /\ \A k \in Jobs : WaitsOn(k)
    <3>1. sub[j] # "save"
      BY <2>7 DEF Submit, CourseInv, Orderly
    <3>2. /\ UNCHANGED <<known, disk, head, snap, storeFailed, run, fin, storeQ>>
          /\ phase = "up" /\ phase' = "up" /\ \A k \in Jobs : sub[k] = "save" => sub'[k] = "save"
      BY <2>7, <3>1 DEF Submit, process, records, store, TypeOK, ProgramsType
    <3> QED
      BY <2>2, <3>2 DEF WaitsOn
  <2>8. ASSUME NEW j \in Jobs, Admit(j)
        PROVE  /\ phase = "up" /\ phase' = "up" /\ UNCHANGED <<disk, head, snap, storeFailed>>
               /\ Extends(storeQ) /\ \A k \in Jobs : WaitsOn(k)
    <3>1. /\ UNCHANGED <<disk, head, snap, storeFailed, run, fin>>
          /\ phase = "up" /\ phase' = "up" /\ storeQ' = Append(storeQ, Op(j, "accept"))
          /\ \A k \in Jobs : sub'[k] = IF k = j THEN "save" ELSE sub[k]
      BY <2>8 DEF Admit, SubmissionFrame, process, TypeOK, ProgramsType
    <3>2. Op(j, "accept") \in Tickets
      BY OpType DEF Ops
    <3> QED
      BY <2>2, <3>1, <3>2 DEF WaitsOn
  <2> QED
    BY <2>3, <2>4, <2>5, <2>6, <2>7, <2>8
<1>2. head # "idle" => storeQ'[1] = storeQ[1]
  BY <1>1, HeadStays
<1>3. ASSUME NEW k \in Jobs
      PROVE  (k \in known' => k \in known \/ Enters(k)) /\ (k \in known => k \in known')
  <2>1. ASSUME NEW j \in Jobs, Admit(j)
        PROVE  (k \in known' => k \in known \/ Enters(k)) /\ (k \in known => k \in known')
    <3>1. known' = known \cup {j}
      BY <2>1 DEF Admit
    <3>2. k = j => Enters(k)
      BY <2>1 DEF Admit, Enters, SubmissionFrame, SameRun, capacity, identities, audit, TypeOK,
         ProgramsType, RecordsType
    <3> QED
      BY <3>1, <3>2
  <2> QED
    BY <1>1, <2>1
<1>4. ASSUME NEW k \in Jobs PROVE ~IsLost(k) /\ ~IsRead(k)
  BY <1>1 DEF IsLost, IsRead
<1> QED
  BY <1>1, <1>2, <1>3, <1>4 DEF Apart

\* A step that changes nothing shows what was shown.
LEMMA StutterShows == ASSUME OutputInv, UNCHANGED vars PROVE OutputInv'
  BY DEF OutputInv, HeadInv, Carried, Shown, Backed, Spent, Calm, Ended, vars, records, programs,
     store, audit

\* Nothing is in progress when the process is gone or starts, and a start
\* shows the files.
LEMMA LifeShows ==
  ASSUME TypeOK, RecoveryInv, CourseInv, RecoveryInv', OutputInv,
         \/ Stop \/ Restart \/ BootCompletes \/ \E j \in Jobs : BootReads(j)
  PROVE  OutputInv'
<1>1. head' = "idle"
  <2>1. CASE Stop \/ Restart \/ \E j \in Jobs : BootReads(j)
    <3>1. phase' # "up"
      BY <2>1 DEF Stop, Restart, BootReads, BootFrame
    <3> QED
      BY <3>1 DEF RecoveryInv, Waking, Asleep
  <2>2. CASE BootCompletes
    BY <2>2 DEF BootCompletes, BootFrame, RecoveryInv, Waking, Asleep
  <2> QED
    BY <2>1, <2>2
<1> SUFFICES ASSUME NEW k \in Jobs PROVE Shown(k)'
  BY <1>1 DEF OutputInv, HeadInv
<1>2. Shown(k) /\ disk[k] \in Record
  BY DEF OutputInv, TypeOK, RecordsType
<1>3. CASE Stop
  <2>1. /\ rec'[k] = NoRecord /\ k \notin known' /\ run'[k] = "idle"
        /\ UNCHANGED <<disk, spawned, terminals>>
    BY <1>3 DEF Stop
  <2>2. ~NoRecord.result /\ NoRecord.state = "absent"
    BY DEF NoRecord
  <2> QED
    BY <1>2, <2>1, <2>2 DEF Shown, Backed, Spent
<1>4. CASE Restart
  BY <1>2, <1>4 DEF Restart, records, programs, store, audit, Shown, Backed, Spent, Calm, Ended
<1>5. phase # "up" => Calm(k)
  BY DEF RecoveryInv, Waking, Asleep, CourseInv, Orderly
<1>6. CASE BootCompletes
  <2>1. PICK gone : /\ disk' = Without(gone) /\ known' = known \ gone
    BY <1>6 DEF BootCompletes
  <2>2. phase = "boot" /\ UNCHANGED <<rec, run, fin, spawned, terminals, storeFailed>>
    BY <1>6 DEF BootCompletes, BootFrame, programs, audit
  <2>3. disk'[k] = IF k \in gone THEN NoRecord ELSE disk[k]
    BY <2>1 DEF Without
  <2>4. ~NoRecord.result /\ NoRecord.state \notin Terminal
    BY DEF NoRecord, Terminal
  <2> QED
    BY <1>2, <1>5, <2>1, <2>2, <2>3, <2>4 DEF Shown, Backed, Spent, Calm, Ended
<1>7. ASSUME NEW j \in Jobs, BootReads(j) PROVE Shown(k)'
  <2>1. /\ UNCHANGED <<run, fin, active, spawned, terminals, storeFailed>> /\ phase = "boot"
        /\ known' = known \cup {j} /\ disk[j].state # "absent"
    BY <1>7 DEF BootReads, BootFrame, programs, audit, OnDisk
  <2>2. CASE k # j
    <3>1. rec'[k] = rec[k] /\ disk'[k] = disk[k] /\ (k \in known' <=> k \in known)
      BY <1>7, <2>1, <2>2 DEF BootReads, TypeOK, RecordsType
    <3>2. UNCHANGED <<run, spawned, terminals, storeFailed, active>>
          /\ (Calm(k)' <=> Calm(k)) /\ (Ended(k)' <=> Ended(k))
      BY <2>1 DEF Calm, Ended
    <3> QED
      BY <1>2, <3>1, <3>2 DEF Shown, Backed, Spent
  <2>3. CASE k = j
    <3>1. /\ rec'[k] = IF disk[k].state \in Live THEN Interrupted ELSE disk[k]
          /\ disk'[k] = rec'[k]
      BY <1>7, <2>3 DEF BootReads, TypeOK, RecordsType
    <3>2. ~Interrupted.result /\ Interrupted.state \in Terminal
      BY DEF Interrupted, Terminal
    <3>3. disk[k].state \in Live \cup Terminal
      BY <1>2, <2>1, <2>3 DEF Record
    <3>4. rec'[k].state \in Terminal /\ Backed(k, rec'[k])
      BY <1>2, <3>1, <3>2, <3>3 DEF Shown, Backed
    <3>5. run'[k] = "idle"
      BY <1>5, <2>1 DEF Calm
    <3> QED
      BY <1>2, <2>1, <3>1, <3>4, <3>5 DEF Shown, Backed, Spent
  <2> QED
    BY <2>2, <2>3
<1> QED
  BY <1>3, <1>4, <1>6, <1>7

\* Whose last save an answer is for, and what becomes of the result.
LastTold(k, t, ok) ==
    /\ run[k] = "final" /\ run'[k] = "end" =>
          /\ t = Op(k, "final")
          /\ rec'[k] = IF ok THEN rec[k] ELSE Withheld(rec[k])
    /\ t = Op(k, "final") => run'[k] = "end"
    /\ \A c \in Closers : fin[k][c] = "save" /\ fin'[k][c] = "end" => t = Op(k, c)

\* A settlement that ends a job writes its record with the operation it answers.
LEMMA SettleLast ==
  ASSUME TypeOK, NEW t \in Tickets, NEW ok \in BOOLEAN, NEW q, Settle(t, ok, q), NEW k \in Jobs
  PROVE  LastTold(k, t, ok)
<1> DEFINE j == t.job
<1> fin[k] \in [Closers -> {"idle", "audit", "save", "end"}]
  BY DEF TypeOK, ProgramsType
<1>1. j \in Jobs /\ t = Op(j, t.op)
  BY DEF Tickets, Op
<1>2. CASE AcceptSaved(j, ok, q) /\ t.op = "accept"
  <2>1. CASE ok /\ MayPump
    <3>1. PumpPass(q) /\ UNCHANGED <<outcome, active>>
      BY <1>2, <2>1 DEF AcceptSaved, PumpNow
    <3>2. sub'[k] = IF k = j THEN "accepted" ELSE sub[k]
      BY <1>1, <1>2, <2>1 DEF AcceptSaved, TypeOK, ProgramsType
    <3>3. run'[k] \in {run[k], "starting"} /\ \A c \in Closers : fin'[k][c] \in {fin[k][c], "audit"}
      <4>1. CASE PumpStarts(q)
        <5>1. PICK n, first, S : Started(q, n, first, S)
          BY <4>1, PumpStartsShape
        <5> QED
          BY <5>1 DEF Started
      <4>2. CASE PumpExpires(q)
        <5>1. PICK i \in Jobs : fin' = [fin EXCEPT ![i]["pump"] = "audit"]
          BY <4>2 DEF PumpExpires, Least, Queued, TypeOK, RecordsType
        <5>2. fin'[k] = IF k = i THEN [fin[k] EXCEPT !["pump"] = "audit"] ELSE fin[k]
          BY <5>1 DEF TypeOK, ProgramsType
        <5> QED
          BY <4>2, <5>2 DEF PumpExpires
      <4> QED
        BY <3>1, <4>1, <4>2 DEF PumpPass
    <3> QED
      BY <1>1, <1>2, <3>3 DEF LastTold, Op
  <2>2. CASE ~(ok /\ MayPump)
    BY <1>2, <2>2 DEF AcceptSaved, PumpNow, LastTold, Op
  <2> QED
    BY <2>1, <2>2
<1>3. CASE t.op \in {"starting", "running"} /\ run[j] = t.op /\ RunSaved(j, ok, q)
  <2>1. UNCHANGED fin /\ (run[k] # "final" \/ run'[k] = run[k])
    BY <1>1, <1>3 DEF RunSaved, TypeOK, ProgramsType
  <2> QED
    BY <1>3, <2>1 DEF LastTold, Op
<1>4. CASE t.op = "final" /\ FinalSaved(j, ok, q)
  <2>1. /\ UNCHANGED fin /\ run'[k] = IF k = j THEN "end" ELSE run[k]
        /\ k = j => rec'[k] = IF ok THEN rec[k] ELSE Withheld(rec[k])
    BY <1>1, <1>4 DEF FinalSaved, TypeOK, ProgramsType, RecordsType
  <2> QED
    BY <1>1, <1>4, <2>1 DEF LastTold, Op
<1>5. CASE t.op \in Closers /\ FinishSaved(j, t.op, ok, q)
  <2>1. /\ UNCHANGED run
        /\ fin'[k] = IF k = j THEN [fin[k] EXCEPT ![t.op] = "end"] ELSE fin[k]
    BY <1>1, <1>5 DEF FinishSaved, TypeOK, ProgramsType
  <2>2. t.op # "final"
    BY <1>5 DEF Closers
  <2> QED
    BY <1>1, <2>1, <2>2 DEF LastTold, Op
<1>6. CASE t.op = "cleanup" /\ CleanupDone(ok, q)
  BY <1>6 DEF CleanupDone, LastTold, Op
<1> QED
  BY <1>2, <1>3, <1>4, <1>5, <1>6 DEF Settle

\* What an answer does to a job whatever it writes.
LEMMA HeardParts ==
  ASSUME TypeOK, NEW k \in Jobs, NEW t, NEW ok, Heard(k), Told(k, t, ok), phase' = "up",
         phase = "up"
  PROVE  /\ Moves(k) /\ ~Enters(k) /\ ~IsLost(k) /\ ~IsRead(k)
         /\ run'[k] = "final" => run[k] = "final"
         /\ run'[k] \in {"child", "completed"} => run'[k] = run[k] /\ spawned'[k] = spawned[k]
<1>1. Moves(k) /\ ~Enters(k) /\ ~IsLost(k) /\ ~IsRead(k)
  BY DEF Moves, Told, Enters, IsLost, IsRead
<1> QED
  BY <1>1 DEF Heard, Rests, Passes, IsDropped, Saves, Ends, Closes, SameRun

\* Only its last save is due for a job whose terminal event is written.
LEMMA SpentAwaits ==
  ASSUME NEW k \in Jobs, Orderly(k), Counted(k), Spent(k), NEW t \in Awaits, t.job = k,
         t.op # "cleanup"
  PROVE  t = Op(k, "final")
<1>1. t \in Tickets /\ t.op \in Ops /\ t = Op(k, t.op)
  BY DEF Awaits, Tickets, Op
<1>2. /\ sub[k] # "save" /\ run[k] \notin {"starting", "running"}
      /\ \A c \in Closers : fin[k][c] # "save"
  BY SpentPlace
<1> QED
  BY <1>1, <1>2 DEF Awaits, Ops

\* An answer to an operation that has written the record of the job,
LEMMA WrittenShown ==
  ASSUME TypeOK, NEW k \in Jobs, Orderly(k), Counted(k), Placed(k), Identity(k), Shown(k),
         JobInv(k), NEW t \in Tickets, NEW ok \in BOOLEAN, Heard(k), Told(k, t, ok),
         Written(k, t, ok), LastTold(k, t, ok), phase = "up", phase' = "up",
         Writes(k, t, ok) \/ Strays(k, t, ok),
         Carried(k, t.op), Carries(storeQ, k), k \notin Aged
  PROVE  Shown(k)'
<1> DEFINE r == disk'[k]
<1>1. /\ r \in {snap, rec[k]} /\ head = "busy" /\ t = Op(k, t.op) /\ t.op # "cleanup"
      /\ t \in Awaits /\ t.job = k /\ (k \in known' => k \in known)
      /\ storeFailed => storeFailed'
  BY DEF Writes, Strays, Written, Told, Op, Tickets
<1>2. /\ Moves(k) /\ ~Enters(k) /\ ~IsLost(k) /\ ~IsRead(k)
      /\ run'[k] = "final" => run[k] = "final"
      /\ run'[k] \in {"child", "completed"} => run'[k] = run[k] /\ spawned'[k] = spawned[k]
  BY HeardParts
<1>3. /\ Backed(k, r)
      /\ r.state \in Terminal => rec[k].state \in Terminal
      /\ disk[k].state \in Terminal => r.state \in Terminal
  <2>1. rec[k].state # "absent"
    BY DEF Identity, InMemory
  <2> QED
    BY <1>1, <2>1 DEF Carried, Shown
<1>4. rec[k].result \/ r.result => t = Op(k, "final") /\ r = rec[k]
  <2> SUFFICES ASSUME rec[k].result \/ r.result PROVE t = Op(k, "final") /\ r = rec[k]
    OBVIOUS
  <2>1. Spent(k)
    BY <1>3 DEF Backed, Shown
  <2>2. t = Op(k, "final")
    BY <1>1, <2>1, SpentAwaits
  <2> QED
    BY <1>1, <2>2 DEF Carried, Op
<1>5. Backed(k, rec[k])' /\ Backed(k, disk[k])'
  <2>1. rec'[k].result => rec'[k].state \in Terminal /\ Spent(k)'
    BY <1>2, ResultMoves, BackedStays DEF Shown, Backed
  <2>2. r.result => r.state \in Terminal /\ Spent(k)'
    BY <1>2, <1>3, BackedStays
  <2> QED
    BY <2>1, <2>2 DEF Backed
<1>6. rec'[k].result => rec[k].result /\ rec'[k] = rec[k]
  <2>1. ~(run[k] = "completed" /\ run'[k] = "final")
    BY <1>2
  <2> QED
    BY <1>2, <2>1, ResultMoves
<1>7. t = Op(k, "final") => run'[k] = "end"
  BY DEF LastTold
<1>8. r.state \in Terminal => rec'[k].state \in Terminal
  BY <1>2, <1>3, RecordStays
<1>9. k \in known' /\ rec'[k].state \in Terminal /\ (Calm(k)' \/ (~storeFailed' /\ Ended(k)'))
         => r.state \in Terminal
  <2> SUFFICES ASSUME k \in known', rec'[k].state \in Terminal,
                      Calm(k)' \/ (~storeFailed' /\ Ended(k)')
               PROVE  r.state \in Terminal
    OBVIOUS
  <2>1. CASE Calm(k)'
    BY <1>1, <1>2, <1>3, <2>1, CalmMoves DEF Shown
  <2>2. CASE ~storeFailed' /\ Ended(k)
    BY <1>1, <1>3, <2>2, EndedRecord DEF Shown
  <2>3. CASE run[k] = "final" /\ run'[k] = "end"
    <3>1. t = Op(k, "final") /\ rec[k].state \in Terminal
      BY <2>3 DEF LastTold, Orderly, Stage
    <3> QED
      BY <1>1, <3>1 DEF Carried, Op
  <2>4. ASSUME NEW c \in Closers, fin[k][c] = "save", fin'[k][c] = "end"
        PROVE  r.state \in Terminal
    <3>1. t = Op(k, c) /\ rec[k].state \in Terminal
      BY <2>4 DEF LastTold, Placed
    <3> QED
      BY <1>1, <3>1 DEF Carried, Op
  <2> QED
    BY <1>2, <2>1, <2>2, <2>3, <2>4, EndedMoves
<1> HIDE DEF r
<1>10. r = disk'[k]
  BY DEF r
<1>11. run'[k] \in {"child", "completed"} => spawned'[k] = 1
  BY <1>2 DEF Shown
<1> QED
  BY <1>1, <1>4, <1>5, <1>6, <1>7, <1>8, <1>9, <1>10, <1>11 DEF Shown

\* and any other answer, show what was shown.
LEMMA UnwrittenShown ==
  ASSUME TypeOK, NEW k \in Jobs, Orderly(k), Counted(k), Placed(k), Identity(k), Shown(k),
         JobInv(k), NEW t \in Tickets, NEW ok \in BOOLEAN, Heard(k), Told(k, t, ok),
         Written(k, t, ok), LastTold(k, t, ok), phase = "up", phase' = "up", ~Writes(k, t, ok),
         ~Strays(k, t, ok)
  PROVE  Shown(k)'
<1>1. /\ k \in known' => k \in known /\ disk'[k] = disk[k]
      /\ disk'[k] \in {disk[k], NoRecord}
      /\ k \in known => k \in known' \/ k \in Aged \/ (~ok /\ t = Op(k, "accept"))
      /\ storeFailed \/ ~ok => storeFailed'
  BY DEF Written
<1>2. /\ Moves(k) /\ ~Enters(k) /\ ~IsLost(k) /\ ~IsRead(k)
      /\ run'[k] = "final" => run[k] = "final"
      /\ run'[k] \in {"child", "completed"} => run'[k] = run[k] /\ spawned'[k] = spawned[k]
  BY HeardParts
<1>3. ~NoRecord.result /\ NoRecord.state \notin Terminal
  BY DEF NoRecord, Terminal
<1>4. Backed(k, rec[k])' /\ Backed(k, disk[k])'
  <2>1. rec'[k].result => rec'[k].state \in Terminal /\ Spent(k)'
    BY <1>2, ResultMoves, BackedStays DEF Shown, Backed
  <2>2. disk[k].result => disk[k].state \in Terminal /\ Spent(k)'
    BY <1>2, BackedStays DEF Shown
  <2> QED
    BY <1>1, <1>3, <2>1, <2>2 DEF Backed
<1>5. rec'[k].result => /\ rec[k].result /\ rec'[k] = rec[k] /\ Spent(k)
                        /\ \/ Ends(k) \/ (run'[k] = run[k] /\ (k \in active' <=> k \in active))
  <2>1. ~(run[k] = "completed" /\ run'[k] = "final")
    BY <1>2
  <2> QED
    BY <1>2, <2>1, ResultMoves DEF Shown, Backed
<1>6. rec'[k].result /\ run'[k] = "final" =>
         k \in known' /\ k \in active' /\ disk'[k].state = "running"
  <2> SUFFICES ASSUME rec'[k].result, run'[k] = "final"
               PROVE  k \in known' /\ k \in active' /\ disk'[k].state = "running"
    OBVIOUS
  <2>1. run[k] = "final" /\ ~Ends(k)
    BY <1>2 DEF Ends
  <2>2. k \in known /\ k \in active /\ k \in active' /\ disk[k].state = "running"
    BY <1>5, <2>1 DEF Shown
  <2>3. k \notin Aged
    BY <2>2 DEF Aged
  <2>4. t # Op(k, "accept")
    <3>1. sub[k] # "save"
      BY <1>5, SpentPlace
    <3> QED
      BY <3>1 DEF Told, Awaits, Op
  <2> QED
    BY <1>1, <2>2, <2>3, <2>4
<1>7. rec'[k].result /\ run'[k] # "final" /\ k \in known' => disk'[k] = rec'[k]
  <2> SUFFICES ASSUME rec'[k].result, run'[k] # "final", k \in known'
               PROVE  disk'[k] = rec'[k]
    OBVIOUS
  <2>1. run[k] # "final"
    <3> SUFFICES ASSUME run[k] = "final" PROVE FALSE
      OBVIOUS
    <3>1. run'[k] = "end"
      BY <1>5 DEF Ends
    <3>2. t = Op(k, "final") /\ rec'[k] = IF ok THEN rec[k] ELSE Withheld(rec[k])
      BY <3>1 DEF LastTold
    <3>3. ok
      BY <3>2, WithheldParts DEF TypeOK, RecordsType
    <3> QED
      BY <3>2, <3>3 DEF Writes, Op
  <2> QED
    BY <1>1, <1>5, <2>1 DEF Shown
<1>8. disk'[k].result => run'[k] # "final"
  BY <1>1, <1>2, <1>3 DEF Shown
<1>9. disk'[k].state \in Terminal => rec'[k].state \in Terminal \cup {"absent"}
  BY <1>1, <1>2, <1>3, FileAhead DEF Shown
<1>10. k \in known' /\ rec'[k].state \in Terminal /\ (Calm(k)' \/ (~storeFailed' /\ Ended(k)'))
          => disk'[k].state \in Terminal
  <2> SUFFICES ASSUME k \in known', rec'[k].state \in Terminal,
                      Calm(k)' \/ (~storeFailed' /\ Ended(k)')
               PROVE  disk'[k].state \in Terminal
    OBVIOUS
  <2>1. CASE Calm(k)'
    BY <1>1, <1>2, <2>1, CalmMoves DEF Shown
  <2>2. CASE ~storeFailed' /\ Ended(k)
    BY <1>1, <2>2, EndedRecord DEF Shown
  <2>3. ~storeFailed' => /\ ~(run[k] = "final" /\ run'[k] = "end")
                         /\ ~\E c \in Closers : fin[k][c] = "save" /\ fin'[k][c] = "end"
    <3>1. ~storeFailed' => ok
      BY <1>1
    <3>2. "final" # "cleanup" /\ \A c \in Closers : c # "cleanup"
      BY DEF Closers
    <3> QED
      BY <3>1, <3>2 DEF LastTold, Writes, Op
  <2> QED
    BY <1>2, <2>1, <2>2, <2>3, EndedMoves
<1>11. run'[k] \in {"child", "completed"} => spawned'[k] = 1
  BY <1>2 DEF Shown
<1> QED
  BY <1>4, <1>6, <1>7, <1>8, <1>9, <1>10, <1>11 DEF Shown

\* An answer shows what was shown.
LEMMA AnswerShows ==
  ASSUME TypeOK, StartInv, RecoveryInv, CourseInv, DurableInv, EventsInv, PlacesInv, OutputInv,
         NEW t \in Tickets, NEW ok \in BOOLEAN, NEW q, Settle(t, ok, q), NEW k \in Jobs,
         Written(k, t, ok), phase = "up"
  PROVE  Shown(k)'
<1>1. Heard(k) /\ Told(k, t, ok) /\ LastTold(k, t, ok) /\ phase' = "up"
  BY SettleMoves, SettleTold, SettleLast DEF Settle, process
<1>2. /\ Orderly(k) /\ Counted(k) /\ Placed(k) /\ Identity(k) /\ Shown(k) /\ JobInv(k)
      /\ HeadInv /\ QueueInv
  BY DEF CourseInv, EventsInv, PlacesInv, RecoveryInv, OutputInv, StartInv
<1>3. CASE ~Writes(k, t, ok) /\ ~Strays(k, t, ok)
  BY <1>1, <1>2, <1>3, UnwrittenShown
<1>4. CASE Writes(k, t, ok) \/ Strays(k, t, ok)
  <2>1. t = storeQ[1] /\ t.job = k /\ t.op # "cleanup" /\ head = "busy"
    BY <1>4 DEF Writes, Strays, Written
  <2>2. Carried(k, t.op) /\ Carries(storeQ, k)
    BY <1>2, <2>1, HeadParts DEF HeadInv
  <2>3. k \notin Aged
    BY <1>2, <2>2, AgedAlone
  <2> QED
    BY <1>1, <1>2, <1>4, <2>2, <2>3, WrittenShown
<1> QED
  BY <1>3, <1>4

\* What is in progress while another operation is answered, or its own caller
\* gives up on it.
LEMMA HeadHeard ==
  ASSUME TypeOK, CourseInv, EventsInv, DurableInv, NEW j \in Jobs, NEW o, Carried(j, o),
         Shown(j), Identity(j), Carries(storeQ, j), NEW t, NEW ok, Heard(j), Told(j, t, ok),
         phase = "up", phase' = "up", UNCHANGED <<snap, disk[j]>>,
         head' = "busy" => head = "busy" /\ (o = "final" => run[j] = "final" /\ run'[j] = "final"),
         head' = "late" =>
            /\ ~rec'[j].result /\ ~disk[j].result
            /\ snap.result => disk[j].state = "running" /\ run'[j] # "final"
  PROVE  Carried(j, o)'
<1>1. /\ Moves(j) /\ ~Enters(j) /\ ~IsLost(j) /\ ~IsRead(j) /\ Orderly(j) /\ Counted(j)
  BY HeardParts DEF CourseInv, EventsInv
<1>2. snap.result => snap.state \in Terminal /\ Spent(j)'
  BY <1>1, BackedStays DEF Carried
<1>3. head' = "busy" /\ o = "final" => snap = rec'[j]
  BY <1>1, FinalRests DEF Carried
<1>4. snap.state \in Terminal => rec'[j].state \in Terminal
  BY <1>1, RecordStays DEF Carried
<1> QED
  BY <1>2, <1>3, <1>4 DEF Carried, Backed

\* A write that ends in time,
LEMMA CommitShows ==
  ASSUME TypeOK, StartInv, RecoveryInv, CourseInv, DurableInv, EventsInv, PlacesInv, OutputInv,
         StoreCommits
  PROVE  OutputInv'
<1>1. /\ head = "busy" /\ head' = "idle" /\ storeFailed' = storeFailed /\ phase = "up"
      /\ Settle(storeQ[1], TRUE, Tail(storeQ)) /\ storeQ[1] \in Tickets
  BY HeadParts DEF StoreCommits
<1>2. PICK gone \in Removable(storeQ[1]) : Persist(storeQ[1], gone)
  BY DEF StoreCommits
<1>3. ASSUME NEW k \in Jobs PROVE Shown(k)'
  BY <1>1, <1>2, PersistWritten, AnswerShows
<1> QED
  BY <1>1, <1>3 DEF OutputInv, HeadInv

\* one that fails, with another that has passed its check,
LEMMA FailShows ==
  ASSUME TypeOK, StartInv, RecoveryInv, CourseInv, DurableInv, EventsInv, PlacesInv, OutputInv,
         StoreFails, RecoveryInv', TypeOK'
  PROVE  OutputInv'
<1> DEFINE t == storeQ[1]
<1>1. /\ head = "busy" /\ head' \in {"busy", "idle"} /\ storeFailed' /\ phase = "up"
      /\ Settle(t, FALSE, Tail(storeQ)) /\ t \in Tickets
      /\ head' = "busy" => Len(storeQ) > 1 /\ snap' = rec[storeQ[2].job]
      /\ First = 1 /\ First' = 1 /\ phase' = "up"
  BY HeadParts DEF StoreFails, First, Settle, process
<1>2. PICK gone \in Removable(t) : Rejected(t, gone) \/ Overran(t, gone)
  BY DEF StoreFails
<1>3. gone \subseteq Aged
  BY DEF Removable
<1>4. \A k \in Jobs : Written(k, t, FALSE)
  BY <1>1, <1>2, <1>3, RejectedWritten, OverranWritten
<1>5. ASSUME NEW k \in Jobs PROVE Shown(k)'
  BY <1>1, <1>4, AnswerShows
<1>6. HeadInv'
  <2> SUFFICES ASSUME NEW j, NEW o, j = storeQ'[1].job, o = storeQ'[1].op, head' = "busy",
                      o # "cleanup"
               PROVE  Carried(j, o)'
    BY <1>1 DEF HeadInv
  <2>1. /\ Shortens(Tail(storeQ), storeQ, 1) /\ Extends(Tail(storeQ)) /\ Len(storeQ) \in Nat
    BY <1>1, HeadParts, HeadAnswered, LenProperties DEF TypeOK, StoreType
  <2>2. 2 \in 1 .. Len(storeQ) /\ 1 \in 1 .. Len(Tail(storeQ)) /\ Tail(storeQ)[1] = storeQ[2]
    BY <1>1, <2>1 DEF Shortens
  <2>3. storeQ'[1] = storeQ[2] /\ storeQ[2] \in Awaits
    BY <1>1, <2>1, <2>2 DEF Extends, RecoveryInv, QueueInv, Sound
  <2>4. 1 \in 1 .. Len(storeQ')
    BY <1>1, EmptySeq, LenProperties DEF TypeOK, StoreType
  <2>5. storeQ'[1] \in Awaits'
    BY <1>1, <2>4 DEF RecoveryInv, QueueInv, Sound
  <2>6. /\ j \in Jobs /\ Carries(storeQ, j) /\ snap' = rec[j]
        /\ o = "final" => run[j] = "final" /\ run'[j] = "final"
        /\ o \in Closers => fin[j][o] = "save"
    BY <1>1, <2>2, <2>3, <2>5 DEF Awaits, Tickets, Carries
  <2>7. /\ Orderly(j) /\ Counted(j) /\ Placed(j) /\ Identity(j) /\ Shown(j)
    BY <2>6 DEF CourseInv, EventsInv, PlacesInv, RecoveryInv, OutputInv
  <2>8. Heard(j) /\ Told(j, t, FALSE) /\ Written(j, t, FALSE)
    BY <1>1, <1>4, <2>6, SettleMoves, SettleTold
  <2>9. Moves(j) /\ ~Enters(j) /\ ~IsLost(j) /\ ~IsRead(j)
    BY <1>1, <2>6, <2>8, HeardParts
  <2>10. rec[j].result => rec[j].state \in Terminal /\ Spent(j)'
    BY <2>6, <2>7, <2>9, BackedStays DEF Shown
  <2>11. o = "final" => rec'[j] = rec[j]
    BY <2>6, <2>7, <2>9, FinalRests
  <2>12. o \in Closers \cup {"final"} => rec[j].state \in Terminal
    BY <2>6, <2>7 DEF Placed, Orderly, Stage
  <2>13. rec[j].state \in Terminal => rec'[j].state \in Terminal
    BY <2>6, <2>7, <2>9, RecordStays
  <2>14. disk'[j].state \in Terminal => rec[j].state \in Terminal
    <3>1. disk'[j] \in {disk[j], NoRecord} \/ Strays(j, t, FALSE)
      BY <2>8 DEF Written, Writes
    <3>2. rec[j].state # "absent" /\ NoRecord.state \notin Terminal
      BY <2>6, <2>7 DEF Identity, InMemory, NoRecord, Terminal
    <3>3. CASE Strays(j, t, FALSE)
      <4>1. Carried(j, t.op)
        BY <3>3 DEF Strays, OutputInv, HeadInv
      <4> QED
        BY <3>3, <4>1 DEF Strays, Carried
    <3> QED
      BY <2>7, <3>1, <3>2, <3>3 DEF Shown
  <2> QED
    BY <2>6, <2>10, <2>11, <2>12, <2>13, <2>14 DEF Carried, Backed
<1> QED
  BY <1>5, <1>6 DEF OutputInv

\* one whose caller gives up on it,
LEMMA TimeOutShows ==
  ASSUME TypeOK, StartInv, RecoveryInv, CourseInv, DurableInv, EventsInv, PlacesInv, OutputInv,
         StoreTimesOut
  PROVE  OutputInv'
<1> DEFINE t == storeQ[1]
<1>1. /\ head = "busy" /\ head' = "late" /\ storeFailed' /\ phase = "up" /\ phase' = "up"
      /\ Settle(t, FALSE, storeQ) /\ t \in Tickets /\ snap' = snap
      /\ First = 1 /\ t \in Awaits
  <2>1. head = "busy" /\ 1 \in 1 .. Len(storeQ) /\ t \in Tickets
    BY HeadParts DEF StoreTimesOut
  <2> QED
    BY <2>1 DEF StoreTimesOut, First, Settle, process, RecoveryInv, QueueInv, Sound
<1>2. PICK gone : gone \subseteq Aged /\ Rejected(t, gone) /\ gone = {}
  BY DEF StoreTimesOut
<1>3. \A k \in Jobs : Written(k, t, FALSE)
  BY <1>1, <1>2, RejectedWritten
<1>4. ASSUME NEW k \in Jobs PROVE Shown(k)'
  BY <1>1, <1>3, AnswerShows
<1>5. storeQ'[1] = t
  <2>1. LeftSound(t, storeQ)
    BY <1>1, HeadParts, SettleAnswered DEF RecoveryInv
  <2> QED
    BY <1>1, <2>1, HeadStays DEF LeftSound
<1>6. HeadInv'
  <2> SUFFICES ASSUME NEW j, NEW o, j = t.job, o = t.op, o # "cleanup" PROVE Carried(j, o)'
    BY <1>1, <1>5 DEF HeadInv
  <2>1. /\ j \in Jobs /\ Carries(storeQ, j) /\ Carried(j, o)
    BY <1>1, HeadParts DEF Tickets, OutputInv, HeadInv
  <2>2. /\ Orderly(j) /\ Counted(j) /\ Identity(j) /\ Shown(j)
    BY <2>1 DEF CourseInv, EventsInv, RecoveryInv, OutputInv
  <2>3. Heard(j) /\ Told(j, t, FALSE) /\ LastTold(j, t, FALSE)
    BY <1>1, <2>1, SettleMoves, SettleTold, SettleLast
  <2>4. disk'[j] = disk[j]
    BY <1>2, <2>1 DEF Rejected, Without
  <2>5. /\ Moves(j) /\ ~IsLost(j) /\ ~IsRead(j) /\ ~(run[j] = "completed" /\ run'[j] = "final")
    BY <1>1, <2>1, <2>3, HeardParts
  <2>6. Spent(j) => t = Op(j, "final") /\ run[j] = "final" /\ run'[j] = "end"
                    /\ rec'[j] = Withheld(rec[j])
    <3> SUFFICES ASSUME Spent(j)
                 PROVE  t = Op(j, "final") /\ run[j] = "final" /\ run'[j] = "end"
                        /\ rec'[j] = Withheld(rec[j])
      OBVIOUS
    <3>1. t = Op(j, "final")
      BY <1>1, <2>1, <2>2, SpentAwaits
    <3> QED
      BY <1>1, <2>3, <3>1 DEF LastTold, Awaits, Op
  <2>7. ~rec'[j].result
    <3> SUFFICES ASSUME rec'[j].result PROVE FALSE
      OBVIOUS
    <3>1. rec[j].result
      BY <2>1, <2>2, <2>5, ResultMoves
    <3>2. rec'[j] = Withheld(rec[j])
      BY <2>2, <2>6, <3>1 DEF Shown, Backed
    <3> QED
      BY <2>1, <3>2, WithheldParts DEF TypeOK, RecordsType
  <2>8. ~disk[j].result
    BY <2>2, <2>6 DEF Shown, Backed
  <2>9. snap.result => disk[j].state = "running" /\ run'[j] # "final"
    <3> SUFFICES ASSUME snap.result PROVE disk[j].state = "running" /\ run'[j] # "final"
      OBVIOUS
    <3>1. Spent(j)
      BY <2>1 DEF Carried, Backed
    <3>2. o = "final" /\ run[j] = "final" /\ run'[j] = "end"
      BY <2>6, <3>1 DEF Op
    <3>3. snap = rec[j]
      BY <1>1, <2>1, <3>2 DEF Carried
    <3> QED
      BY <2>2, <3>2, <3>3 DEF Shown
  <2> QED
    BY <1>1, <2>1, <2>2, <2>3, <2>4, <2>7, <2>8, <2>9, HeadHeard
<1> QED
  BY <1>4, <1>6 DEF OutputInv

\* one that is refused,
LEMMA RefuseShows ==
  ASSUME TypeOK, StartInv, RecoveryInv, CourseInv, DurableInv, EventsInv, PlacesInv, OutputInv,
         StoreRefuses, RecoveryInv', TypeOK'
  PROVE  OutputInv'
<1>1. UNCHANGED <<head, snap, storeFailed>> /\ storeFailed /\ phase = "up"
  BY DEF StoreRefuses
<1>2. PICK i \in 1 .. Len(storeQ) :
         /\ i > 1 \/ head = "idle"
         /\ Settle(storeQ[i], FALSE, RemoveAt(storeQ, i))
         /\ Rejected(storeQ[i], {})
  BY DEF StoreRefuses
<1> DEFINE t == storeQ[i]
           q == RemoveAt(storeQ, i)
<1>3. /\ Shortens(q, storeQ, i) /\ t \in Tickets /\ q \in Seq(Tickets) /\ phase' = "up"
  BY <1>1, <1>2, QueueParts, RemoveAtShortens DEF TypeOK, StoreType, Settle, process
<1>4. Extends(q)
  BY <1>2, <1>3, SettleAnswered DEF RecoveryInv, LeftSound
<1>5. \A k \in Jobs : Written(k, t, FALSE)
  <2>1. PICK gone : gone \subseteq Aged /\ Rejected(t, gone)
    BY <1>2
  <2> QED
    BY <1>1, <1>3, <2>1, RejectedWritten
<1>6. ASSUME NEW k \in Jobs PROVE Shown(k)'
  BY <1>1, <1>2, <1>3, <1>5, AnswerShows
<1> HIDE DEF q
<1>7. HeadInv'
  <2> SUFFICES ASSUME NEW j, NEW o, j = storeQ'[1].job, o = storeQ'[1].op, head # "idle",
                      o # "cleanup"
               PROVE  Carried(j, o)'
    BY <1>1 DEF HeadInv
  <2>1. storeQ'[1] = storeQ[1]
    <3>1. Len(storeQ) \in Nat /\ i > 1
      BY <1>2, LenProperties DEF TypeOK, StoreType
    <3>2. 1 \in 1 .. Len(q) /\ q[1] = storeQ[1]
      BY <1>3, <3>1 DEF Shortens
    <3> QED
      BY <1>4, <3>2 DEF Extends
  <2>2. /\ j \in Jobs /\ Carries(storeQ, j) /\ Carried(j, o) /\ 1 \in 1 .. Len(storeQ)
    BY <2>1, HeadParts DEF Tickets, OutputInv, HeadInv
  <2>3. /\ Orderly(j) /\ Counted(j) /\ Identity(j) /\ Shown(j)
    BY <2>2 DEF CourseInv, EventsInv, RecoveryInv, OutputInv
  <2>4. Heard(j) /\ Told(j, t, FALSE)
    BY <1>2, <1>3, <2>2, SettleMoves, SettleTold
  <2>5. disk'[j] = disk[j]
    BY <1>2, <2>2 DEF Rejected, Without
  <2>6. /\ Moves(j) /\ ~IsLost(j) /\ ~IsRead(j) /\ ~(run[j] = "completed" /\ run'[j] = "final")
    BY <1>1, <1>3, <2>2, <2>4, HeardParts
  <2>7. head = "busy" /\ o = "final" => run[j] = "final" /\ run'[j] = "final"
    <3> SUFFICES ASSUME head = "busy", o = "final" PROVE run[j] = "final" /\ run'[j] = "final"
      OBVIOUS
    <3>1. First = 1 /\ First' = 1
      BY <1>1 DEF First
    <3>2. 1 \in 1 .. Len(storeQ')
      BY <1>1, EmptySeq, LenProperties DEF TypeOK, StoreType
    <3>3. storeQ[1] \in Awaits /\ storeQ'[1] \in Awaits'
      BY <2>2, <3>1, <3>2 DEF RecoveryInv, QueueInv, Sound
    <3> QED
      BY <2>1, <3>3 DEF Awaits
  <2>8. head = "late" => ~rec'[j].result
    <3> SUFFICES ASSUME head = "late", rec'[j].result PROVE FALSE
      OBVIOUS
    <3>1. rec[j].result
      BY <2>2, <2>3, <2>6, ResultMoves
    <3> QED
      BY <2>2, <3>1 DEF Carried
  <2>9. head = "late" => /\ ~disk[j].result
                         /\ snap.result => disk[j].state = "running" /\ run'[j] # "final"
    <3>1. head = "late" /\ snap.result => Spent(j) /\ run[j] # "final"
      BY <2>2 DEF Carried, Backed
    <3>2. head = "late" /\ snap.result => run'[j] # "final"
      BY <2>2, <2>3, <2>6, <3>1, OverRuns
    <3> QED
      BY <2>2, <3>2 DEF Carried
  <2> QED
    BY <1>1, <1>3, <2>2, <2>3, <2>4, <2>5, <2>7, <2>8, <2>9, HeadHeard
<1> QED
  BY <1>6, <1>7 DEF OutputInv

\* and one that ends after its caller has gone.
LEMMA LateShows ==
  ASSUME TypeOK, RecoveryInv, CourseInv, OutputInv, StoreEndsLate PROVE OutputInv'
<1> DEFINE t == storeQ[1]
<1>1. /\ head = "late" /\ head' = "idle" /\ storeFailed
      /\ UNCHANGED <<rec, run, fin, active, storeFailed, spawned, terminals>>
  BY DEF StoreEndsLate, programs, audit, RecoveryInv, QueueInv
<1>2. Aged = {} /\ t \in Tickets /\ t.job \in Jobs /\ (t.op # "cleanup" => Carries(storeQ, t.job))
  BY <1>1, HeadParts DEF Aged, Tickets
<1>3. /\ known' = known
      /\ \A k \in Jobs : \/ disk'[k] = disk[k]
                         \/ k = t.job /\ t.op # "cleanup" /\ disk'[k] \in {snap, rec[k]}
  <2>1. CASE \E gone \in Removable(t) : Persist(t, gone)
    <3>1. Persist(t, {})
      BY <1>2, <2>1 DEF Removable
    <3>2. disk \in [Jobs -> Record]
      BY DEF TypeOK, RecordsType
    <3> QED
      BY <3>1, <3>2 DEF Persist, Lands, Without
  <2>2. CASE UNCHANGED <<disk, known, forgotten>>
    BY <2>2
  <2> QED
    BY <2>1, <2>2 DEF StoreEndsLate
<1>4. ASSUME NEW k \in Jobs PROVE Shown(k)'
  <2>1. Shown(k) /\ Identity(k)
    BY DEF OutputInv, RecoveryInv
  <2>2. (Calm(k)' <=> Calm(k)) /\ (Ended(k)' <=> Ended(k))
    BY <1>1 DEF Calm, Ended
  <2>3. CASE disk'[k] = disk[k]
    BY <1>1, <1>3, <2>1, <2>2, <2>3 DEF Shown, Backed, Spent
  <2>4. CASE k = t.job /\ t.op # "cleanup" /\ disk'[k] \in {snap, rec[k]}
    <3>1. Carried(k, t.op)
      BY <1>1, <2>4 DEF OutputInv, HeadInv
    <3>2. rec[k].state # "absent"
      BY <1>2, <2>1, <2>4 DEF Identity, InMemory
    <3>3. /\ Backed(k, disk'[k]) /\ ~rec[k].result
          /\ disk'[k].result => run[k] # "final"
          /\ disk'[k].state \in Terminal => rec[k].state \in Terminal
          /\ disk[k].state \in Terminal => disk'[k].state \in Terminal
      BY <1>1, <2>1, <2>4, <3>1, <3>2 DEF Carried, Shown
    <3> QED
      BY <1>1, <1>3, <2>1, <2>2, <3>3 DEF Shown, Backed, Spent
  <2> QED
    BY <1>3, <2>3, <2>4
<1> QED
  BY <1>1, <1>4 DEF OutputInv, HeadInv

\* The operation that starts takes the record as it is.
LEMMA BeginShows ==
  ASSUME TypeOK, RecoveryInv, CourseInv, PlacesInv, OutputInv, StoreBegins PROVE OutputInv'
<1>1. /\ head = "idle" /\ head' = "busy" /\ storeQ # <<>> /\ snap' = rec[storeQ[1].job]
      /\ UNCHANGED <<known, disk, storeFailed, storeQ, active, rec, run, fin, spawned, terminals>>
  BY DEF StoreBegins, records, programs, audit
<1>2. ASSUME NEW k \in Jobs PROVE Shown(k)'
  <2>1. Shown(k)
    BY DEF OutputInv
  <2> QED
    BY <1>1, <2>1 DEF Shown, Backed, Spent, Calm, Ended
<1>3. HeadInv'
  <2> SUFFICES ASSUME NEW j, NEW o, j = storeQ[1].job, o = storeQ[1].op, o # "cleanup"
               PROVE  Carried(j, o)'
    BY <1>1 DEF HeadInv
  <2>1. 1 \in 1 .. Len(storeQ) /\ First = 1
    BY <1>1, EmptySeq, LenProperties DEF TypeOK, StoreType, First
  <2>2. storeQ[1] \in Awaits /\ j \in Jobs /\ Carries(storeQ, j)
    BY <2>1 DEF RecoveryInv, QueueInv, Sound, Awaits, Tickets, Carries
  <2>3. Orderly(j) /\ Placed(j) /\ Identity(j) /\ Shown(j)
    BY <2>2 DEF CourseInv, PlacesInv, RecoveryInv, OutputInv
  <2>4. o \in Closers \cup {"final"} => rec[j].state \in Terminal
    BY <2>2, <2>3 DEF Awaits, Placed, Orderly, Stage
  <2>5. rec[j].state # "absent"
    BY <2>2, <2>3 DEF Identity, InMemory
  <2> QED
    BY <1>1, <2>2, <2>3, <2>4, <2>5 DEF Carried, Shown, Backed, Spent
<1> QED
  BY <1>2, <1>3 DEF OutputInv

\* Every step of the service keeps readable output on disk.
LEMMA OutputStep ==
  ASSUME TypeOK, StartInv, RecoveryInv, CourseInv, DurableInv, EventsInv, PlacesInv, OutputInv,
         [Next]_vars
  PROVE  OutputInv'
<1> TypeOK' /\ RecoveryInv' /\ \A k \in Jobs : Moves(k)
  BY TypeStep, RecoveryStep, StepMoves
<1>1. CASE QuietStep
  BY <1>1, StepsApart, ApartShows
<1>2. CASE \E j \in Jobs, ok \in BOOLEAN, c \in Closers :
              \/ CompletionAudited(j, ok) \/ FailureAudited(j, ok) \/ OrphanAudited(j, ok)
              \/ FinishAudited(j, c, ok)
  BY <1>2, StepsApart, ApartShows
<1>3. CASE Storing
  BY <1>3, BeginShows, CommitShows, FailShows, TimeOutShows, LateShows, RefuseShows DEF Storing
<1>4. CASE Pump \/ PumpResumes \/ PumpCleans
  BY <1>4, StepsApart, ApartShows
<1>5. CASE Lifecycle
  BY <1>1, <1>5, LifeShows DEF Lifecycle, Exit, Crash, Boot, QuietStep
<1>6. CASE \E j \in Jobs : Admit(j) \/ \E r \in Requests : Submit(j, r)
  BY <1>6, StepsApart, ApartShows
<1>7. CASE UNCHANGED vars
  BY <1>7, StutterShows
<1>8. "none" \in Outcomes /\ TRUE \in BOOLEAN /\ "client" \in Closers
  BY DEF Outcomes, Closers
<1> QED
  BY <1>1, <1>2, <1>3, <1>4, <1>5, <1>6, <1>7, <1>8
  DEF Next, Client, Submission, Running, Finishing, Pumping, QuietStep, JobSteps

\* What the files show and what is in progress agree throughout.
THEOREM OutputInvariant == Spec => []OutputInv
<1>1. Init => OutputInv
  <2> SUFFICES ASSUME Init PROVE OutputInv
    OBVIOUS
  <2>1. ~NoRecord.result /\ NoRecord.state \notin Terminal
    BY DEF NoRecord, Terminal
  <2>2. ASSUME NEW j \in Jobs PROVE Shown(j)
    BY <2>1 DEF Init, Shown, Backed
  <2> QED
    BY <2>2 DEF Init, OutputInv, HeadInv
<1>2. TypeOK /\ StartInv /\ RecoveryInv /\ CourseInv /\ DurableInv /\ EventsInv /\ PlacesInv
      /\ OutputInv /\ [Next]_vars => OutputInv'
  BY OutputStep
<1> QED
  BY <1>1, <1>2, TypeCorrect, StartInvariant, RecoveryInvariant, CourseInvariant,
     DurableInvariant, EventsInvariant, PlacesInvariant, PTL DEF Spec

\* output() hands out a result only when that very record is in the file, the
\* command ran once and its one terminal event is written: also after late
\* writes, storage faults and restarts.
THEOREM OutputOnlyIfDurable == Spec => []OutputIsDurable
  BY OutputInvariant, OutputImplies, PTL

-----------------------------------------------------------------------------
(* The contract.  What a step does to the file of a job is one turn of its   *)
(* life.                                                                     *)

Turns(k) ==
    \/ disk'[k] = disk[k] /\ (k \in forgotten' <=> k \in forgotten)
    \/ k \in forgotten /\ k \in forgotten'
    \/ k \in Aged /\ k \in forgotten'
    \/ /\ k \notin forgotten' /\ k \notin forgotten
       /\ disk'[k].state # "absent" /\ ~disk[k].result
       /\ disk[k].state \in Terminal => disk'[k].state \in Terminal
       /\ disk'[k].result => disk[k].state = "running"

\* What a write of the operation in progress does to the file it is for.
LEMMA WriteTurns ==
  ASSUME TypeOK, RecoveryInv, CourseInv, EventsInv, OutputInv, head # "idle",
         storeQ[1].op # "cleanup", NEW k \in Jobs, k = storeQ[1].job,
         NEW r \in {snap, rec[k]}
  PROVE  /\ r.state # "absent" /\ ~disk[k].result
         /\ disk[k].state \in Terminal => r.state \in Terminal
         /\ r.result => disk[k].state = "running"
<1>1. /\ Carried(k, storeQ[1].op) /\ Shown(k) /\ Orderly(k) /\ Counted(k) /\ Identity(k)
      /\ Carries(storeQ, k) /\ 1 \in 1 .. Len(storeQ) /\ storeQ[1] \in Tickets
  BY HeadParts DEF OutputInv, HeadInv, CourseInv, EventsInv, RecoveryInv
<1>2. rec[k].state # "absent" /\ snap.state # "absent"
  BY <1>1 DEF Identity, InMemory, RecoveryInv, Waking
<1>3. CASE head = "late"
  BY <1>1, <1>2, <1>3 DEF Carried, Shown
<1>4. CASE head = "busy"
  <2>1. storeQ[1] \in Awaits
    BY <1>1, <1>4 DEF RecoveryInv, QueueInv, Sound, First
  <2>2. Spent(k) => storeQ[1] = Op(k, "final") /\ run[k] = "final"
    <3> SUFFICES ASSUME Spent(k) PROVE storeQ[1] = Op(k, "final") /\ run[k] = "final"
      OBVIOUS
    <3>1. storeQ[1] = Op(k, "final")
      BY <1>1, <2>1, SpentAwaits
    <3> QED
      BY <2>1, <3>1 DEF Awaits, Op
  <2>3. ~disk[k].result
    BY <1>1, <2>2 DEF Shown, Backed
  <2>4. r.result => disk[k].state = "running"
    <3> SUFFICES ASSUME r.result PROVE disk[k].state = "running"
      OBVIOUS
    <3>1. Spent(k)
      BY <1>1 DEF Carried, Shown, Backed
    <3>2. run[k] = "final" /\ r = rec[k]
      BY <1>1, <1>4, <2>2, <3>1 DEF Carried, Op
    <3> QED
      BY <1>1, <3>2 DEF Shown
  <2> QED
    BY <1>1, <1>2, <2>3, <2>4 DEF Carried, Shown
<1> QED
  BY <1>3, <1>4 DEF TypeOK, StoreType

\* Every answer, and every late end, is such a turn for every job.
LEMMA StoreTurns ==
  ASSUME TypeOK, RecoveryInv, CourseInv, EventsInv, OutputInv, Storing, NEW k \in Jobs
  PROVE  Turns(k)
<1> DEFINE t == storeQ[1]
<1>1. ASSUME head # "idle", NEW gone \in Removable(t), Lands(t, gone),
             forgotten' = forgotten \cup gone
      PROVE  Turns(k)
  <2>1. gone \subseteq Aged /\ t \in Tickets
    BY <1>1, HeadParts DEF Removable
  <2>2. PICK r \in {snap, rec[t.job]} :
           disk' = IF t.op = "cleanup" THEN Without(gone)
                   ELSE [Without(gone) EXCEPT ![t.job] = r]
    BY <1>1 DEF Lands
  <2>3. disk'[k] = IF k = t.job /\ t.op # "cleanup" THEN r
                   ELSE IF k \in gone THEN NoRecord ELSE disk[k]
    BY <2>2 DEF Without
  <2>4. CASE k = t.job /\ t.op # "cleanup" /\ k \notin forgotten'
    BY <1>1, <2>1, <2>3, <2>4, WriteTurns DEF Turns
  <2>5. CASE k \in forgotten'
    BY <1>1, <2>1, <2>5 DEF Turns
  <2>6. CASE ~(k = t.job /\ t.op # "cleanup") /\ k \notin forgotten'
    BY <1>1, <2>1, <2>3, <2>6 DEF Turns
  <2> QED
    BY <2>4, <2>5, <2>6
<1>2. ASSUME NEW s, NEW gone, gone \subseteq Aged, Rejected(s, gone) PROVE Turns(k)
  BY <1>2 DEF Rejected, Forgets, Without, Turns
<1>3. CASE StoreBegins
  BY <1>3 DEF StoreBegins, Turns
<1>4. CASE StoreCommits
  BY <1>1, <1>4 DEF StoreCommits, Persist
<1>5. CASE StoreFails
  <2>1. PICK gone \in Removable(t) : Rejected(t, gone) \/ Overran(t, gone)
    BY <1>5 DEF StoreFails
  <2>2. gone \subseteq Aged /\ head = "busy"
    BY <1>5 DEF Removable, StoreFails
  <2> QED
    BY <1>1, <1>2, <2>1, <2>2 DEF Overran, Forgets
<1>6. CASE StoreTimesOut \/ StoreRefuses
  <2>1. \E s : Rejected(s, {})
    BY <1>6 DEF StoreTimesOut, StoreRefuses
  <2>2. \E s, gone : gone \subseteq Aged /\ Rejected(s, gone)
    BY <2>1
  <2> QED
    BY <1>2, <2>1, <2>2
<1>7. CASE StoreEndsLate
  BY <1>1, <1>7 DEF StoreEndsLate, Persist, Turns
<1> QED
  BY <1>3, <1>4, <1>5, <1>6, <1>7 DEF Storing

\* A start reads or removes files.
LEMMA BootTurns ==
  ASSUME TypeOK, RecoveryInv, OutputInv, NEW k \in Jobs,
         BootCompletes \/ \E j \in Jobs : BootReads(j)
  PROVE  Turns(k)
<1>1. CASE BootCompletes
  <2>1. PICK gone \in SUBSET Aged : disk' = Without(gone) /\ forgotten' = forgotten \cup gone
    BY <1>1 DEF BootCompletes
  <2> QED
    BY <2>1 DEF Without, Turns
<1>2. ASSUME NEW j \in Jobs, BootReads(j) PROVE Turns(k)
  <2>1. /\ forgotten' = forgotten
        /\ disk'[k] = IF k = j /\ disk[k].state \in Live THEN Interrupted ELSE disk[k]
    BY <1>2 DEF BootReads, BootFrame, TypeOK, RecordsType
  <2>2. disk[k].state \in Live => ~disk[k].result
    BY DEF OutputInv, Shown, Backed, Live, Terminal
  <2>3. Interrupted.state \in Terminal /\ Interrupted.state # "absent" /\ ~Interrupted.result
    BY DEF Interrupted, Terminal
  <2> QED
    BY <2>1, <2>2, <2>3 DEF Turns
<1> QED
  BY <1>1, <1>2

\* Only the executor starts a command.
LEMMA OnlySpawnStarts ==
  ASSUME [Next]_vars, ~\E j \in Jobs : Spawn(j) PROVE spawned' = spawned
<1>1. QuietStep => spawned' = spawned
  BY DEF QuietStep, JobSteps, AttemptAudited, Refuse, RefusalAudited, SubmissionFrame,
     ExecutorRefuses, TerminationFails, QuarantineReleases, ChildEnds, Cancel, Shutdown,
     Environment, SyncStarts, SyncEnds, ModeChanges, SyncFrame
<1>2. ASSUME \E j \in Jobs, ok \in BOOLEAN, c \in Closers :
                \/ CompletionAudited(j, ok) \/ FailureAudited(j, ok) \/ OrphanAudited(j, ok)
                \/ FinishAudited(j, c, ok)
      PROVE  spawned' = spawned
  BY <1>2 DEF CompletionAudited, FailureAudited, OrphanAudited, FinishAudited, Finalize
<1>3. Storing => spawned' = spawned
  BY DEF Storing, StoreBegins, StoreCommits, StoreFails, StoreTimesOut, StoreEndsLate,
     StoreRefuses, Settle
<1>4. Pump \/ PumpResumes \/ PumpCleans \/ Stop \/ Restart \/ BootCompletes => spawned' = spawned
  BY DEF Pump, PumpResumes, PumpFrame, PumpCleans, Stop, Restart, BootCompletes, BootFrame
<1>5. ASSUME \E j \in Jobs : \/ Admit(j) \/ BootReads(j) \/ \E r \in Requests : Submit(j, r)
      PROVE  spawned' = spawned
  BY <1>5 DEF Admit, Submit, SubmissionFrame, BootReads, BootFrame
<1>6. UNCHANGED vars => spawned' = spawned
  BY DEF vars
<1>7. "none" \in Outcomes /\ TRUE \in BOOLEAN /\ "client" \in Closers
  BY DEF Outcomes, Closers
<1> QED
  BY <1>1, <1>2, <1>3, <1>4, <1>5, <1>6, <1>7
  DEF Next, Client, Submission, Running, Finishing, Pumping, QuietStep, JobSteps, Lifecycle,
      Exit, Crash, Boot

\* Every step takes the file of each job through one turn.
LEMMA StepTurns ==
  ASSUME TypeOK, RecoveryInv, CourseInv, EventsInv, OutputInv, [Next]_vars
  PROVE  \A k \in Jobs : Turns(k)
<1> SUFFICES ASSUME NEW k \in Jobs PROVE Turns(k)
  OBVIOUS
<1>1. UNCHANGED <<disk, forgotten>> => Turns(k)
  BY DEF Turns
<1>2. CASE QuietStep
  BY <1>1, <1>2, QuietFiles DEF FilesStay
<1>3. CASE \E j \in Jobs, ok \in BOOLEAN, c \in Closers :
              \/ CompletionAudited(j, ok) \/ FailureAudited(j, ok) \/ OrphanAudited(j, ok)
              \/ FinishAudited(j, c, ok)
  BY <1>1, <1>3 DEF CompletionAudited, FailureAudited, OrphanAudited, FinishAudited, RunFrame
<1>4. CASE Storing
  BY <1>4, StoreTurns
<1>5. CASE Pump \/ PumpResumes \/ PumpCleans
  BY <1>1, <1>5 DEF Pump, PumpResumes, PumpFrame, PumpCleans
<1>6. CASE Lifecycle
  <2>1. CASE BootCompletes \/ \E j \in Jobs : BootReads(j)
    BY <2>1, BootTurns
  <2>2. CASE Stop \/ Restart
    BY <1>1, <2>2 DEF Stop, Restart, store
  <2> QED
    BY <1>2, <1>6, <2>1, <2>2 DEF Lifecycle, Exit, Crash, Boot, QuietStep
<1>7. CASE \E j \in Jobs : Admit(j) \/ \E r \in Requests : Submit(j, r)
  BY <1>1, <1>7 DEF Admit, Submit, SubmissionFrame, store
<1>8. CASE UNCHANGED vars
  BY <1>1, <1>8 DEF vars, store
<1>9. "none" \in Outcomes /\ TRUE \in BOOLEAN /\ "client" \in Closers
  BY DEF Outcomes, Closers
<1> QED
  BY <1>2, <1>3, <1>4, <1>5, <1>6, <1>7, <1>8, <1>9
  DEF Next, Client, Submission, Running, Finishing, Pumping, QuietStep, JobSteps

\* What the file of a job says about it, as the contract sees it.
StatusOf(j) == IF j \in forgotten THEN "removed"
               ELSE IF disk[j].state = "absent" THEN "none"
               ELSE IF disk[j].state \in Live THEN "open"
               ELSE IF disk[j].result THEN "published" ELSE "closed"
Commands == {j \in Jobs : spawned[j] > 0}

\* A turn goes on with the life of the job or leaves it as it is.
LEMMA LifeGoesOn ==
  ASSUME TypeOK, TypeOK', OutputInv, OutputInv', NEW j \in Jobs, Turns(j)
  PROVE  /\ StatusOf(j)' # StatusOf(j) => <<StatusOf(j), StatusOf(j)'>> \in Contract!Life
         /\ StatusOf(j)' = "published" => spawned'[j] > 0
<1>1. disk[j] \in Record /\ disk'[j] \in Record /\ Shown(j) /\ Shown(j)'
  BY DEF TypeOK, RecordsType, OutputInv
<1>2. disk[j].state \in Live \cup Terminal \cup {"absent"}
      /\ disk'[j].state \in Live \cup Terminal \cup {"absent"}
  BY <1>1 DEF Record
<1>3. Live \cap Terminal = {} /\ "absent" \notin Live \cup Terminal /\ "running" \in Live
  BY DEF Live, Terminal
<1>4. disk'[j].result => disk'[j].state \in Terminal /\ spawned'[j] = 1
  BY <1>1 DEF Shown, Backed, Spent
<1>5. StatusOf(j)' = "published" => spawned'[j] > 0
  BY <1>4 DEF StatusOf
<1>6. CASE disk'[j] = disk[j] /\ (j \in forgotten' <=> j \in forgotten)
  BY <1>5, <1>6 DEF StatusOf
<1>7. CASE j \in forgotten /\ j \in forgotten'
  BY <1>5, <1>7 DEF StatusOf
<1>8. CASE j \in Aged /\ j \in forgotten' /\ j \notin forgotten
  <2>1. /\ j \in known /\ rec[j].state \in Terminal /\ ~storeFailed
        /\ run[j] \in {"idle", "end"} /\ \A c \in Closers : fin[j][c] \in {"idle", "end"}
    BY <1>8 DEF Aged
  <2>2. Calm(j) \/ Ended(j)
    BY <2>1 DEF Calm, Ended
  <2>3. disk[j].state \in Terminal
    BY <1>1, <2>1, <2>2 DEF Shown
  <2>4. StatusOf(j)' = "removed" /\ StatusOf(j) \in {"closed", "published"}
    BY <1>3, <1>8, <2>3 DEF StatusOf
  <2> QED
    BY <1>5, <2>4 DEF Contract!Life
<1>9. CASE /\ j \notin forgotten' /\ j \notin forgotten
           /\ disk'[j].state # "absent" /\ ~disk[j].result
           /\ disk[j].state \in Terminal => disk'[j].state \in Terminal
           /\ disk'[j].result => disk[j].state = "running"
  <2>1. CASE disk[j].state = "absent"
    <3>1. StatusOf(j) = "none" /\ StatusOf(j)' \in {"open", "closed"}
      BY <1>3, <1>9, <2>1 DEF StatusOf
    <3> QED
      BY <1>5, <3>1 DEF Contract!Life
  <2>2. CASE disk[j].state \in Live
    <3>1. StatusOf(j) = "open" /\ StatusOf(j)' \in {"open", "closed", "published"}
      BY <1>3, <1>9, <2>2 DEF StatusOf
    <3> QED
      BY <1>5, <3>1 DEF Contract!Life
  <2>3. CASE disk[j].state \in Terminal
    <3>1. StatusOf(j) = "closed" /\ StatusOf(j)' = "closed"
      BY <1>3, <1>9, <2>3 DEF StatusOf
    <3> QED
      BY <1>5, <3>1
  <2> QED
    BY <1>2, <2>1, <2>2, <2>3
<1> QED
  BY <1>6, <1>7, <1>8, <1>9 DEF Turns

\* A command is started while its file shows the job accepted and unfinished.
LEMMA StartsOpen ==
  ASSUME TypeOK, StartInv, CourseInv, DurableInv, PlacesInv, NEW j \in Jobs, Spawn(j)
  PROVE  /\ j \notin Commands /\ Commands' = Commands \cup {j}
         /\ StatusOf(j) = "open" /\ UNCHANGED <<disk, forgotten>>
<1>1. run[j] = "mode" /\ UNCHANGED <<disk, forgotten>> /\ spawned' = [spawned EXCEPT ![j] = @ + 1]
  BY DEF Spawn, RunFrame
<1>2. spawned[j] = 0 /\ j \notin forgotten /\ disk[j].state = "running"
  BY <1>1 DEF StartInv, JobInv, DurableInv, Secured, Reached, PlacesInv, Placed, Over
<1>3. spawned \in [Jobs -> Nat]
  BY DEF TypeOK, HistoryType
<1>4. \A k \in Jobs : spawned'[k] = IF k = j THEN 1 ELSE spawned[k]
  BY <1>1, <1>2, <1>3
<1> QED
  BY <1>1, <1>2, <1>3, <1>4 DEF Commands, StatusOf, Live

\* So every step is a start or a write of the contract, or changes nothing.
LEMMA ContractStep ==
  ASSUME TypeOK, StartInv, RecoveryInv, CourseInv, DurableInv, EventsInv, PlacesInv, OutputInv,
         TypeOK', OutputInv', [Next]_vars
  PROVE  Contract!Next \/ UNCHANGED <<[j \in Jobs |-> StatusOf(j)], Commands>>
<1>1. CASE \E j \in Jobs : Spawn(j)
  <2>1. PICK j \in Jobs : Spawn(j)
    BY <1>1
  <2>2. /\ j \notin Commands /\ Commands' = Commands \cup {j}
        /\ StatusOf(j) = "open" /\ UNCHANGED <<disk, forgotten>>
    BY <2>1, StartsOpen
  <2> QED
    BY <2>2 DEF Contract!Next, Contract!Start, StatusOf, Commands
<1>2. CASE ~\E j \in Jobs : Spawn(j)
  <2>1. spawned' = spawned /\ \A j \in Jobs : Turns(j)
    BY <1>2, OnlySpawnStarts, StepTurns
  <2>2. \A j \in Jobs :
           /\ StatusOf(j)' # StatusOf(j) => <<StatusOf(j), StatusOf(j)'>> \in Contract!Life
           /\ StatusOf(j)' = "published" => j \in Commands
    BY <2>1, LifeGoesOn DEF Commands
  <2>3. \A j \in Jobs : StatusOf(j)' \in Contract!Status
    BY DEF StatusOf, Contract!Status
  <2> QED
    BY <2>1, <2>2, <2>3 DEF Contract!Next, Contract!Write, StatusOf, Commands
<1> QED
  BY <1>1, <1>2

\* The service implements the contract of a job: its file goes through one
\* life over all restarts, its command is started at most once and only while
\* the file shows it accepted and unfinished, and output is published only for
\* a job whose command was started.
THEOREM ServiceKeepsTheContract == Spec => ContractHolds
<1>1. Init => Contract!Init
  BY DEF Init, Contract!Init, NoRecord
<1>2. TypeOK /\ StartInv /\ RecoveryInv /\ CourseInv /\ DurableInv /\ EventsInv /\ PlacesInv
      /\ OutputInv /\ TypeOK' /\ OutputInv' /\ [Next]_vars
         => [Contract!Next]_<<[j \in Jobs |->
                                  IF j \in forgotten THEN "removed"
                                  ELSE IF disk[j].state = "absent" THEN "none"
                                  ELSE IF disk[j].state \in Live THEN "open"
                                  ELSE IF disk[j].result THEN "published" ELSE "closed"],
                              {j \in Jobs : spawned[j] > 0}>>
  BY ContractStep DEF StatusOf, Commands
<1> QED
  BY <1>1, <1>2, TypeCorrect, StartInvariant, RecoveryInvariant, CourseInvariant,
     DurableInvariant, EventsInvariant, PlacesInvariant, OutputInvariant, PTL
  DEF Spec, ContractHolds, Contract!Spec
=============================================================================
