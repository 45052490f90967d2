------------------------- MODULE FileTransferProofs -------------------------
(***************************************************************************)
(* FileTransfer for any number of transfers, restarts and faults: one       *)
(* transfer at a time, since active stays with a transfer until its last    *)
(* finally and not until its caller is answered; the audit trail and the    *)
(* answers tell what happened to the file; and the types, with the sizes of *)
(* the audit files.                                                         *)
(***************************************************************************)
EXTENDS FileTransfer, FiniteSetTheorems, TLAPS

\* Who is at work in the directory has acquired the service.
Acquired ==
    /\ step \in [Transfers -> Steps]
    /\ active \in Transfers \cup {0}
    /\ \A t \in Transfers : step[t] \in InDirectory => active = t

\* Nobody is there at first.
LEMMA AcquiredInit == Init => Acquired
  BY FileTransferAssumption DEF Init, Acquired, InDirectory, Steps

\* A step of t that neither takes nor frees the service leaves it outside the
\* directory or was inside before.
LEMMA AcquiredGoes ==
  ASSUME Acquired, NEW t \in Transfers, NEW s \in Steps, Goes(t, s),
         UNCHANGED active,
         s \in InDirectory => step[t] \in InDirectory
  PROVE  Acquired'
  BY DEF Acquired, Goes

\* A step that touches neither keeps it.
LEMMA AcquiredStays ==
  ASSUME Acquired, UNCHANGED <<step, active>>
  PROVE  Acquired'
  BY DEF Acquired

\* perform and performInternal: the service is taken when it is free, and
\* given back by the one that has it.
LEMMA PerformKeepsAcquired ==
  ASSUME Acquired, NEW t \in Transfers,
         Call(t) \/ AttemptFails(t) \/ Attempted(t) \/ Closes(t)
  PROVE  Acquired'
  <1> USE DEF Steps, InDirectory
  <1>1. CASE Call(t)
    BY <1>1, AcquiredGoes DEF Call, proc
  <1>2. CASE AttemptFails(t)
    BY <1>2, AcquiredGoes DEF AttemptFails, proc
  <1>3. CASE Attempted(t)
    <2>1. CASE UNCHANGED active /\ Goes(t, "closing")
      BY <2>1, AcquiredGoes
    <2>2. CASE active = 0 /\ active' = t /\ Goes(t, "root")
      BY <2>2, FileTransferAssumption DEF Acquired, Goes
    <2> QED
      BY <1>3, <2>1, <2>2 DEF Attempted, Terminal
  <1>4. CASE Closes(t)
    <2>1. CASE active = t
      BY <1>4, <2>1, FileTransferAssumption DEF Acquired, Closes, Goes
    <2>2. CASE active # t
      BY <1>4, <2>2, AcquiredGoes DEF Closes
    <2> QED
      BY <2>1, <2>2
  <1> QED
    BY <1>1, <1>2, <1>3, <1>4

\* The steps in the directory lead to one another or to the terminal event.
LEMMA DirectoryKeepsAcquired ==
  ASSUME Acquired, NEW t \in Transfers, Directory(t)
  PROVE  Acquired'
  <1> USE DEF Steps, InDirectory
  <1>1. CASE Root(t) \/ Lock(t) \/ Scan(t) \/ Create(t) \/ Write(t)
    <2>1. UNCHANGED active /\ step[t] \in InDirectory
      BY <1>1 DEF Root, Lock, Scan, Create, Write, Inside, NoTrail, proc
    <2>2. \E s \in Steps : Goes(t, s)
      BY <1>1 DEF Root, Lock, Scan, Create, Write
    <2> QED
      BY <2>1, <2>2, AcquiredGoes
  <1>2. CASE Link(t) \/ Verify(t) \/ Cleanup(t) \/ Read(t)
    <2>1. UNCHANGED active /\ step[t] \in InDirectory
      BY <1>2 DEF Link, Verify, Cleanup, Read, Inside, NoTrail, proc
    <2>2. \E s \in Steps : Goes(t, s)
      BY <1>2 DEF Link, Verify, Cleanup, Read
    <2> QED
      BY <2>1, <2>2, AcquiredGoes
  <1>3. CASE Release(t)
    BY <1>3, AcquiredGoes DEF Release, Terminal, proc
  <1> QED
    BY <1>1, <1>2, <1>3 DEF Directory

\* Every step keeps the owner of the directory.
LEMMA AcquiredStep == Acquired /\ [Next]_vars => Acquired'
  <1> SUFFICES ASSUME Acquired, [Next]_vars PROVE Acquired'
    OBVIOUS
  <1>1. CASE UNCHANGED <<step, active>>
    BY <1>1, AcquiredStays
  <1>2. CASE \E t \in Transfers : Call(t) \/ Directory(t) \/ Answering(t)
    BY <1>2, PerformKeepsAcquired, DirectoryKeepsAcquired DEF Answering
  <1>3. CASE Restart
    BY <1>3 DEF Restart, Acquired, Steps, InDirectory
  <1>4. CASE SomeTimer \/ AuditLog \/ Shutdown
    BY <1>1, <1>4 DEF SomeTimer, Timers, Deadline, AuditLog, Shutdown, call, proc
  <1>5. CASE (OperationStarts \/ ListAnswered) /\ UNCHANGED <<call, disk, proc>>
    BY <1>1, <1>5 DEF call, proc
  <1> QED
    BY <1>1, <1>2, <1>3, <1>4, <1>5 DEF Next, Resumed, vars, call, proc

\* What has at most one member has at most one element.
LEMMA AtMostOne ==
  ASSUME NEW S, NEW x, S \subseteq {x}
  PROVE  Cardinality(S) <= 1
  <1>1. IsFiniteSet({x}) /\ Cardinality({x}) = 1
    BY FS_Singleton
  <1> QED
    BY <1>1, FS_Subset

\* In every behaviour at most one transfer is at work in the directory, also
\* after the caller of the first was told FILE_TIMEOUT
\* (FileTransfer.OneAtATime).
THEOREM OneTransfer == Spec => []OneAtATime
  <1>1. Acquired => OneAtATime
    <2> SUFFICES ASSUME Acquired PROVE OneAtATime
      OBVIOUS
    <2>1. {t \in Transfers : step[t] \in InDirectory} \subseteq {active}
      BY DEF Acquired
    <2> QED
      BY <2>1, AtMostOne DEF OneAtATime
  <1> QED
    BY <1>1, AcquiredInit, AcquiredStep, PTL DEF Spec

-----------------------------------------------------------------------------
(* The queue of the audit log and the promises of its callers.  A caller     *)
(* waits exactly while its own operation is pending and not past its         *)
(* deadline, and the storage works for the operation at the head.            *)

Events  == [t : Transfers, phase : {"attempted", "completed", "blocked", "failed"},
            committed : BOOLEAN]
Entries == [by : Transfers, ev : Events, late : BOOLEAN]
              \cup [by : {Reader}, ev : {"list"}, late : BOOLEAN]
Writing == {"helper", "remove", "rename", "append", "sync"}

QueueInv ==
    /\ queue \in Seq(Entries) /\ order \in Seq(Events)
    /\ reply \in [Transfers \cup {Reader} -> {"none", "waiting", "ok", "failed"}]
    /\ io \in {"idle", "read"} \cup Writing /\ (io # "idle" => queue # <<>>)
    /\ io = "read" => Head1.by = Reader
    /\ io \in Writing => Head1.by # Reader
    /\ \A i \in 1..Len(queue) : ~queue[i].late => reply[queue[i].by] = "waiting"
    /\ \A i, j \in 1..Len(queue) :
          ~queue[i].late /\ ~queue[j].late /\ queue[i].by = queue[j].by => i = j

\* The events a pending or a past operation writes, and the one a caller waits for.
Holds(e)    == \/ \E i \in 1..Len(queue) : queue[i].by # Reader /\ queue[i].ev = e
               \/ \E i \in 1..Len(order) : order[i] = e
Waits(t, e) == \E i \in 1..Len(queue) : queue[i].by = t /\ ~queue[i].late /\ queue[i].ev = e

\* What the log and its timers do to the transfers.
Hears(t) ==
    \/ reply'[t] = reply[t]
    \/ reply[t] = "waiting" /\ reply'[t] = "failed"
    \/ reply[t] = "waiting" /\ reply'[t] = "ok" /\ \E e \in acked' : Waits(t, e)
TrailMoves ==
    /\ acked \subseteq acked'
    /\ \A e : Holds(e)' => Holds(e)
    /\ \A t \in Transfers : Hears(t) /\ \A e : Waits(t, e)' => Waits(t, e)

\* Readers and writers do not mix.
LEMMA EntryKinds ==
  ASSUME QueueInv, NEW i \in 1..Len(queue)
  PROVE  /\ queue[i] \in Entries /\ queue[i].by \in Transfers \cup {Reader}
         /\ queue[i].by # Reader => queue[i].by \in Transfers /\ queue[i].ev \in Events
  BY FileTransferAssumption, AuditTrailAssumption DEF QueueInv, Entries, Events

\* Submit adds the operation of a caller that is not waiting, or refuses it.
LEMMA SubmitKeeps ==
  ASSUME QueueInv, NEW c \in Transfers \cup {Reader}, NEW ev,
         [by |-> c, ev |-> ev, late |-> FALSE] \in Entries,
         reply[c] # "waiting", Submit(c, ev)
  PROVE  /\ QueueInv'
         /\ UNCHANGED <<acked, order>>
         /\ \A d \in Transfers \cup {Reader} : d # c => reply'[d] = reply[d]
         /\ reply'[c] \in {"waiting", "failed"}
         /\ \A e : Holds(e)' => Holds(e) \/ (c # Reader /\ e = ev)
         /\ \A d, e : Waits(d, e)' => IF d = c THEN e = ev ELSE Waits(d, e)
<1> DEFINE x == [by |-> c, ev |-> ev, late |-> FALSE]
<1>1. CASE queue' = Append(queue, x) /\ reply' = [reply EXCEPT ![c] = "waiting"]
  <2>1. /\ queue' \in Seq(Entries) /\ Len(queue') = Len(queue) + 1 /\ Len(queue) \in Nat
        /\ \A i \in 1..Len(queue) : queue'[i] = queue[i]
        /\ queue'[Len(queue) + 1] = x
    BY <1>1 DEF QueueInv
  <2>2. \A i \in 1..Len(queue') : i \in 1..Len(queue) \/ i = Len(queue) + 1
    BY <2>1
  <2>3. \A i \in 1..Len(queue) : ~queue[i].late => queue[i].by # c
    BY DEF QueueInv
  <2>4. UNCHANGED <<io, order, acked>>
    BY DEF Submit, logged
  <2>5. io # "idle" => 1 \in 1..Len(queue)
    BY DEF QueueInv
  <2>6. \A i \in 1..Len(queue) : queue[i].by \in Transfers \cup {Reader}
    BY EntryKinds
  <2>7. QueueInv'
    <3>1. \A i \in 1..Len(queue') : ~queue'[i].late => reply'[queue'[i].by] = "waiting"
      BY <1>1, <2>1, <2>2, <2>3, <2>6 DEF QueueInv
    <3>2. \A i, j \in 1..Len(queue') :
            ~queue'[i].late /\ ~queue'[j].late /\ queue'[i].by = queue'[j].by => i = j
      BY <2>1, <2>2, <2>3 DEF QueueInv
    <3>3. io # "idle" => queue' # <<>> /\ queue'[1] = queue[1]
      BY <2>1, <2>5
    <3> QED
      BY <1>1, <2>1, <2>4, <3>1, <3>2, <3>3 DEF QueueInv, Head1, Writing
  <2>8. \A e : Holds(e)' => Holds(e) \/ (c # Reader /\ e = ev)
    BY <2>1, <2>2, <2>4 DEF Holds
  <2>9. \A d, e : Waits(d, e)' => IF d = c THEN e = ev ELSE Waits(d, e)
    BY <2>1, <2>2, <2>3 DEF Waits
  <2> QED
    BY <1>1, <2>4, <2>7, <2>8, <2>9 DEF QueueInv
<1>2. CASE UNCHANGED queue /\ reply' = [reply EXCEPT ![c] = "failed"]
  <2>1. \A i \in 1..Len(queue) : ~queue[i].late => queue[i].by # c
    BY DEF QueueInv
  <2>2. UNCHANGED <<io, order, acked>>
    BY DEF Submit, logged
  <2>3. QueueInv'
    BY <1>2, <2>1, <2>2, EntryKinds DEF QueueInv, Head1
  <2> QED
    BY <1>2, <2>1, <2>2, <2>3 DEF QueueInv, Holds, Waits
<1> QED
  BY <1>1, <1>2 DEF Submit

\* The operation at the head ends: its caller hears of it, if it still waits.
LEMMA EndsKeeps ==
  ASSUME QueueInv, queue # <<>>, NEW how \in {"ok", "failed"}, Ends(how),
         order' \in Seq(Events),
         \A i \in 1..Len(order') : (\E k \in 1..Len(order) : order[k] = order'[i])
                                    \/ (Head1.by # Reader /\ order'[i] = Head1.ev)
  PROVE  /\ QueueInv' 
         /\ \A e : Holds(e)' => Holds(e)
         /\ \A d, e : Waits(d, e)' => Waits(d, e)
         /\ \A d \in Transfers \cup {Reader} :
               \/ reply'[d] = reply[d]
               \/ /\ reply[d] = "waiting" /\ reply'[d] = how
                  /\ d = Head1.by /\ Waits(d, Head1.ev)
<1>1. /\ queue' \in Seq(Entries) /\ Len(queue) \in Nat /\ Len(queue') = Len(queue) - 1
      /\ \A i \in 1..Len(queue') : queue'[i] = queue[i + 1] /\ i + 1 \in 1..Len(queue)
      /\ 1 \in 1..Len(queue)
  BY DEF QueueInv, Ends
<1>2. \A i \in 1..Len(queue) : queue[i].by \in Transfers \cup {Reader}
  BY EntryKinds
<1>3. \A i \in 1..Len(queue) : ~queue[1].late /\ ~queue[i].late /\ i # 1
                                 => queue[i].by # queue[1].by
  BY <1>1 DEF QueueInv
<1>4. \A i \in 1..Len(queue') : ~queue'[i].late => reply'[queue'[i].by] = "waiting"
  <2>1. SUFFICES ASSUME NEW i \in 1..Len(queue'), ~queue'[i].late
                 PROVE  reply'[queue'[i].by] = "waiting"
    OBVIOUS
  <2>2. queue'[i] = queue[i + 1] /\ i + 1 \in 1..Len(queue) /\ i + 1 # 1
    BY <1>1
  <2>3. reply[queue[i + 1].by] = "waiting" /\ queue[i + 1].by \in Transfers \cup {Reader}
    BY <2>1, <2>2, <1>2 DEF QueueInv
  <2> QED
    BY <2>1, <2>2, <2>3, <1>3, <1>1 DEF Ends, Head1, QueueInv
<1>5. \A i, j \in 1..Len(queue') :
        ~queue'[i].late /\ ~queue'[j].late /\ queue'[i].by = queue'[j].by => i = j
  <2>1. \A i, j \in 1..Len(queue) :
          ~queue[i].late /\ ~queue[j].late /\ queue[i].by = queue[j].by => i = j
    BY DEF QueueInv
  <2> SUFFICES ASSUME NEW i \in 1..Len(queue'), NEW j \in 1..Len(queue'), ~queue'[i].late,
                      ~queue'[j].late, queue'[i].by = queue'[j].by
               PROVE  i = j
    OBVIOUS
  <2>2. /\ queue'[i] = queue[i + 1] /\ i + 1 \in 1..Len(queue)
        /\ queue'[j] = queue[j + 1] /\ j + 1 \in 1..Len(queue)
    BY <1>1
  <2>3. i + 1 = j + 1
    BY <2>1, <2>2
  <2> QED
    BY <2>3
<1>6. \A d \in Transfers \cup {Reader} :
        \/ reply'[d] = reply[d]
        \/ /\ reply[d] = "waiting" /\ reply'[d] = how
           /\ d = Head1.by /\ Waits(d, Head1.ev)
  BY <1>1, <1>2 DEF Ends, QueueInv, Head1, Waits
<1>7. QueueInv'
  <2>1. reply' \in [Transfers \cup {Reader} -> {"none", "waiting", "ok", "failed"}]
    BY DEF QueueInv, Ends
  <2> QED
    BY <1>1, <1>4, <1>5, <2>1 DEF QueueInv, Ends, Writing
<1>8. \A e : Holds(e)' => Holds(e)
  BY <1>1 DEF Holds, Head1
<1>9. \A d, e : Waits(d, e)' => Waits(d, e)
  BY <1>1 DEF Waits
<1> QED
  BY <1>6, <1>7, <1>8, <1>9

\* A caller gives up the wait for its operation.
LEMMA DeadlineKeeps ==
  ASSUME QueueInv, NEW c \in Transfers \cup {Reader}, CallerDeadline(c)
  PROVE  QueueInv' /\ TrailMoves
<1>1. PICK k \in Pending(c) : queue' = [queue EXCEPT ![k].late = TRUE]
  BY DEF CallerDeadline
<1>2. /\ k \in 1..Len(queue) /\ queue[k].by = c /\ ~queue[k].late
      /\ reply[c] = "waiting" /\ Len(queue) \in Nat
  BY DEF Pending, QueueInv
<1>3. queue[k] \in Entries
  BY <1>2 DEF QueueInv
<1>4. /\ queue' \in Seq(Entries) /\ Len(queue') = Len(queue)
      /\ \A i \in 1..Len(queue) : i # k => queue'[i] = queue[i]
      /\ queue'[k].by = c /\ queue'[k].ev = queue[k].ev /\ queue'[k].late
  <2>1. [queue[k] EXCEPT !.late = TRUE] \in Entries
    BY <1>3 DEF Entries
  <2>2. queue' = [queue EXCEPT ![k] = [queue[k] EXCEPT !.late = TRUE]]
    BY <1>1
  <2> QED
    BY <1>2, <1>3, <2>1, <2>2 DEF QueueInv, Entries
<1>5. /\ reply' = [reply EXCEPT ![c] = "failed"] /\ UNCHANGED <<io, order, acked>>
  BY DEF CallerDeadline, logged
<1>6. \A i \in 1..Len(queue) : ~queue'[i].late => ~queue[i].late /\ i # k /\ queue[i].by # c
  BY <1>2, <1>4 DEF QueueInv
<1>7. QueueInv'
  <2>1. \A i \in 1..Len(queue') : ~queue'[i].late => reply'[queue'[i].by] = "waiting"
    BY <1>4, <1>5, <1>6, EntryKinds DEF QueueInv
  <2>2. \A i, j \in 1..Len(queue') :
          ~queue'[i].late /\ ~queue'[j].late /\ queue'[i].by = queue'[j].by => i = j
    BY <1>4, <1>6 DEF QueueInv
  <2>3. queue # <<>> => queue' # <<>> /\ queue'[1].by = queue[1].by
    BY <1>2, <1>4 DEF QueueInv
  <2> QED
    BY <1>4, <1>5, <2>1, <2>2, <2>3 DEF QueueInv, Head1, Writing
<1>8. TrailMoves
  BY <1>2, <1>4, <1>5, <1>6 DEF TrailMoves, Hears, Holds, Waits, QueueInv
<1> QED
  BY <1>7, <1>8

\* A reply is taken by the one it was for.
LEMMA ReplyTaken ==
  ASSUME QueueInv, NEW c \in Transfers \cup {Reader}, reply[c] # "waiting",
         reply' = [reply EXCEPT ![c] = "none"], UNCHANGED <<queue, io, order, acked>>
  PROVE  /\ QueueInv' /\ reply'[c] = "none"
         /\ \A d \in Transfers : d # c => reply'[d] = reply[d]
         /\ \A e : Holds(e)' => Holds(e)
         /\ \A d, e : Waits(d, e)' => Waits(d, e)
  BY EntryKinds DEF QueueInv, Head1, Holds, Waits

\* The event of the writing operation is one the queue held.
LEMMA AppendedHeld ==
  ASSUME QueueInv, queue # <<>>, Head1.by # Reader, order' = Append(order, Head1.ev)
  PROVE  /\ order' \in Seq(Events)
         /\ \A i \in 1..Len(order') :
               (\E k \in 1..Len(order) : order[k] = order'[i]) \/ order'[i] = Head1.ev
<1>1. 1 \in 1..Len(queue) /\ order \in Seq(Events)
  BY DEF QueueInv
<1>2. Head1.ev \in Events
  BY <1>1, EntryKinds DEF Head1
<1> QED
  BY <1>1, <1>2

\* An end that nobody is told of as a success moves the trail.
LEMMA RejectionMoves ==
  ASSUME QueueInv, queue # <<>>, Rejects, acked \subseteq acked',
         \/ UNCHANGED order
         \/ Head1.by # Reader /\ order' = Append(order, Head1.ev)
  PROVE  QueueInv' /\ TrailMoves
<1>1. 1 \in 1..Len(queue)
  BY DEF QueueInv
<1>2. /\ order' \in Seq(Events)
      /\ \A i \in 1..Len(order') : (\E k \in 1..Len(order) : order[k] = order'[i])
                                    \/ (Head1.by # Reader /\ order'[i] = Head1.ev)
  BY <1>1, AppendedHeld DEF QueueInv
<1>3. Ends("failed")
  BY DEF Rejects
<1> QED
  BY <1>2, <1>3, EndsKeeps DEF TrailMoves, Hears

\* A write that ends: what its caller is told was written is on record.
LEMMA WriteEnds ==
  ASSUME QueueInv, io \in Writing, NEW how \in {"ok", "failed"}, Ends(how), Acked,
         UNCHANGED order \/ order' = Append(order, Head1.ev)
  PROVE  QueueInv' /\ TrailMoves
<1>1. queue # <<>> /\ 1 \in 1..Len(queue) /\ Head1.by # Reader
  BY DEF QueueInv, Writing
<1>2. /\ order' \in Seq(Events)
      /\ \A i \in 1..Len(order') : (\E k \in 1..Len(order) : order[k] = order'[i])
                                    \/ (Head1.by # Reader /\ order'[i] = Head1.ev)
  BY <1>1, AppendedHeld DEF QueueInv
<1>3. acked \subseteq acked' /\ (reply'[Head1.by] = "ok" => Head1.ev \in acked')
  BY DEF Acked
<1> QED
  BY <1>1, <1>2, <1>3, EndsKeeps DEF TrailMoves, Hears

\* A step that leaves the queue and the replies alone.
LEMMA TrailRests ==
  ASSUME QueueInv, UNCHANGED <<queue, reply, acked>>,
         io' = io \/ (io \in Writing /\ io' \in Writing),
         \/ UNCHANGED order
         \/ io \in Writing /\ order' = Append(order, Head1.ev)
  PROVE  QueueInv' /\ TrailMoves
<1>1. io \in Writing => 1 \in 1..Len(queue) /\ Head1.by # Reader
  BY DEF QueueInv, Writing
<1>2. /\ order' \in Seq(Events)
      /\ \A i \in 1..Len(order') : (\E k \in 1..Len(order) : order[k] = order'[i])
                                    \/ (1 \in 1..Len(queue) /\ Head1.by # Reader
                                           /\ order'[i] = Head1.ev)
  BY <1>1, AppendedHeld DEF QueueInv, Writing
<1>3. QueueInv'
  BY <1>1, <1>2 DEF QueueInv, Head1, Writing
<1>4. \A e : Holds(e)' => Holds(e)
  BY <1>2 DEF Holds, Head1
<1> QED
  BY <1>3, <1>4 DEF TrailMoves, Hears, Waits

\* The storage of the log keeps the queue; it tells a caller of a success only
\* when the event is on record.
LEMMA StorageMoves == ASSUME QueueInv, Storage PROVE QueueInv' /\ TrailMoves
<1> USE DEF Writing
<1>1. ASSUME RemovesOldest \/ Renames PROVE QueueInv' /\ TrailMoves
  BY <1>1, TrailRests DEF RemovesOldest, Renames, logged
<1>2. ASSUME Appends PROVE QueueInv' /\ TrailMoves
  BY <1>2, TrailRests DEF Appends
<1>3. ASSUME Syncs PROVE QueueInv' /\ TrailMoves
  BY <1>3, WriteEnds DEF Syncs, Acks, Rejects
<1>4. ASSUME FileFails PROVE QueueInv' /\ TrailMoves
  BY <1>4, RejectionMoves DEF FileFails, QueueInv
<1>5. ASSUME HelperWrites PROVE QueueInv' /\ TrailMoves
  BY <1>5, WriteEnds DEF HelperWrites, Acks, Rejects
<1>6. ASSUME HelperFails PROVE QueueInv' /\ TrailMoves
  BY <1>6, RejectionMoves DEF HelperFails, QueueInv
<1>7. ASSUME ReadFails PROVE QueueInv' /\ TrailMoves
  BY <1>7, RejectionMoves DEF ReadFails, QueueInv, logged
<1>8. ASSUME Reads PROVE QueueInv' /\ TrailMoves
  <2>1. /\ queue # <<>> /\ Head1.by = Reader /\ UNCHANGED <<order, acked>>
        /\ \E how \in {"ok", "failed"} : Ends(how)
    BY <1>8 DEF Reads, QueueInv, logged, Acks, Rejects
  <2>2. Reader \notin Transfers
    BY FileTransferAssumption, AuditTrailAssumption
  <2> QED
    BY <2>1, <2>2, EndsKeeps DEF TrailMoves, Hears, QueueInv
<1> QED
  BY <1>1, <1>2, <1>3, <1>4, <1>5, <1>6, <1>7, <1>8 DEF Storage

\* An operation comes to the head, or is refused there.
LEMMA OperationMoves ==
  ASSUME QueueInv, backend \in Backends, OperationStarts
  PROVE  QueueInv' /\ TrailMoves
<1>1. CASE Rejects
  BY <1>1, RejectionMoves DEF OperationStarts, logged
<1>2. CASE io' = Work /\ UNCHANGED <<queue, reply>>
  <2>1. /\ IsRead => Work = "read"
        /\ ~IsRead => Work \in Writing
    BY AuditTrailAssumption DEF Work, Writing
  <2>2. UNCHANGED <<order, acked>> /\ queue # <<>>
    BY DEF OperationStarts, logged
  <2> QED
    <3>1. TrailMoves
      BY <1>2, <2>2 DEF TrailMoves, Hears, Holds, Waits
    <3>2. /\ io' \in {"idle", "read"} \cup Writing /\ queue' # <<>>
          /\ io' = "read" => Head1.by = Reader
          /\ io' \in Writing => Head1.by # Reader
      BY <1>2, <2>1, <2>2 DEF IsRead, Writing
    <3> QED
      BY <1>2, <2>2, <3>1, <3>2 DEF QueueInv, Head1
<1> QED
  BY <1>1, <1>2 DEF OperationStarts

-----------------------------------------------------------------------------
(* What the trail and the callers are told is what happened.  An event is    *)
(* composed when it is submitted, and written later, perhaps long after its  *)
(* caller gave up; it stays true because committed no longer changes once    *)
(* performInternal is at its end.                                            *)

Ended     == {"closing", "over"}
Untouched == {"idle", "attempting", "root", "lock", "scan", "create", "write", "link", "read"}

CallTypes ==
    /\ operation \in [Transfers -> Operations \cup {"none"}] /\ step \in [Transfers -> Steps]
    /\ err \in [Transfers -> Errors \cup {"none"}] /\ answer \in [Transfers -> Answers]
    /\ committed \in [Transfers -> BOOLEAN]
    /\ temps \subseteq Transfers /\ dest \in Transfers \cup {0}

Attempt(t) == [t |-> t, phase |-> "attempted", committed |-> FALSE]
Final(t)   == Event(t, Phase(t, err[t]))
Fits(e)    == e.phase # "attempted" =>
                /\ step[e.t] \in Ended /\ e.committed = committed[e.t]
                /\ e.phase = "blocked" => ~e.committed

\* How far the transfer has come, and with which error.
Progress(t) ==
    /\ committed[t] <=> dest = t
    /\ step[t] \in Untouched => ~committed[t] /\ err[t] = "none"
    /\ step[t] = "verify" => committed[t] /\ err[t] = "none"
    /\ step[t] \in {"create", "write", "link", "verify", "cleanup"} => operation[t] = "upload"
    /\ step[t] = "read" \/ operation[t] # "upload" => ~committed[t]
    /\ step[t] = "read" => operation[t] # "upload"
    /\ step[t] \in {"cleanup", "release", "closing"} =>
          /\ err[t] = "none" /\ operation[t] = "upload" => committed[t]
          /\ err[t] = "refused" => ~committed[t]

\* What is on record of it.
Recording(t) ==
    /\ step[t] \notin {"attempting", "closing"} => reply[t] = "none"
    /\ \A e : Waits(t, e) => \/ step[t] = "attempting" /\ e = Attempt(t)
                             \/ step[t] = "closing" /\ e = Final(t)
    /\ reply[t] = "ok" => \/ step[t] = "attempting" /\ Attempt(t) \in acked
                          \/ step[t] = "closing" /\ Final(t) \in acked
    /\ step[t] \in InDirectory \/ t \in temps \/ committed[t] => Attempt(t) \in acked

\* What its caller was told.
Answered(t) ==
    /\ answer[t] \in {"ok", "unrecorded", "unaudited", "refused"} => step[t] = "over"
    /\ answer[t] = "ok" =>
          [t |-> t, phase |-> "completed", committed |-> operation[t] = "upload"] \in acked
    /\ answer[t] = "ok" /\ operation[t] = "upload" => committed[t]
    /\ answer[t] = "unrecorded" => committed[t]
    /\ answer[t] \in {"unaudited", "refused"} => ~committed[t]

True(t) == Progress(t) /\ Recording(t) /\ Answered(t)

TruthInv == /\ QueueInv /\ CallTypes
            /\ \A t \in Transfers : True(t)
            /\ \A e : Holds(e) => Fits(e)

\* Nothing is recorded or answered at first.
LEMMA TruthInit == Init => TruthInv
<1> SUFFICES ASSUME Init PROVE TruthInv
  OBVIOUS
<1>1. QueueInv
  BY FileTransferAssumption, AuditTrailAssumption DEF Init, AuditInit, QueueInv, Writing
<1>2. CallTypes
  BY DEF Init, CallTypes, Steps, InDirectory, Answers
<1>3. \A t \in Transfers : True(t)
  BY FileTransferAssumption
  DEF Init, AuditInit, True, Progress, Recording, Answered, Waits, InDirectory
<1>4. \A e : ~Holds(e)
  BY DEF Init, AuditInit, Holds
<1> QED
  BY <1>1, <1>2, <1>3, <1>4 DEF TruthInv

\* The invariant implies what a reader of the trail relies on.
LEMMA TruthImplies == TruthInv => TerminalTellsTruth
<1> SUFFICES ASSUME TruthInv PROVE TerminalTellsTruth
  OBVIOUS
<1>1. \A e \in ToSet(order) : Fits(e) /\ e \in Events
  BY DEF TruthInv, Holds, ToSet, QueueInv
<1>2. \A t \in Transfers : True(t)
  BY DEF TruthInv
<1>3. \A e \in ToSet(order) :
        /\ e.phase # "attempted" => (e.committed <=> dest = e.t)
        /\ e.phase = "blocked" => dest # e.t
  BY <1>1, <1>2 DEF Fits, Events, True, Progress
<1>4. \A t \in Transfers : dest = t \/ t \in temps =>
        [t |-> t, phase |-> "attempted", committed |-> FALSE] \in acked
  BY <1>2 DEF True, Progress, Recording, Attempt
<1>5. \A t \in Transfers :
        /\ answer[t] = "ok" =>
              /\ [t |-> t, phase |-> "completed", committed |-> operation[t] = "upload"] \in acked
              /\ operation[t] = "upload" => dest = t
        /\ answer[t] = "unrecorded" => dest = t
        /\ answer[t] \in {"unaudited", "refused"} => dest # t
  BY <1>2 DEF True, Progress, Answered
<1> QED
  BY <1>3, <1>4, <1>5 DEF TerminalTellsTruth

\* A transfer that a step does not touch.
LEMMA OthersTrue ==
  ASSUME NEW u \in Transfers, True(u), acked \subseteq acked', Hears(u),
         \A e : Waits(u, e)' => Waits(u, e),
         step'[u] = step[u], err'[u] = err[u], answer'[u] = answer[u],
         committed'[u] = committed[u], operation'[u] = operation[u],
         u \in temps' => u \in temps, dest' = u <=> dest = u
  PROVE  True(u)'
<1>1. Progress(u)' /\ Answered(u)'
  BY DEF True, Progress, Answered
<1>2. Attempt(u)' = Attempt(u) /\ Final(u)' = Final(u)
  BY DEF Attempt, Final, Event, Phase
<1>3. Recording(u)'
  BY <1>2 DEF True, Recording, Hears
<1> QED
  BY <1>1, <1>3 DEF True

\* An event stays true while its transfer stays at its end.
LEMMA EventsFit ==
  ASSUME NEW t \in Transfers,
         \A e : Holds(e) => Fits(e), QueueInv,
         \A u \in Transfers : u # t => step'[u] = step[u] /\ committed'[u] = committed[u],
         step[t] \in Ended => step'[t] \in Ended /\ committed'[t] = committed[t],
         \A e : Holds(e)' => Holds(e) \/ (e \in Events /\ Fits(e)')
  PROVE  \A e : Holds(e)' => Fits(e)'
<1>1. \A e : Holds(e) => e \in Events
  BY EntryKinds DEF Holds, QueueInv
<1>2. \A e \in Events : Fits(e) => Fits(e)'
  BY DEF Fits, Events
<1> QED
  BY <1>1, <1>2

\* The log on its own: it moves the trail and leaves the transfers alone.
LEMMA TrailKeepsTruth ==
  ASSUME TruthInv, QueueInv', TrailMoves, UNCHANGED <<operation, step, err, answer,
         committed, temps, dest>>
  PROVE  TruthInv'
<1>1. \A t \in Transfers : True(t)'
  BY OthersTrue DEF TruthInv, TrailMoves
<1>2. \A e : Holds(e)' => Fits(e)'
  BY DEF TruthInv, TrailMoves, Fits
<1> QED
  BY <1>1, <1>2 DEF TruthInv, CallTypes

\* A step of one transfer t.
LEMMA OneKeepsTruth ==
  ASSUME TruthInv, NEW t \in Transfers, QueueInv', CallTypes', True(t)',
         acked \subseteq acked',
         \A u \in Transfers : u # t =>
            /\ Hears(u) /\ \A e : Waits(u, e)' => Waits(u, e)
            /\ step'[u] = step[u] /\ err'[u] = err[u] /\ answer'[u] = answer[u]
            /\ committed'[u] = committed[u] /\ operation'[u] = operation[u]
            /\ (u \in temps' => u \in temps) /\ (dest' = u <=> dest = u),
         step[t] \in Ended => step'[t] \in Ended /\ committed'[t] = committed[t],
         \A e : Holds(e)' => Holds(e) \/ (e \in Events /\ Fits(e)')
  PROVE  TruthInv'
<1>1. \A u \in Transfers : u # t => True(u)'
  BY OthersTrue DEF TruthInv
<1>2. \A e : Holds(e)' => Fits(e)'
  BY EventsFit DEF TruthInv
<1> QED
  BY <1>1, <1>2 DEF TruthInv

\* The attempted event of a new transfer.
LEMMA CallKeepsTruth ==
  ASSUME TruthInv, NEW t \in Transfers, Call(t)
  PROVE  TruthInv'
<1>1. /\ True(t) /\ step[t] = "idle" /\ ~committed[t] /\ reply[t] = "none" /\ err[t] = "none"
      /\ t \in Transfers \cup {Reader} /\ t # Reader
  BY FileTransferAssumption, AuditTrailAssumption
  DEF Call, TruthInv, True, Progress, Recording, Untouched
<1>2. Event(t, "attempted") = Attempt(t) /\ Attempt(t) \in Events
  BY <1>1 DEF Event, Attempt, Events, TruthInv, CallTypes
<1>3. [by |-> t, ev |-> Attempt(t), late |-> FALSE] \in Entries
  BY <1>2 DEF Entries
<1>4. Submit(t, Attempt(t)) /\ QueueInv
  BY <1>2 DEF Call, TruthInv
<1>5. /\ QueueInv' /\ UNCHANGED <<acked, order>>
      /\ \A d \in Transfers : d # t => reply'[d] = reply[d]
      /\ reply'[t] \in {"waiting", "failed"}
      /\ \A e : Holds(e)' => Holds(e) \/ e = Attempt(t)
      /\ \A d, e : Waits(d, e)' => IF d = t THEN e = Attempt(t) ELSE Waits(d, e)
  BY <1>1, <1>3, <1>4, SubmitKeeps
<1>6. /\ \E o \in Operations : operation' = [operation EXCEPT ![t] = o]
      /\ step' = [step EXCEPT ![t] = "attempting"]
      /\ UNCHANGED <<err, answer, committed, temps, dest>>
  BY DEF Call, Goes, disk
<1>7. CallTypes' /\ step'[t] = "attempting"
  BY <1>6 DEF TruthInv, CallTypes, Steps
<1>8. True(t)'
  <2>1. Progress(t)'
    BY <1>1, <1>6, <1>7 DEF True, Progress
  <2>2. Recording(t)'
    BY <1>1, <1>5, <1>6, <1>7 DEF True, Recording, Attempt, InDirectory
  <2>3. Answered(t)'
    BY <1>1, <1>6, <1>7 DEF True, Answered
  <2> QED
    BY <2>1, <2>2, <2>3 DEF True
<1>9. Fits(Attempt(t))'
  BY DEF Fits, Attempt
<1> QED
  BY <1>1, <1>2, <1>5, <1>6, <1>7, <1>8, <1>9, OneKeepsTruth
  DEF TruthInv, CallTypes, Hears, Ended

\* The terminal event, composed of how the transfer ended.
LEMMA TerminalKeepsTruth ==
  ASSUME TruthInv, NEW t \in Transfers, NEW e \in Errors \cup {"none"}, Terminal(t, e),
         step[t] \notin Ended, reply[t] # "waiting",
         Attempt(t) \in acked,
         e = "none" /\ operation[t] = "upload" => committed[t],
         e = "refused" => ~committed[t],
         UNCHANGED <<operation, answer, committed, temps, dest>>
  PROVE  TruthInv'
<1>1. /\ True(t) /\ t \in Transfers \cup {Reader} /\ t # Reader /\ QueueInv
      /\ committed[t] \in BOOLEAN
  BY FileTransferAssumption, AuditTrailAssumption DEF TruthInv, CallTypes
<1>0. PICK x : x = Event(t, Phase(t, e))
  OBVIOUS
<1>2. x \in Events /\ [by |-> t, ev |-> x, late |-> FALSE] \in Entries
  BY <1>0, <1>1 DEF Event, Phase, Events, Entries
<1>3. Submit(t, x) /\ step' = [step EXCEPT ![t] = "closing"] /\ err' = [err EXCEPT ![t] = e]
  BY <1>0 DEF Terminal, Goes, May
<1>4. /\ QueueInv' /\ UNCHANGED <<acked, order>>
      /\ \A d \in Transfers : d # t => reply'[d] = reply[d]
      /\ reply'[t] \in {"waiting", "failed"}
      /\ \A y : Holds(y)' => Holds(y) \/ y = x
      /\ \A d, y : Waits(d, y)' => IF d = t THEN y = x ELSE Waits(d, y)
  BY <1>1, <1>2, <1>3, SubmitKeeps
<1>5. CallTypes' /\ step'[t] = "closing" /\ err'[t] = e
  BY <1>3 DEF TruthInv, CallTypes, Steps
<1>6. Final(t)' = x /\ UNCHANGED committed
  BY <1>0, <1>5 DEF Final, Event, Phase
<1>7. True(t)'
  <2>1. Progress(t)'
    BY <1>1, <1>5 DEF True, Progress, Untouched
  <2>2. Recording(t)'
    BY <1>1, <1>4, <1>5, <1>6 DEF True, Recording, Attempt
  <2>3. Answered(t)'
    BY <1>1, <1>5 DEF True, Answered, Ended
  <2> QED
    BY <2>1, <2>2, <2>3 DEF True
<1>8. Fits(x)'
  BY <1>0, <1>1, <1>5, <1>6 DEF Fits, Event, Phase, Ended, Blocking
<1> QED
  <2>1. \A u \in Transfers : u # t =>
           /\ Hears(u) /\ \A y : Waits(u, y)' => Waits(u, y)
           /\ step'[u] = step[u] /\ err'[u] = err[u] /\ answer'[u] = answer[u]
           /\ committed'[u] = committed[u] /\ operation'[u] = operation[u]
           /\ (u \in temps' => u \in temps) /\ (dest' = u <=> dest = u)
    BY <1>3, <1>4 DEF TruthInv, CallTypes, Hears
  <2>2. \A y : Holds(y)' => Holds(y) \/ (y \in Events /\ Fits(y)')
    BY <1>2, <1>4, <1>8
  <2> QED
    BY <1>4, <1>5, <1>7, <2>1, <2>2, OneKeepsTruth

\* A transfer takes the reply it waited for.
LEMMA TakenKeepsTruth ==
  ASSUME TruthInv, NEW t \in Transfers, reply[t] # "waiting", CallTypes',
         reply' = [reply EXCEPT ![t] = "none"], UNCHANGED <<queue, io, order, acked>>,
         Progress(t)', Answered(t)', Attempt(t)' = Attempt(t),
         step'[t] \notin {"attempting", "closing"},
         step'[t] \in InDirectory \/ t \in temps' \/ committed'[t] => Attempt(t) \in acked,
         \A u \in Transfers : u # t =>
            /\ step'[u] = step[u] /\ err'[u] = err[u] /\ answer'[u] = answer[u]
            /\ committed'[u] = committed[u] /\ operation'[u] = operation[u],
         UNCHANGED <<temps, dest>>,
         step[t] \in Ended => step'[t] \in Ended /\ committed'[t] = committed[t]
  PROVE  TruthInv'
<1>1. QueueInv /\ True(t) /\ t \in Transfers \cup {Reader}
  BY DEF TruthInv
<1>2. /\ QueueInv' /\ reply'[t] = "none"
      /\ \A d \in Transfers : d # t => reply'[d] = reply[d]
      /\ \A e : Holds(e)' => Holds(e)
      /\ \A d, e : Waits(d, e)' => Waits(d, e)
  BY <1>1, ReplyTaken
<1>3. \A e : ~Waits(t, e)
  BY DEF TruthInv, QueueInv, Waits
<1>4. Recording(t)'
  BY <1>2, <1>3 DEF Recording
<1> QED
  BY <1>2, <1>4, OneKeepsTruth DEF True, Hears

\* perform and performInternal: the attempt is on record before anything else
\* happens, and its caller is told how the transfer ended.
LEMMA PerformKeepsTruth ==
  ASSUME TruthInv, NEW t \in Transfers, Answering(t)
  PROVE  TruthInv'
<1>1. True(t) /\ CallTypes /\ QueueInv /\ Attempt(t)' = Attempt(t)
  BY DEF TruthInv, Attempt
<1>2. CASE AttemptFails(t)
  <2>1. /\ step[t] = "attempting" /\ ~committed[t] /\ reply[t] = "failed"
        /\ step' = [step EXCEPT ![t] = "over"]
        /\ answer' = [answer EXCEPT ![t] = "unaudited"]
        /\ UNCHANGED <<operation, err, committed, temps, dest>>
        /\ UNCHANGED <<queue, io, order, acked>>
        /\ reply' = [reply EXCEPT ![t] = "none"]
    BY <1>1, <1>2 DEF AttemptFails, Goes, disk, logged, True, Progress, Untouched
  <2>2. CallTypes' /\ step'[t] = "over" /\ answer'[t] = "unaudited"
    BY <1>1, <2>1 DEF CallTypes, Steps, Answers
  <2>3. Progress(t)' /\ Answered(t)'
    BY <1>1, <2>1, <2>2 DEF True, Progress, Answered, Untouched
  <2>4. t \in temps \/ committed[t] => Attempt(t) \in acked
    BY <1>1 DEF True, Recording
  <2> QED
    BY <1>1, <2>1, <2>2, <2>3, <2>4, TakenKeepsTruth DEF CallTypes, InDirectory, Ended
<1>3. CASE Attempted(t)
  <2>1. /\ step[t] = "attempting" /\ reply[t] = "ok" /\ ~committed[t] /\ err[t] = "none"
        /\ Attempt(t) \in acked
        /\ UNCHANGED <<operation, answer, committed, temps, dest>>
    BY <1>1, <1>3 DEF Attempted, disk, True, Progress, Recording, Untouched
  <2>2. CASE \E e \in {"refused", "cancelled"} : Terminal(t, e)
    BY <2>1, <2>2, TerminalKeepsTruth DEF Ended, Errors, Blocking
  <2>3. CASE /\ Goes(t, "root") /\ reply' = [reply EXCEPT ![t] = "none"]
             /\ UNCHANGED <<queue, io, logged, err>>
    <3>1. CallTypes' /\ step'[t] = "root" /\ UNCHANGED <<order, acked>>
      BY <1>1, <2>1, <2>3 DEF CallTypes, Steps, InDirectory, Goes, logged
    <3>2. Progress(t)' /\ Answered(t)'
      BY <1>1, <2>1, <2>3, <3>1 DEF True, Progress, Answered
    <3> QED
      BY <1>1, <2>1, <2>3, <3>1, <3>2, TakenKeepsTruth DEF CallTypes, Goes, Ended
  <2> QED
    BY <1>3, <2>2, <2>3 DEF Attempted
<1>4. CASE Closes(t)
  <2>1. /\ step[t] = "closing" /\ reply[t] \in {"ok", "failed"}
        /\ step' = [step EXCEPT ![t] = "over"] /\ err' = [err EXCEPT ![t] = "none"]
        /\ answer' = [answer EXCEPT ![t] = IF @ = "none" THEN Told(t) ELSE @]
        /\ reply' = [reply EXCEPT ![t] = "none"]
        /\ UNCHANGED <<operation, committed, temps, dest, queue, io, order, acked>>
    BY <1>4 DEF Closes, Goes, disk, logged
  <2>2. Told(t) \in Answers /\ CallTypes' /\ step'[t] = "over"
    <3>1. Told(t) \in Answers
      BY <1>1 DEF Told, Answers, CallTypes, Errors
    <3> QED
      BY <1>1, <2>1, <3>1 DEF CallTypes, Steps, Errors
  <2>3. Progress(t)'
    BY <1>1, <2>1, <2>2 DEF True, Progress, Untouched
  <2>4. t \in temps \/ committed[t] => Attempt(t) \in acked
    BY <1>1 DEF True, Recording
  <2>5. answer'[t] = IF answer[t] = "none" THEN Told(t) ELSE answer[t]
    BY <1>1, <2>1 DEF CallTypes
  <2>6. /\ Told(t) \in {"ok", "refused"} => reply[t] = "ok"
        /\ Told(t) = "ok" => err[t] = "none"
        /\ Told(t) = "refused" => err[t] = "refused"
        /\ Told(t) = "unrecorded" => committed[t]
        /\ Told(t) # "unaudited"
    BY <1>1, <2>1 DEF Told, CallTypes, Errors, Blocking
  <2>7. /\ reply[t] = "ok" => Final(t) \in acked
        /\ err[t] = "none" /\ operation[t] = "upload" => committed[t]
        /\ operation[t] # "upload" => ~committed[t]
        /\ err[t] = "refused" => ~committed[t]
        /\ answer[t] \notin {"ok", "unrecorded", "unaudited", "refused"}
    BY <1>1, <2>1 DEF True, Recording, Progress, Answered
  <2>8. err[t] = "none" =>
           Final(t) = [t |-> t, phase |-> "completed", committed |-> operation[t] = "upload"]
    BY <1>1, <2>7 DEF Final, Event, Phase, CallTypes
  <2>9. Answered(t)'
    BY <2>1, <2>2, <2>5, <2>6, <2>7, <2>8 DEF Answered
  <2> QED
    BY <1>1, <2>1, <2>2, <2>3, <2>4, <2>9, TakenKeepsTruth DEF CallTypes, InDirectory, Ended
<1> QED
  BY <1>2, <1>3, <1>4 DEF Answering

\* The steps in the directory before its release: no await there is one of the
\* audit log.
LEMMA InsideKeepsTruth ==
  ASSUME TruthInv, NEW t \in Transfers, step[t] \in InDirectory, NoTrail,
         CallTypes', Progress(t)', step'[t] \in InDirectory,
         \A u \in Transfers : u # t =>
            /\ step'[u] = step[u] /\ err'[u] = err[u] /\ committed'[u] = committed[u]
            /\ (u \in temps' => u \in temps) /\ (dest' = u <=> dest = u)
  PROVE  TruthInv'
<1>1. /\ UNCHANGED <<queue, order, reply, io, acked, operation, answer>>
      /\ Attempt(t) \in acked /\ reply[t] = "none"
      /\ answer[t] \notin {"ok", "unrecorded", "unaudited", "refused"}
  BY DEF NoTrail, audit, TruthInv, True, Recording, Answered, InDirectory
<1>2. QueueInv' /\ (\A e : Holds(e)' <=> Holds(e)) /\ \A u, e : Waits(u, e)' <=> Waits(u, e)
  BY <1>1 DEF TruthInv, QueueInv, Holds, Waits, Head1
<1>3. \A e : ~Waits(t, e)
  BY <1>1 DEF TruthInv, QueueInv, Waits
<1>4. Recording(t)' /\ Answered(t)'
  BY <1>1, <1>2, <1>3 DEF Recording, Answered, Attempt, InDirectory
<1> QED
  BY <1>1, <1>2, <1>4, OneKeepsTruth DEF True, Hears, Ended, InDirectory

\* Each step of upload and download carries its error, and the file is
\* published by Link alone.
LEMMA DirectoryKeepsTruth ==
  ASSUME TruthInv, NEW t \in Transfers, Directory(t)
  PROVE  TruthInv'
<1>1. /\ True(t) /\ CallTypes /\ t # 0
      /\ \A e \in Errors : May(t, e) => err' \in [Transfers -> Errors \cup {"none"}]
                              /\ err'[t] = e /\ \A u \in Transfers : u # t => err'[u] = err[u]
      /\ \A s \in InDirectory : Goes(t, s) => step' \in [Transfers -> Steps]
                              /\ step'[t] = s /\ \A u \in Transfers : u # t => step'[u] = step[u]
  BY FileTransferAssumption DEF TruthInv, CallTypes, May, Goes, Steps
<1>2. /\ IoFails(t) => May(t, "io") 
      /\ Interrupts(t) => May(t, "cancelled")
      /\ {"refused", "unsafe", "cancelled", "io"} \subseteq Errors
  BY DEF IoFails, Interrupts, May, Errors, Blocking
<1>3. NoTrail => UNCHANGED <<operation, answer>>
  BY DEF NoTrail
<1>4. CASE Root(t) \/ Lock(t) \/ Scan(t)
  <2>1. /\ step[t] \in {"root", "lock", "scan"} /\ NoTrail /\ UNCHANGED <<committed, temps, dest>>
        /\ \/ UNCHANGED err /\ \E s \in InDirectory \ {"verify", "cleanup", "release"} :
                 /\ Goes(t, s)
                 /\ s \in {"create", "write", "link"} => operation[t] = "upload"
                 /\ s = "read" => operation[t] # "upload"
           \/ Goes(t, "release") /\ \E e \in Errors : May(t, e)
    BY <1>2, <1>4 DEF Root, Lock, Scan, Inside, disk, InDirectory
  <2>2. CallTypes' /\ step'[t] \in InDirectory
    BY <1>1, <1>3, <2>1 DEF CallTypes, InDirectory
  <2>3. Progress(t)'
    BY <1>1, <1>3, <2>1 DEF True, Progress, Untouched, InDirectory, Errors, Blocking
  <2> QED
    BY <1>1, <2>1, <2>2, <2>3, InsideKeepsTruth DEF InDirectory
<1>5. CASE Create(t) \/ Write(t)
  <2>1. /\ step[t] \in {"create", "write"} /\ NoTrail /\ UNCHANGED <<committed, dest>>
        /\ temps' \subseteq temps \cup {t}
        /\ \/ UNCHANGED err /\ (Goes(t, "write") \/ Goes(t, "link"))
           \/ (Goes(t, "release") \/ Goes(t, "cleanup")) /\ \E e \in Errors : May(t, e)
    BY <1>2, <1>5 DEF Create, Write, Inside, disk
  <2>2. CallTypes' /\ step'[t] \in InDirectory
    BY <1>1, <1>3, <2>1 DEF CallTypes, InDirectory
  <2>3. Progress(t)'
    BY <1>1, <1>3, <2>1 DEF True, Progress, Untouched, InDirectory, Errors, Blocking
  <2> QED
    BY <1>1, <2>1, <2>2, <2>3, InsideKeepsTruth DEF InDirectory
<1>6. CASE Link(t)
  <2>1. /\ step[t] = "link" /\ NoTrail /\ UNCHANGED temps
        /\ \/ /\ dest = 0 /\ dest' = t /\ committed' = [committed EXCEPT ![t] = TRUE]
              /\ Goes(t, "verify") /\ UNCHANGED err
           \/ /\ UNCHANGED <<dest, committed>> /\ Goes(t, "cleanup")
              /\ \E e \in Errors : May(t, e)
    BY <1>2, <1>6 DEF Link, Inside
  <2>2. CallTypes' /\ step'[t] \in InDirectory
    BY <1>1, <1>3, <2>1 DEF CallTypes, InDirectory
  <2>3. Progress(t)'
    BY <1>1, <1>3, <2>1 DEF True, Progress, CallTypes, Untouched, InDirectory, Errors, Blocking
  <2>4. \A u \in Transfers : u # t =>
           committed'[u] = committed[u] /\ u # 0 /\ (dest' = u <=> dest = u)
    BY <1>1, <2>1, FileTransferAssumption DEF CallTypes
  <2> QED
    BY <1>1, <2>1, <2>2, <2>3, <2>4, InsideKeepsTruth DEF InDirectory
<1>7. CASE Verify(t) \/ Cleanup(t) \/ Read(t)
  <2>1. /\ step[t] \in {"verify", "cleanup", "read"} /\ NoTrail /\ UNCHANGED <<committed, dest>>
        /\ temps' \subseteq temps
        /\ Goes(t, "release") \/ (step[t] = "verify" /\ Goes(t, "cleanup"))
        /\ \/ UNCHANGED err
           \/ \E e \in Errors : May(t, e) /\ (step[t] # "read" => e # "refused")
    BY <1>2, <1>7 DEF Verify, Cleanup, Read, Guarded, Inside, disk
  <2>2. CallTypes' /\ step'[t] \in InDirectory
    BY <1>1, <1>3, <2>1 DEF CallTypes, InDirectory
  <2>3. Progress(t)'
    BY <1>1, <1>3, <2>1 DEF True, Progress, Untouched, InDirectory, Errors, Blocking
  <2> QED
    BY <1>1, <2>1, <2>2, <2>3, InsideKeepsTruth DEF InDirectory
<1>8. CASE Release(t)
  <2>1. PICK e \in {err[t]} \cup ({"io"} \cap Faults) : Terminal(t, e)
    BY <1>8 DEF Release
  <2>2. /\ step[t] = "release" /\ UNCHANGED <<operation, answer, committed, temps, dest>>
        /\ e \in Errors \cup {"none"} /\ (e = err[t] \/ e = "io")
    BY <1>1, <1>8 DEF Release, Inside, disk, CallTypes, Errors
  <2> QED
    BY <1>1, <2>1, <2>2, TerminalKeepsTruth
    DEF True, Progress, Recording, Ended, InDirectory
<1> QED
  BY <1>4, <1>5, <1>6, <1>7, <1>8 DEF Directory

\* A restart ends every transfer where it is.  What the helper was writing may
\* yet be on record.
LEMMA RestartKeepsTruth == ASSUME TruthInv, Restart PROVE TruthInv'
<1>1. /\ queue' = <<>> /\ io' = "idle" /\ UNCHANGED <<acked, operation, committed, temps, dest>>
      /\ reply' = [c \in Transfers \cup {Reader} |-> "none"]
      /\ \/ UNCHANGED order
         \/ io = "helper" /\ order' = Append(order, Head1.ev)
  BY FileTransferAssumption DEF Restart, AuditRestarts, disk
<1>2. /\ step' = [t \in Transfers |-> IF step[t] = "idle" THEN "idle" ELSE "over"]
      /\ answer' = [t \in Transfers |->
                      IF step[t] \notin {"idle", "over"} /\ answer[t] = "none"
                      THEN "lost" ELSE answer[t]]
      /\ err' = [t \in Transfers |-> "none"]
  BY DEF Restart
<1>3. order' \in Seq(Events) /\ \A e : Holds(e)' => Holds(e)
  <2>1. io = "helper" => queue # <<>> /\ Head1.by # Reader /\ 1 \in 1..Len(queue)
    BY DEF TruthInv, QueueInv, Writing
  <2> QED
    BY <1>1, <2>1, AppendedHeld DEF TruthInv, QueueInv, Holds, Head1
<1>4. QueueInv'
  BY <1>1, <1>3 DEF QueueInv, Writing
<1>5. CallTypes'
  BY <1>1, <1>2 DEF TruthInv, CallTypes, Steps, Answers
<1>6. ASSUME NEW t \in Transfers PROVE True(t)'
  <2>1. True(t) /\ step'[t] \in {"idle", "over"} /\ reply'[t] = "none" /\ err'[t] = "none"
        /\ (step'[t] = "idle" => step[t] = "idle")
        /\ (step[t] # "idle" => step'[t] = "over")
        /\ (answer'[t] = answer[t] \/ answer'[t] = "lost")
    BY <1>1, <1>2 DEF TruthInv
  <2>2. Progress(t)' /\ Answered(t)'
    BY <1>1, <2>1 DEF True, Progress, Answered, Untouched
  <2>3. \A e : ~Waits(t, e)'
    BY <1>1 DEF Waits
  <2>4. Recording(t)'
    BY <1>1, <2>1, <2>3 DEF True, Recording, Attempt, InDirectory
  <2> QED
    BY <2>2, <2>4 DEF True
<1>7. \A e : Holds(e)' => Fits(e)'
  <2>1. \A e : Holds(e) => e \in Events /\ Fits(e)
    BY EntryKinds DEF TruthInv, Holds, QueueInv
  <2>2. \A e \in Events : Fits(e) => Fits(e)'
    BY <1>1, <1>2 DEF Fits, Events, Ended
  <2> QED
    BY <1>3, <2>1, <2>2
<1> QED
  BY <1>4, <1>5, <1>6, <1>7 DEF TruthInv

\* Every step keeps the trail and the answers true.
LEMMA TruthStep ==
  ASSUME TruthInv, backend \in Backends, [Next]_vars
  PROVE  TruthInv'
<1>0. QueueInv
  BY DEF TruthInv
<1>1. ASSUME QueueInv', TrailMoves, UNCHANGED <<call, disk>> PROVE TruthInv'
  BY <1>1, TrailKeepsTruth DEF call, disk
<1>2. ASSUME NEW t \in Transfers, Call(t) \/ Directory(t) \/ Answering(t) PROVE TruthInv'
  BY <1>2, CallKeepsTruth, DirectoryKeepsTruth, PerformKeepsTruth
<1>3. ASSUME UNCHANGED <<audit, operation, step, err, committed, disk>>,
             \A t \in Transfers : answer'[t] = answer[t] \/ answer'[t] = "timeout",
             answer' \in [Transfers -> Answers]
      PROVE  TruthInv'
  <2>0. UNCHANGED <<queue, order, io, reply, acked, operation, step, err, committed, temps, dest>>
    BY <1>3 DEF audit, disk
  <2>1. QueueInv' /\ (\A e : Holds(e)' => Holds(e)) /\ \A e : Fits(e) => Fits(e)'
    <3>1. QueueInv'
      BY <1>0, <2>0 DEF QueueInv, Head1
    <3> QED
      BY <2>0, <3>1 DEF Holds, Fits
  <2>2. \A t \in Transfers : True(t)'
    <3>1. ASSUME NEW t \in Transfers PROVE True(t)'
      <4>1. True(t) /\ (answer'[t] = answer[t] \/ answer'[t] = "timeout")
        BY <1>3 DEF TruthInv
      <4>2. Progress(t)' /\ Answered(t)'
        BY <2>0, <4>1 DEF True, Progress, Answered
      <4>3. Attempt(t)' = Attempt(t) /\ Final(t)' = Final(t) /\ \A e : Waits(t, e)' => Waits(t, e)
        BY <2>0 DEF Attempt, Final, Event, Phase, Waits
      <4> QED
        BY <2>0, <4>1, <4>2, <4>3 DEF True, Recording
    <3> QED
      BY <3>1
  <2> QED
    BY <1>3, <2>1, <2>2 DEF TruthInv, CallTypes, disk
<1>4. ASSUME NEW t \in Transfers, Deadline(t) PROVE TruthInv'
  <2>1. answer' = [answer EXCEPT ![t] = "timeout"]
    BY <1>4 DEF Deadline
  <2> QED
    BY <1>3, <1>4, <2>1 DEF Deadline, TruthInv, CallTypes, Answers
<1>5. ASSUME NEW c \in Transfers \cup {Reader}, CallerDeadline(c), UNCHANGED <<call, disk>>
      PROVE  TruthInv'
  BY <1>0, <1>1, <1>5, DeadlineKeeps
<1>6. ASSUME Storage, UNCHANGED <<call, disk>> PROVE TruthInv'
  BY <1>0, <1>1, <1>6, StorageMoves
<1>7. ASSUME OperationStarts, UNCHANGED <<call, disk>> PROVE TruthInv'
  BY <1>0, <1>1, <1>7, OperationMoves
<1>8. ASSUME Lists, UNCHANGED <<call, disk>> PROVE TruthInv'
  <2>1. [by |-> Reader, ev |-> "list", late |-> FALSE] \in Entries /\ Reader \notin Transfers
    BY FileTransferAssumption, AuditTrailAssumption DEF Entries
  <2>2. Submit(Reader, "list") /\ reply[Reader] # "waiting"
    BY <1>8 DEF Lists
  <2> QED
    BY <1>0, <1>1, <1>8, <2>1, <2>2, SubmitKeeps DEF TrailMoves, Hears
<1>9. ASSUME ListAnswered, UNCHANGED <<call, disk>> PROVE TruthInv'
  <2>1. /\ reply[Reader] # "waiting" /\ reply' = [reply EXCEPT ![Reader] = "none"]
        /\ UNCHANGED <<queue, io, order, acked>> /\ Reader \notin Transfers
    BY <1>9, FileTransferAssumption, AuditTrailAssumption DEF ListAnswered, logged
  <2> QED
    BY <1>0, <1>1, <1>9, <2>1, ReplyTaken DEF TrailMoves, Hears
<1>10. CASE Restart
  BY <1>10, RestartKeepsTruth
<1>11. CASE Shutdown \/ UNCHANGED vars
  BY <1>3, <1>11 DEF Shutdown, vars, call, TruthInv, CallTypes
<1> QED
  BY <1>2, <1>4, <1>5, <1>6, <1>7, <1>8, <1>9, <1>10, <1>11
  DEF Next, Resumed, SomeTimer, Timers, AuditLog

-----------------------------------------------------------------------------
(* The rest of the types: the generations hold no more than a file may, also *)
(* when a rotation was cut off anywhere.                                     *)

Lines == [ev : Events, ok : BOOLEAN, open : BOOLEAN]

FilesInv ==
    /\ backend \in Backends /\ auditUp \in BOOLEAN /\ gen \in 0..Oldest - 1
    /\ files \in [Gens -> Seq(Lines)] /\ Len(queue) <= MaxPending
    /\ backend = "file" => \A g \in Gens : Len(files[g]) <= Capacity
    /\ backend = "file" /\ io = "append" => Len(files[0]) < Capacity
    /\ io \in {"remove", "rename", "append", "sync"} => backend = "file"
    /\ io = "helper" => backend # "file"

\* A line is added to a file, or takes the place of one without its end.
LEMMA LineAdded ==
  ASSUME FilesInv, NEW x \in Lines, NEW f,
         f = [files EXCEPT ![0] = IF Open(0) THEN Append(Front(@), x) ELSE Append(@, x)]
  PROVE  /\ f \in [Gens -> Seq(Lines)] /\ Len(f[0]) <= Len(files[0]) + 1
         /\ \A g \in Gens : g # 0 => f[g] = files[g]
<1>1. 0 \in Gens /\ files[0] \in Seq(Lines)
  BY AuditTrailAssumption DEF FilesInv, Gens
<1>2. ASSUME Open(0)
      PROVE  /\ Append(Front(files[0]), x) \in Seq(Lines)
             /\ Len(Append(Front(files[0]), x)) = Len(files[0])
  BY <1>1, <1>2 DEF Open, Front
<1>3. Append(files[0], x) \in Seq(Lines) /\ Len(Append(files[0], x)) = Len(files[0]) + 1
  BY <1>1
<1> QED
  BY <1>1, <1>2, <1>3 DEF FilesInv

\* What a write leaves behind, whole or torn.
LEMMA WriteFits ==
  ASSUME QueueInv, FilesInv, io \in Writing,
         backend # "file" \/ io = "append",
         NEW x, x = Whole(Head1.ev) \/ x = Torn(Head1.ev)
  PROVE  /\ x \in [Gens -> Seq(Lines)]
         /\ backend = "file" => \A g \in Gens : Len(x[g]) <= Capacity
<1>1. Head1.ev \in Events
  BY EntryKinds DEF QueueInv, Writing, Head1
<1>2. \A ok, open \in BOOLEAN : Line(Head1.ev, ok, open) \in Lines
  BY <1>1 DEF Line, Lines
<1>3. \E ok, open \in BOOLEAN :
         x = [files EXCEPT ![0] = IF Open(0) THEN Append(Front(@), Line(Head1.ev, ok, open))
                                  ELSE Append(@, Line(Head1.ev, ok, open))]
  BY DEF Whole, Torn
<1>4. \E y \in Lines : x = [files EXCEPT ![0] = IF Open(0) THEN Append(Front(@), y)
                                                  ELSE Append(@, y)]
  BY <1>2, <1>3
<1>5. 0 \in Gens /\ files[0] \in Seq(Lines)
  BY AuditTrailAssumption DEF FilesInv, Gens
<1>6. backend = "file" => Len(files[0]) + 1 <= Capacity
  BY <1>5, AuditTrailAssumption DEF FilesInv
<1>7. PICK y \in Lines : x = [files EXCEPT ![0] = IF Open(0) THEN Append(Front(@), y)
                                                  ELSE Append(@, y)]
  BY <1>4
<1>8. /\ x \in [Gens -> Seq(Lines)] /\ Len(x[0]) <= Len(files[0]) + 1
      /\ \A g \in Gens : g # 0 => x[g] = files[g]
  BY <1>7, LineAdded
<1>9. x[0] \in Seq(Lines) /\ Len(x[0]) \in Nat /\ Len(files[0]) \in Nat /\ Capacity \in Nat
  BY <1>5, <1>8, AuditTrailAssumption
<1>10. backend = "file" => Len(x[0]) <= Capacity
  BY <1>6, <1>8, <1>9
<1> QED
  BY <1>8, <1>10 DEF FilesInv

\* The queue is no longer than its limit, and its operations leave the files.
LEMMA FilesRest ==
  ASSUME FilesInv, UNCHANGED <<backend, gen, files>>,
         auditUp' \in BOOLEAN, io' = io \/ io' = "idle", Len(queue') <= MaxPending
  PROVE  FilesInv'
  BY DEF FilesInv

\* An operation that ends makes the queue shorter.
LEMMA EndsShorter ==
  ASSUME QueueInv, FilesInv, io # "idle" \/ queue # <<>>, NEW how, Ends(how)
  PROVE  Len(queue') <= MaxPending
<1>1. queue \in Seq(Entries) /\ queue # <<>> /\ MaxPending \in Nat
  BY AuditTrailAssumption DEF QueueInv
<1>2. Len(queue') = Len(queue) - 1 /\ Len(queue) \in Nat
  BY <1>1 DEF Ends
<1> QED
  BY <1>1, <1>2 DEF FilesInv

\* Submit, the timers and the start of an operation.
LEMMA SubmitFiles ==
  ASSUME QueueInv, FilesInv, NEW c, NEW ev, Submit(c, ev)
  PROVE  FilesInv'
<1>1. queue \in Seq(Entries) /\ Len(queue) \in Nat /\ MaxPending \in Nat
  BY AuditTrailAssumption DEF QueueInv
<1>2. CASE auditUp /\ Len(queue) < MaxPending
  <2>1. queue' = Append(queue, [by |-> c, ev |-> ev, late |-> FALSE]) /\ UNCHANGED auditUp
    BY <1>2 DEF Submit
  <2>2. Len(queue') = Len(queue) + 1
    BY <1>1, <2>1
  <2> QED
    BY <1>1, <1>2, <2>1, <2>2, FilesRest DEF Submit, FilesInv
<1>3. CASE ~(auditUp /\ Len(queue) < MaxPending)
  BY <1>3, FilesRest DEF Submit, FilesInv
<1> QED
  BY <1>2, <1>3

\* The start of an operation and the deadlines touch no file; an append starts only
\* where there is room.
LEMMA QueueFiles ==
  ASSUME QueueInv, FilesInv, OperationStarts \/ \E c \in Transfers \cup {Reader} : CallerDeadline(c)
  PROVE  FilesInv'
<1>1. CASE \E c \in Transfers \cup {Reader} : CallerDeadline(c)
  <2>1. PICK c \in Transfers \cup {Reader} : CallerDeadline(c)
    BY <1>1
  <2>2. PICK i \in Pending(c) : queue' = [queue EXCEPT ![i].late = TRUE]
    BY <2>1 DEF CallerDeadline
  <2>3. Len(queue') = Len(queue)
    BY <2>2 DEF QueueInv
  <2> QED
    BY <2>1, <2>3, FilesRest DEF CallerDeadline, FilesInv
<1>2. CASE OperationStarts /\ Rejects
  BY <1>2, EndsShorter, FilesRest DEF OperationStarts, Rejects, Ends
<1>3. CASE OperationStarts /\ io' = Work /\ UNCHANGED <<auditUp, queue>>
  <2>1. UNCHANGED <<backend, gen, files>>
    BY <1>3 DEF OperationStarts
  <2>2. /\ Work = "helper" => backend = "helper"
        /\ Work \in {"append", "remove"} => backend = "file"
        /\ Work = "append" => Len(files[0]) < Capacity
        /\ Work \in {"read", "helper", "append", "remove"}
    BY AuditTrailAssumption DEF Work, FilesInv
  <2> QED
    BY <1>3, <2>1, <2>2 DEF FilesInv
<1> QED
  BY <1>1, <1>2, <1>3 DEF OperationStarts

\* A rotation moves files up and leaves room for the event.
LEMMA RotationFiles ==
  ASSUME FilesInv, QueueInv, RemovesOldest \/ Renames
  PROVE  FilesInv'
<1>1. /\ Oldest \in Nat \ {0} /\ Capacity \in Nat \ {0} /\ gen \in Gens /\ gen + 1 \in Gens
      /\ 0 \in Gens /\ Oldest \in Gens /\ <<>> \in Seq(Lines) /\ Len(<<>>) = 0
      /\ Oldest - 1 \in 0..Oldest - 1
  BY AuditTrailAssumption DEF FilesInv, Gens
<1>2. CASE RemovesOldest
  <2>1. files' = [files EXCEPT ![Oldest] = <<>>] /\ UNCHANGED <<backend, auditUp, queue>>
        /\ io' = "rename" /\ gen' = Oldest - 1 /\ io = "remove"
    BY <1>2 DEF RemovesOldest
  <2> QED
    BY <1>1, <2>1 DEF FilesInv
<1>3. CASE Renames
  <2>1. /\ io = "rename" /\ files' = Renamed(gen) /\ UNCHANGED <<backend, auditUp, queue>>
        /\ \/ gen = 0 /\ io' = "append" /\ gen' = gen
           \/ gen # 0 /\ io' = "rename" /\ gen' = gen - 1
    BY <1>3 DEF Renames
  <2>2. files' \in [Gens -> Seq(Lines)] /\ files'[gen] = <<>>
        /\ \A g \in Gens : files'[g] = files[g] \/ files'[g] = files[gen] \/ files'[g] = <<>>
    BY <1>1, <2>1 DEF FilesInv, Renamed
  <2>3. gen' \in 0..Oldest - 1
    BY <1>1, <2>1 DEF FilesInv
  <2> QED
    <3>1. backend = "file" => \A g \in Gens : Len(files[g]) <= Capacity
      BY DEF FilesInv
    <3>2. backend = "file" => \A g \in Gens : Len(files'[g]) <= Capacity
      <4>1. SUFFICES ASSUME backend = "file", NEW g \in Gens PROVE Len(files'[g]) <= Capacity
        OBVIOUS
      <4>2. Len(files[g]) <= Capacity /\ Len(files[gen]) <= Capacity
        BY <1>1, <3>1, <4>1
      <4>3. CASE files'[g] = <<>>
        BY <1>1, <4>3
      <4> QED
        BY <2>2, <4>2, <4>3
    <3>3. gen = 0 => Len(files'[0]) < Capacity
      BY <1>1, <2>2
    <3> QED
      BY <1>1, <2>1, <2>2, <2>3, <3>2, <3>3 DEF FilesInv
<1> QED
  BY <1>2, <1>3

\* Whatever the storage does, a file holds no more than it may.
LEMMA StorageFiles == ASSUME QueueInv, FilesInv, Storage PROVE FilesInv'
<1>1. CASE RemovesOldest \/ Renames
  BY <1>1, RotationFiles
<1>2. CASE Appends
  <2>1. io = "append" /\ files' = Whole(Head1.ev) /\ io' = "sync"
        /\ UNCHANGED <<backend, auditUp, queue, gen>>
    BY <1>2 DEF Appends
  <2>2. /\ files' \in [Gens -> Seq(Lines)]
        /\ backend = "file" => \A g \in Gens : Len(files'[g]) <= Capacity
    BY <2>1, WriteFits DEF Writing
  <2> QED
    BY <2>1, <2>2 DEF FilesInv
<1>3. CASE Syncs \/ Reads \/ ReadFails
  <2>1. /\ io # "idle" /\ UNCHANGED <<backend, gen, files>> /\ auditUp' \in BOOLEAN
        /\ io' = "idle" /\ \E how : Ends(how)
    BY <1>3 DEF Syncs, Reads, ReadFails, Acks, Rejects, Ends, FilesInv
  <2> QED
    BY <2>1, EndsShorter, FilesRest
<1>4. CASE FileFails \/ HelperWrites \/ HelperFails
  <2>1. /\ io \in Writing /\ io' = "idle" /\ \E how : Ends(how)
        /\ UNCHANGED backend /\ auditUp' \in BOOLEAN /\ gen' \in 0..Oldest - 1
        /\ \/ UNCHANGED files
           \/ /\ io \in {"append", "helper"}
              /\ files' = Whole(Head1.ev) \/ files' = Torn(Head1.ev)
    <3>1. CASE FileFails
      <4>1. 0 \in 0..Oldest - 1
        BY AuditTrailAssumption
      <4>2. /\ io \in Writing /\ io' = "idle" /\ Ends("failed") /\ UNCHANGED backend
            /\ auditUp' = FALSE /\ gen' = 0
        BY <3>1 DEF FileFails, Rejects, Ends, Writing
      <4>3. UNCHANGED files \/ (io = "append" /\ files' = Torn(Head1.ev))
        BY <3>1 DEF FileFails, LeavesTorn
      <4> QED
        BY <4>1, <4>2, <4>3
    <3>2. CASE HelperWrites \/ HelperFails
      BY <3>2 DEF HelperWrites, HelperFails, Acks, Rejects, Ends, Writing, FilesInv
    <3> QED
      BY <1>4, <3>1, <3>2
  <2>2. Len(queue') <= MaxPending
    BY <2>1, EndsShorter DEF Writing
  <2>3. /\ files' \in [Gens -> Seq(Lines)]
        /\ backend = "file" => \A g \in Gens : Len(files'[g]) <= Capacity
    BY <2>1, WriteFits DEF FilesInv
  <2> QED
    BY <2>1, <2>2, <2>3 DEF FilesInv
<1> QED
  BY <1>1, <1>2, <1>3, <1>4 DEF Storage

\* A restart leaves the files as they are, or with one more line.
LEMMA RestartFiles == ASSUME QueueInv, FilesInv, AuditRestarts PROVE FilesInv'
<1>1. /\ 0 \in 0..Oldest - 1 /\ MaxPending \in Nat
  BY AuditTrailAssumption
<1>2. /\ UNCHANGED backend /\ auditUp' = TRUE /\ queue' = <<>> /\ io' = "idle" /\ gen' = 0
  BY DEF AuditRestarts
<1>3. \/ UNCHANGED files
      \/ io = "helper" /\ files' = Whole(Head1.ev)
      \/ io = "append" /\ files' = Torn(Head1.ev)
  BY DEF AuditRestarts, LeavesTorn
<1>4. /\ files' \in [Gens -> Seq(Lines)]
      /\ backend = "file" => \A g \in Gens : Len(files'[g]) <= Capacity
  BY <1>3, WriteFits DEF FilesInv, Writing
<1> QED
  BY <1>1, <1>2, <1>4 DEF FilesInv

\* The control of performInternal: the timer is armed only in the directory.
Controls ==
    /\ aborted \in [Transfers -> BOOLEAN] /\ armed \in [Transfers -> BOOLEAN]
    /\ stopping \in BOOLEAN /\ restarts \in 0..MaxRestarts
    /\ \A t \in Transfers : armed[t] => step[t] \in InDirectory

Sound == Acquired /\ TruthInv /\ FilesInv /\ Controls

\* The invariant contains the types.
LEMMA SoundTypes == Sound => TypeOK
<1> SUFFICES ASSUME Sound PROVE TypeOK
  OBVIOUS
<1>1. AuditTypeOK
  BY FileTransferAssumption
  DEF Sound, TruthInv, QueueInv, FilesInv, AuditTypeOK, Writing
<1> QED
  BY <1>1 DEF Sound, TruthInv, CallTypes, Acquired, Controls, TypeOK

\* The first state has empty files and no timer.
LEMMA FilesInit == Init => FilesInv /\ Controls
<1> SUFFICES ASSUME Init PROVE FilesInv /\ Controls
  OBVIOUS
<1>1. FilesInv
  BY AuditTrailAssumption DEF Init, AuditInit, FilesInv, Gens
<1>2. 0 \in 0..MaxRestarts
  BY FileTransferAssumption
<1>3. Controls
  BY <1>2 DEF Init, Controls
<1> QED
  BY <1>1, <1>3

\* No step of a transfer but its events touches the log.
LEMMA FilesStep == ASSUME Sound, [Next]_vars PROVE FilesInv'
<1>1. QueueInv /\ FilesInv
  BY DEF Sound, TruthInv
<1>2. ASSUME NEW c, NEW ev, Submit(c, ev) PROVE FilesInv'
  BY <1>1, <1>2, SubmitFiles
<1>3. ASSUME UNCHANGED <<backend, auditUp, queue, io, gen, files>> PROVE FilesInv'
  BY <1>1, <1>3 DEF FilesInv
<1>4. ASSUME NEW t \in Transfers, Call(t) \/ Answering(t) PROVE FilesInv'
  BY <1>2, <1>3, <1>4 DEF Call, Answering, AttemptFails, Attempted, Closes, Terminal
<1>5. ASSUME NEW t \in Transfers, Directory(t) PROVE FilesInv'
  <2>1. CASE Release(t)
    BY <1>2, <2>1 DEF Release, Terminal
  <2>2. CASE NoTrail
    BY <1>3, <2>2 DEF NoTrail, audit
  <2> QED
    BY <1>5, <2>1, <2>2 DEF Directory, Root, Lock, Scan, Create, Write, Link, Verify, Cleanup, Read
<1>6. CASE Storage
  BY <1>1, <1>6, StorageFiles
<1>7. CASE OperationStarts \/ \E c \in Transfers \cup {Reader} : CallerDeadline(c)
  BY <1>1, <1>7, QueueFiles
<1>8. CASE Lists
  BY <1>2, <1>8 DEF Lists
<1>9. CASE ListAnswered \/ UNCHANGED audit
  BY <1>3, <1>9 DEF ListAnswered, audit
<1>10. CASE Restart
  BY <1>1, <1>10, RestartFiles DEF Restart
<1> QED
  BY <1>4, <1>5, <1>6, <1>7, <1>8, <1>9, <1>10
  DEF Next, Resumed, SomeTimer, Timers, AuditLog, Deadline, Shutdown, vars

\* A transfer that leaves the directory has stopped its timer.
LEMMA ControlsStep == ASSUME Sound, [Next]_vars PROVE Controls'
<1>1. Controls /\ CallTypes
  BY DEF Sound, TruthInv
<1>2. ASSUME NEW t \in Transfers, NEW s \in Steps, Goes(t, s),
             UNCHANGED <<aborted, armed, stopping, restarts>>,
             step[t] \in InDirectory => s \in InDirectory
      PROVE  Controls'
  BY <1>1, <1>2 DEF Controls, CallTypes, Goes
<1>3. ASSUME NEW t \in Transfers, NEW e, Terminal(t, e), UNCHANGED <<stopping, restarts>>,
             aborted' \in [Transfers -> BOOLEAN]
      PROVE  Controls'
  BY <1>1, <1>3 DEF Controls, CallTypes, Terminal, Goes
<1>4. ASSUME NEW t \in Transfers, Call(t) \/ AttemptFails(t) \/ Closes(t) PROVE Controls'
  BY <1>2, <1>4 DEF Call, AttemptFails, Closes, proc, Steps, InDirectory
<1>5. ASSUME NEW t \in Transfers, Attempted(t) PROVE Controls'
  <2>1. CASE /\ armed' = [armed EXCEPT ![t] = TRUE] /\ Goes(t, "root")
    BY <1>1, <1>5, <2>1 DEF Attempted, Controls, CallTypes, Goes, InDirectory
  <2>2. CASE \E e : Terminal(t, e)
    BY <1>1, <1>3, <1>5, <2>2 DEF Attempted, Controls
  <2> QED
    BY <1>5, <2>1, <2>2 DEF Attempted
<1>6. ASSUME NEW t \in Transfers, Directory(t) PROVE Controls'
  <2>1. CASE Release(t)
    BY <1>1, <1>3, <2>1 DEF Release, proc, Controls
  <2>2. CASE NoTrail /\ \E s \in InDirectory : Goes(t, s)
    BY <1>2, <2>2 DEF NoTrail, proc, Steps
  <2> QED
    BY <1>6, <2>1, <2>2 DEF Directory, Root, Lock, Scan, Create, Write, Link, Verify, Cleanup,
       Read, InDirectory
<1>7. ASSUME NEW t \in Transfers, Deadline(t) PROVE Controls'
  BY <1>1, <1>7 DEF Deadline, Controls, proc
<1>8. CASE Shutdown
  BY <1>1, <1>8 DEF Shutdown, Controls, call
<1>9. CASE Restart
  <2>1. restarts' \in 0..MaxRestarts
    BY <1>1, <1>9, FileTransferAssumption DEF Restart, Controls
  <2>2. /\ stopping' \in BOOLEAN /\ aborted' \in [Transfers -> BOOLEAN]
        /\ armed' \in [Transfers -> BOOLEAN] /\ \A t \in Transfers : ~armed'[t]
    BY <1>9 DEF Restart
  <2> QED
    BY <2>1, <2>2 DEF Controls
<1>10. CASE UNCHANGED <<call, proc>>
  BY <1>1, <1>10 DEF Controls, call, proc
<1> QED
  BY <1>4, <1>5, <1>6, <1>7, <1>8, <1>9, <1>10
  DEF Next, Resumed, SomeTimer, Timers, AuditLog, Answering, vars

\* The four parts together are inductive.
THEOREM SoundInvariant == Spec => []Sound
<1>1. Init => Sound
  BY AcquiredInit, TruthInit, FilesInit DEF Sound
<1>2. Sound /\ [Next]_vars => Sound'
  BY AcquiredStep, TruthStep, FilesStep, ControlsStep DEF Sound, FilesInv
<1> QED
  BY <1>1, <1>2, PTL DEF Spec

\* Every variable keeps its type, and no generation of the audit file ever
\* exceeds its size, wherever a rotation or a write is cut off
\* (FileTransfer.TypeOK).
THEOREM TypeCorrect == Spec => []TypeOK
  BY SoundInvariant, SoundTypes, PTL

\* What the trail and the callers are told of a transfer is what happened to
\* the file, although callers give up, events are written late and the process
\* restarts (FileTransfer.TerminalTellsTruth).
THEOREM TrailTellsTruth == Spec => []TerminalTellsTruth
<1>1. Sound => TerminalTellsTruth
  BY TruthImplies DEF Sound
<1> QED
  BY <1>1, SoundInvariant, PTL

=============================================================================
