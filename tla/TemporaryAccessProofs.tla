----------------------- MODULE TemporaryAccessProofs -----------------------
(***************************************************************************)
(* The lease service keeps its promises for any number of commands and CLI  *)
(* runs, any clocks and any set of faults.  First what the second read of   *)
(* readAndApply and the generation counter are for; then the types, that no *)
(* lease takes effect twice or without its audit event, that no command     *)
(* runs free longer than its lease or under a replaced one, that a          *)
(* confirmed close lasts, and that an orderly exit leaves no grant without  *)
(* its last event.                                                          *)
(***************************************************************************)
EXTENDS TemporaryAccess, FiniteSetTheorems, TLAPS

\* The operation is a record with the fields of Idle.
OpFields == DOMAIN op = {"pc", "seen", "text", "now", "deadline", "taken", "stale",
                         "failed", "late", "standing", "seenOpen"}

\* No record is read, held or published under an ID that is not yet drawn.
IdDrawn(r) == IsOpen(r) => r.id \in Nat /\ r.id <= issued
IdsDrawn   == issued \in Nat /\ IdDrawn(file) /\ IdDrawn(op.seen)

\* The lease being opened; its audit starts with nothing read again.
OpeningText == /\ op.pc \in {"opening", "confirming", "refusing"}
                    => IsOpen(op.text) /\ IdDrawn(op.text)
               /\ op.pc = "opening" => op.seen = Unread

\* In the confirming phase the file, or what was read of it, is the lease only
\* if it was the lease when the audit settled.
ConfirmsStanding ==
    op.pc = "confirming" /\ op.text \in {file, op.seen} => op.standing

LateIsStale == op.late => op.stale
GrantCounts == granted \in [LeaseIds -> Nat]

GrantInv == /\ OpFields
            /\ IdsDrawn
            /\ OpeningText
            /\ ConfirmsStanding
            /\ LateIsStale
            /\ GrantCounts

\* The initial state satisfies the invariant.
LEMMA GrantInit == Init => GrantInv
  BY DEF Init, GrantInv, OpFields, IdsDrawn, IdDrawn, OpeningText,
         ConfirmsStanding, LateIsStale, GrantCounts, Idle, Unread, Absent,
         IsOpen, NoGrants

\* A step that ends the operation, and leaves file and counts alone.
LEMMA EndsKeeps ==
  ASSUME GrantInv, op' = Idle, UNCHANGED <<storage, granted>>
  PROVE  GrantInv'
  BY DEF GrantInv, OpFields, IdsDrawn, IdDrawn, OpeningText, ConfirmsStanding,
         LateIsStale, GrantCounts, Idle, Unread, Absent, IsOpen, storage

\* A step that touches neither the operation nor what the invariant reads.
LEMMA OtherKeeps ==
  ASSUME GrantInv, UNCHANGED <<op, storage, granted>>
  PROVE  GrantInv'
  BY DEF GrantInv, OpFields, IdsDrawn, IdDrawn, OpeningText, ConfirmsStanding,
         LateIsStale, GrantCounts, storage, IsOpen

\* An answer given before the end.
LEMMA OvertakenKeeps ==
  ASSUME GrantInv, UNCHANGED <<storage, granted>>,
         op' = Overtaken \/ op' = [Overtaken EXCEPT !.failed = TRUE]
  PROVE  GrantInv'
  BY DEF GrantInv, OpFields, IdsDrawn, IdDrawn, OpeningText, ConfirmsStanding,
         LateIsStale, GrantCounts, storage, IsOpen, Overtaken

\* A record is published under a new ID, or carries none.
LEMMA PublishKeeps ==
  ASSUME GrantInv, NEW r, Publish(r), UNCHANGED granted,
         issued' \in {issued, issued + 1},
         IsOpen(r) => r.id = issued + 1 /\ issued' = issued + 1
  PROVE  GrantInv'
  BY DEF GrantInv, OpFields, IdsDrawn, IdDrawn, OpeningText, ConfirmsStanding,
         LateIsStale, GrantCounts, IsOpen, Publish

\* Every step keeps the invariant.
LEMMA GrantStep == GrantInv /\ [Next]_vars => GrantInv'
<1> SUFFICES ASSUME GrantInv, [Next]_vars PROVE GrantInv'
  OBVIOUS
<1>1. ASSUME NEW c \in Callers, Refresh(c) PROVE GrantInv'
  BY <1>1 DEF Refresh, GrantInv, OpFields, IdsDrawn, IdDrawn, OpeningText,
     ConfirmsStanding, LateIsStale, GrantCounts, storage, IsOpen, Idle, Unread, Absent
<1>2. ASSUME NEW c \in Callers, RefreshRejected(c) PROVE GrantInv'
  BY <1>2 DEF RefreshRejected, GrantInv, OpFields, IdsDrawn, IdDrawn, OpeningText,
     ConfirmsStanding, LateIsStale, GrantCounts, storage, IsOpen
<1>3. ASSUME NEW c \in Callers, RefreshStopped(c) PROVE GrantInv'
  BY <1>3, OtherKeeps DEF RefreshStopped, Unmoved
<1>4. ASSUME NEW c \in Callers, CallerDeadline(c) PROVE GrantInv'
  BY <1>4, OvertakenKeeps DEF CallerDeadline, Unmoved
<1>5. ASSUME NEW c \in Commands, Decide(c) PROVE GrantInv'
  BY <1>5, OtherKeeps DEF Decide
<1>6. CASE GrantTimer
  BY <1>6, OtherKeeps DEF GrantTimer, history
<1>7. CASE ReadTakes
  <2>1. PICK r : /\ r = file \/ r = Unreadable
                 /\ op' = [op EXCEPT !.seen = r]
    BY <1>7 DEF ReadTakes
  <2>2. op.pc # "opening"
    BY <1>7 DEF ReadTakes, InRead
  <2>3. UNCHANGED <<storage, granted>>
    BY <1>7 DEF ReadTakes, history
  <2> QED
    BY <2>1, <2>2, <2>3 DEF GrantInv, OpFields, IdsDrawn, IdDrawn, OpeningText,
       ConfirmsStanding, LateIsStale, GrantCounts, storage, IsOpen, Unreadable
<1>8. CASE ReadDeadline
  BY <1>8, OvertakenKeeps DEF ReadDeadline, Unmoved
<1>9. CASE FirstReadDiscarded \/ FirstReadRefused \/ FirstReadOverflows
           \/ OpeningFails \/ SecondReadFails \/ RefusalSettles
  BY <1>9, EndsKeeps DEF FirstReadDiscarded, FirstReadRefused, FirstReadOverflows,
     OpeningFails, SecondReadFails, RefusalSettles, Ends, Unmoved
<1>10. CASE FirstReadKeeps
  BY <1>10, EndsKeeps DEF FirstReadKeeps, Ends, Unmoved
<1>11. CASE FirstReadOpens
  <2>1. IsOpen(op.seen)
    BY <1>11 DEF FirstReadOpens, NewLease, Refused
  <2>2. /\ op'.pc = "opening" /\ op'.text = op.seen /\ op'.seen = Unread
        /\ op'.late = op.late /\ op'.stale = op.stale
        /\ DOMAIN op' = DOMAIN op
    BY <1>11 DEF FirstReadOpens, GrantInv, OpFields
  <2> QED
    BY <2>1, <2>2, <1>11 DEF FirstReadOpens, Unmoved, GrantInv, OpFields, IdsDrawn,
       IdDrawn, OpeningText, ConfirmsStanding, LateIsStale, GrantCounts, storage,
       IsOpen, Unread
<1>12. CASE OpeningAudited
  <2>1. UNCHANGED <<storage, granted>> /\ op.pc = "opening"
    BY <1>12 DEF OpeningAudited
  <2>2. CASE op' = [op EXCEPT !.pc = "confirming", !.standing = (file = op.text)]
    <3>1. /\ DOMAIN op' = DOMAIN op
          /\ op'.pc = "confirming" /\ op'.standing = (file = op.text)
          /\ op'.seen = op.seen /\ op'.text = op.text
          /\ op'.late = op.late /\ op'.stale = op.stale
      BY <2>2 DEF GrantInv, OpFields
    <3>2. op.text # op.seen /\ IsOpen(op.text) /\ IdDrawn(op.text)
      BY <2>1 DEF GrantInv, OpeningText, IsOpen, Unread
    <3>3. OpFields' /\ IdsDrawn' /\ OpeningText'
      BY <2>1, <3>1, <3>2 DEF GrantInv, OpFields, IdsDrawn, IdDrawn, OpeningText,
         storage, IsOpen
    <3>4. ConfirmsStanding'
      BY <2>1, <3>1, <3>2 DEF ConfirmsStanding, storage
    <3>5. LateIsStale' /\ GrantCounts'
      BY <2>1, <3>1 DEF GrantInv, LateIsStale, GrantCounts
    <3> QED
      BY <3>3, <3>4, <3>5 DEF GrantInv
  <2>3. CASE op' = Idle
    BY <2>1, <2>3, EndsKeeps
  <2> QED
    BY <2>2, <2>3, <1>12 DEF OpeningAudited, Ends
<1>13. CASE SecondReadRefuses
  BY <1>13 DEF SecondReadRefuses, SecondRead, Unmoved, GrantInv, OpFields, IdsDrawn,
     IdDrawn, OpeningText, ConfirmsStanding, LateIsStale, GrantCounts, storage, IsOpen
<1>14. CASE Activate
  <2>1. granted' \in [LeaseIds -> Nat]
    <3>1. granted' = [granted EXCEPT ![op.text.id] = granted[op.text.id] + 1]
      BY <1>14 DEF Activate
    <3>2. granted \in [LeaseIds -> Nat]
      BY DEF GrantInv, GrantCounts
    <3>3. CASE op.text.id \in LeaseIds
      <4>1. granted[op.text.id] + 1 \in Nat
        BY <3>2, <3>3
      <4> QED
        BY <3>1, <3>2, <4>1
    <3>4. CASE op.text.id \notin LeaseIds
      BY <3>1, <3>2, <3>4
    <3> QED
      BY <3>3, <3>4
  <2> QED
    BY <2>1, <1>14 DEF Activate, Ends, GrantInv, OpFields, IdsDrawn, IdDrawn,
       OpeningText, ConfirmsStanding, LateIsStale, GrantCounts, Idle, Unread,
       Absent, IsOpen, storage
<1>15. ASSUME NEW id \in LeaseIds, LifecycleSettles(id) PROVE GrantInv'
  BY <1>15, OtherKeeps DEF LifecycleSettles
<1>16. ASSUME NEW a \in Admins, CliWrites(a) PROVE GrantInv'
  <2>1. CASE \E r : Publish(r) /\ r = Closing
    BY <2>1, <1>16, PublishKeeps DEF CliWrites, Closing, Written, IsOpen
  <2>2. CASE Publish([kind |-> "open", id |-> Written, inst |-> cli[a].inst,
                      issuedAt |-> wall, expiresAt |-> wall + Duration])
    BY <2>2, <1>16, PublishKeeps DEF CliWrites, Written, IsOpen
  <2> QED
    BY <2>1, <2>2, <1>16 DEF CliWrites
<1>17. ASSUME NEW a \in Admins, CliUndoes(a) PROVE GrantInv'
  BY <1>17, PublishKeeps DEF CliUndoes, Closing, Written, IsOpen
<1>18. ASSUME NEW a \in Admins, CliWriteFails(a) \/ CliUnanswered(a) \/ CliReplaced(a)
       PROVE GrantInv'
  BY <1>18, OtherKeeps DEF CliWriteFails, CliUnanswered, CliReplaced, history
<1>19. CASE Stop
  <2>1. UNCHANGED <<storage, granted>>
        /\ op' \in {op, [op EXCEPT !.stale = TRUE]}
    BY <1>19 DEF Stop, history
  <2> QED
    BY <2>1, OtherKeeps DEF GrantInv, OpFields, IdsDrawn, IdDrawn, OpeningText,
       ConfirmsStanding, LateIsStale, GrantCounts, storage, IsOpen
<1>20. CASE Exit \/ Tick \/ Adjust
  BY <1>20, OtherKeeps DEF Exit, Tick, Adjust, history
<1>21. CASE Start \/ Crash
  BY <1>21, EndsKeeps DEF Start, Crash, NewProcess
<1>22. CASE Corrupt
  <2>1. issued' = issued /\ granted' = granted /\ Publish(Corrupted)
    BY <1>22 DEF Corrupt
  <2> QED
    BY <2>1, PublishKeeps DEF Corrupted, IsOpen
<1>23. CASE UNCHANGED vars
  BY <1>23, OtherKeeps DEF vars, history
<1> QED
  BY <1>1, <1>2, <1>3, <1>4, <1>5, <1>6, <1>7, <1>8, <1>9, <1>10, <1>11, <1>12,
     <1>13, <1>14, <1>15, <1>16, <1>17, <1>18, <1>19, <1>20, <1>21, <1>22, <1>23
     DEF Next, Asks, Applies, Administers

\* GrantInv holds in every reachable state.
THEOREM GrantInvariant == Spec => []GrantInv
  BY GrantInit, GrantStep, PTL DEF Spec

-----------------------------------------------------------------------------
(* Only Activate grants, and only what the invariant says of its operation.  *)

\* A lease whose count goes up is the one whose opening is confirmed, by an
\* operation that is still of the current generation.
LEMMA OnlyActivateGrants ==
  ASSUME GrantInv, [Next]_vars, NEW id \in LeaseIds, Activates(id)
  PROVE  SecondRead /\ Confirmed /\ op.text.id = id
<1>1. granted' # granted
  BY DEF Activates, GrantInv, GrantCounts
<1>2. Activate
  BY <1>1 DEF Next, Asks, Applies, Administers, vars, history, Refresh, RefreshRejected,
     RefreshStopped, CallerDeadline, Unmoved, Decide, GrantTimer, ReadTakes,
     ReadDeadline, FirstReadDiscarded, FirstReadRefused, FirstReadKeeps,
     FirstReadOverflows, FirstReadOpens, OpeningFails, OpeningAudited,
     SecondReadFails, SecondReadRefuses, RefusalSettles, LifecycleSettles,
     CliWrites, CliUndoes, CliWriteFails, CliUnanswered, CliReplaced, Stop, Exit,
     Start, Crash, NewProcess, Tick, Adjust, Corrupt
<1>3. op.text.id = id
  BY <1>2 DEF Activate, Activates, GrantInv, GrantCounts
<1> QED
  BY <1>2, <1>3 DEF Activate

\* A lease takes effect only if the file still held it when its "opened" event
\* settled (the confirming read of readAndApply).
THEOREM CloseWins == Spec => CloseWinsOverOpening
<1>1. ASSUME GrantInv, [Next]_vars, NEW id \in LeaseIds, Activates(id)
      PROVE  op.standing /\ op.text.id = id
  BY <1>1, OnlyActivateGrants DEF SecondRead, Confirmed, GrantInv, ConfirmsStanding
<1>2. GrantInv /\ [Next]_vars
        => [\A id \in LeaseIds : Activates(id) => op.standing /\ op.text.id = id]_vars
  BY <1>1
<1> QED
  BY <1>2, GrantInvariant, PTL DEF Spec, CloseWinsOverOpening

\* No lease takes effect through an operation of which a caller was already
\* refused (the generation counter of refresh and readWithinDeadline).
THEOREM LateGrantsNothing == Spec => LateNeverGrants
<1>1. ASSUME GrantInv, [Next]_vars, NEW id \in LeaseIds, Activates(id)
      PROVE  ~op.late
  BY <1>1, OnlyActivateGrants DEF Confirmed, StillValid, Superseded, GrantInv, LateIsStale
<1>2. GrantInv /\ [Next]_vars => [\A id \in LeaseIds : Activates(id) => ~op.late]_vars
  BY <1>1
<1> QED
  BY <1>2, GrantInvariant, PTL DEF Spec, LateNeverGrants

-----------------------------------------------------------------------------
(* The access CLI.  A run writes at most twice, the second time to undo the  *)
(* first, so that no more than LeaseIds is ever drawn.                       *)

CliPcs == {"off", "before", "write", "written", "after", "done", "refused", "undo",
           "failed"}
Unwritten == {"off", "before", "write"}

CliRun(x) == /\ DOMAIN x = {"pc", "action", "inst", "id"}
             /\ x.pc \in CliPcs
             /\ x.inst \in 0..boot
             /\ x.pc = "write" => x.inst # 0

\* The writes done so far, an admin's first and its second.
Writes == Admins \X {1, 2}
WritesDone(S) ==
    /\ S \subseteq Writes /\ Cardinality(S) = issued
    /\ \A a \in Admins : /\ cli[a].pc \in Unwritten => <<a, 1>> \notin S
                         /\ cli[a].pc # "failed" => <<a, 2>> \notin S

CliInv == /\ boot \in 1..MaxBoots
          /\ issued \in Nat
          /\ DOMAIN cli = Admins
          /\ \A a \in Admins : CliRun(cli[a])
          /\ \E S : WritesDone(S)

\* A step of a CLI run that writes nothing: it goes on, and what it knows of
\* the service is the boot that answers.
CliMove(x, y) ==
    /\ DOMAIN y = DOMAIN x
    /\ y.pc \in CliPcs
    /\ y.pc \in Unwritten => x.pc \in Unwritten
    /\ y.pc # "failed" => x.pc # "failed"
    /\ \/ y.inst = x.inst /\ (y.pc = "write" => x.pc = "write")
       \/ y.inst = boot
CliMoved == /\ DOMAIN cli' = Admins
            /\ \A a \in Admins : CliMove(cli[a], cli'[a])

LEMMA CliInit == Init => CliInv
<1> SUFFICES ASSUME Init PROVE CliInv
  OBVIOUS
<1>1. Cardinality({}) = 0
  BY FS_EmptySet
<1>2. WritesDone({})
  BY <1>1 DEF WritesDone, Init
<1>3. boot \in 1..MaxBoots
  BY TemporaryAccessAssumption DEF Init
<1>4. PICK kind \in [Admins -> {"open", "close"}] :
        cli = [a \in Admins |-> [pc |-> "off", action |-> kind[a], inst |-> 0, id |-> 0]]
  <2>1. cli \in [Admins -> {[pc |-> "off", action |-> o, inst |-> 0, id |-> 0] :
                              o \in {"open", "close"}}]
    BY DEF Init
  <2>2. \A a \in Admins : \E o \in {"open", "close"} :
           cli[a] = [pc |-> "off", action |-> o, inst |-> 0, id |-> 0]
    BY <2>1
  <2> DEFINE kind == [a \in Admins |-> cli[a].action]
  <2>3. kind \in [Admins -> {"open", "close"}]
    BY <2>2
  <2>4. \A a \in Admins :
           cli[a] = [pc |-> "off", action |-> kind[a], inst |-> 0, id |-> 0]
    BY <2>2
  <2>5. cli = [a \in Admins |-> [pc |-> "off", action |-> kind[a], inst |-> 0, id |-> 0]]
    BY <2>1, <2>4
  <2> QED
    BY <2>3, <2>5
<1>5. DOMAIN cli = Admins /\ \A a \in Admins : CliRun(cli[a])
  BY <1>3, <1>4 DEF CliRun, CliPcs
<1> QED
  BY <1>2, <1>3, <1>5 DEF CliInv, Init

\* Runs that write nothing keep the invariant.
LEMMA CliMovedKeeps ==
  ASSUME CliInv, CliMoved, boot' \in {boot, boot + 1} /\ boot' <= MaxBoots,
         issued' = issued
  PROVE  CliInv'
<1>1. PICK S : WritesDone(S)
  BY DEF CliInv
<1>2. WritesDone(S)'
  BY <1>1 DEF WritesDone, CliMoved, CliMove, CliInv
<1>3. \A a \in Admins : CliRun(cli[a])'
  BY DEF CliInv, CliRun, CliMoved, CliMove
<1> QED
  BY <1>2, <1>3 DEF CliInv, CliMoved

LEMMA WritesCounted ==
  IsFiniteSet(Writes) /\ Cardinality(Writes) = Cardinality(Admins) * 2
<1>1. IsFiniteSet({1, 2}) /\ Cardinality({1, 2}) = 2
  <2>1. IsFiniteSet({1}) /\ Cardinality({1}) = 1
    BY FS_Singleton
  <2>2. {1, 2} = {1} \cup {2} /\ 2 \notin {1}
    OBVIOUS
  <2> QED
    BY <2>1, <2>2, FS_AddElement
<1> QED
  BY <1>1, FS_Product, TemporaryAccessAssumption DEF Writes

\* A write is counted.
LEMMA CliWriteKeeps ==
  ASSUME CliInv, NEW a \in Admins, NEW n \in {1, 2}, NEW pc \in {"written", "failed"},
         IF n = 1 THEN cli[a].pc = "write"
                  ELSE pc = "failed" /\ cli[a].pc \in {"refused", "undo"},
         DOMAIN cli' = Admins,
         \A b \in Admins : b # a => cli'[b] = cli[b],
         DOMAIN cli'[a] = DOMAIN cli[a], cli'[a].pc = pc, cli'[a].inst = cli[a].inst,
         boot' = boot, issued' = issued + 1
  PROVE  CliInv'
<1>1. PICK S : WritesDone(S)
  BY DEF CliInv
<1>2. IsFiniteSet(Writes)
  BY WritesCounted
<1>3. IsFiniteSet(S)
  BY <1>1, <1>2, FS_Subset DEF WritesDone
<1>4. <<a, n>> \notin S
  BY <1>1 DEF WritesDone, Unwritten
<1> DEFINE T == S \cup {<<a, n>>}
<1>5. Cardinality(T) = issued + 1
  BY <1>1, <1>3, <1>4, FS_AddElement DEF WritesDone
<1>6. T \subseteq Writes
  BY <1>1 DEF WritesDone, Writes
<1>7. \A b \in Admins : /\ cli'[b].pc \in Unwritten => <<b, 1>> \notin T
                        /\ cli'[b].pc # "failed" => <<b, 2>> \notin T
  <2> TAKE b \in Admins
  <2>1. CASE b # a
    BY <1>1, <2>1 DEF WritesDone
  <2>2. CASE b = a
    BY <1>1, <2>2 DEF WritesDone, Unwritten
  <2> QED
    BY <2>1, <2>2
<1>8. WritesDone(T)'
  BY <1>5, <1>6, <1>7 DEF WritesDone
<1>9. \A b \in Admins : CliRun(cli[b])'
  BY DEF CliInv, CliRun, CliPcs
<1> QED
  BY <1>8, <1>9 DEF CliInv

\* The lease IDs suffice.
LEMMA IdsSuffice ==
  ASSUME NEW S \in SUBSET Writes
  PROVE  Cardinality(S) \in LeaseIds \cup {0}
<1>1. IsFiniteSet(Writes) /\ Cardinality(Writes) = Cardinality(Admins) * 2
  BY WritesCounted
<1>2. IsFiniteSet(S) /\ Cardinality(S) <= Cardinality(Writes)
  BY <1>1, FS_Subset
<1>3. Cardinality(Admins) \in Nat /\ Cardinality(S) \in Nat
  BY <1>2, FS_CardinalityType, TemporaryAccessAssumption
<1> QED
  BY <1>1, <1>2, <1>3 DEF LeaseIds

LEMMA CliRefl ==
  ASSUME CliInv, NEW a \in Admins
  PROVE  CliMove(cli[a], cli[a])
  BY DEF CliInv, CliRun, CliMove

LEMMA CliStays ==
  ASSUME CliInv, cli' = cli
  PROVE  CliMoved
  BY CliRefl DEF CliInv, CliMoved

\* What an answer makes of a run.
LEMMA ToldMoves ==
  ASSUME NEW x, CliRun(x), NEW h
  PROVE  CliMove(x, Told(x, h))
  BY DEF CliRun, CliMove, Told, Verdict, CliPcs, Unwritten

\* Asking moves the caller's run only, to a question that is answered later.
LEMMA AskedMoves ==
  ASSUME CliInv, NEW c \in Callers, CanAsk(c)
  PROVE  /\ DOMAIN Asked(c) = Admins
         /\ \A a \in Admins : CliMove(cli[a], Asked(c)[a]) /\ CliRun(Asked(c)[a])
<1>1. CASE c \in Commands
  BY <1>1, CliRefl DEF Asked, CliInv
<1>2. CASE c \notin Commands
  <2>1. c \in Admins /\ cli[c].pc \in {"off", "written"}
    BY <1>2 DEF Callers, CanAsk
  <2>2. CliRun(cli[c])
    BY <2>1 DEF CliInv
  <2>3. /\ DOMAIN Asked(c) = Admins
        /\ \A a \in Admins : a # c => Asked(c)[a] = cli[a]
        /\ Asked(c)[c] = [cli[c] EXCEPT !.pc = IF cli[c].pc = "off" THEN "before" ELSE "after"]
    BY <1>2, <2>1 DEF Asked, CliInv
  <2>4. CliMove(cli[c], Asked(c)[c]) /\ CliRun(Asked(c)[c])
    BY <2>1, <2>2, <2>3 DEF CliRun, CliMove, CliPcs, Unwritten
  <2> QED
    BY <2>3, <2>4, CliRefl DEF CliInv
<1> QED
  BY <1>1, <1>2

LEMMA MoveComposes ==
  ASSUME NEW x, NEW y, NEW z, CliMove(x, y), CliMove(y, z)
  PROVE  CliMove(x, z)
  BY DEF CliMove

LEMMA AnswerMoves ==
  ASSUME CliInv, NEW S, NEW h, NEW c,
         \A a \in Admins : CliMove(cli[a], c[a]) /\ CliRun(c[a]),
         Answer(S, c, h)
  PROVE  CliMoved
<1>1. \A a \in Admins : cli'[a] \in {Told(c[a], h), c[a]}
  BY DEF Answer
<1>2. DOMAIN cli' = Admins
  BY DEF Answer
<1>3. ASSUME NEW a \in Admins PROVE CliMove(cli[a], cli'[a])
  BY <1>1, <1>3, ToldMoves, MoveComposes
<1> QED
  BY <1>2, <1>3 DEF CliMoved

LEMMA AnswerCliMoves ==
  ASSUME CliInv, NEW S, NEW h, Answer(S, cli, h)
  PROVE  CliMoved
  BY AnswerMoves, CliRefl DEF CliInv

LEMMA PcMoves ==
  ASSUME CliInv, NEW a \in Admins, NEW pc, CliMoves(a, pc),
         \/ pc = "undo" /\ cli[a].pc # "failed"
         \/ pc = "failed"
  PROVE  CliMoved
<1>1. CliRun(cli[a]) /\ cli'[a] = [cli[a] EXCEPT !.pc = pc] /\ DOMAIN cli' = Admins
      /\ \A b \in Admins : b # a => cli'[b] = cli[b]
  BY DEF CliInv, CliMoves
<1>2. CliMove(cli[a], cli'[a])
  BY <1>1 DEF CliRun, CliMove, CliPcs, Unwritten
<1> QED
  BY <1>1, <1>2, CliRefl DEF CliMoved

\* Every step keeps the invariant of the access CLI.
LEMMA CliStep == CliInv /\ [Next]_vars => CliInv'
<1> SUFFICES ASSUME CliInv, [Next]_vars PROVE CliInv'
  OBVIOUS
<1>0. boot <= MaxBoots /\ boot \in Nat
  BY TemporaryAccessAssumption DEF CliInv
<1>1. ASSUME CliMoved, UNCHANGED <<boot, issued>> PROVE CliInv'
  BY <1>0, <1>1, CliMovedKeeps
<1>2. ASSUME UNCHANGED <<cli, boot, issued>> PROVE CliInv'
  BY <1>1, <1>2, CliStays
<1>3. CASE \E c \in Callers :
             Refresh(c) \/ RefreshRejected(c) \/ RefreshStopped(c) \/ CallerDeadline(c)
  <2> PICK c \in Callers :
        Refresh(c) \/ RefreshRejected(c) \/ RefreshStopped(c) \/ CallerDeadline(c)
    BY <1>3
  <2>1. UNCHANGED <<boot, issued>>
    BY DEF Refresh, RefreshRejected, RefreshStopped, CallerDeadline, Unmoved, storage
  <2>2. CASE Refresh(c)
    <3>1. cli' = Asked(c) /\ CanAsk(c)
      BY <2>2 DEF Refresh
    <3> QED
      BY <1>1, <2>1, <3>1, AskedMoves DEF CliMoved
  <2>3. CASE RefreshRejected(c) \/ RefreshStopped(c)
    <3>1. Answer({c}, Asked(c), None) /\ CanAsk(c)
      BY <2>3 DEF RefreshRejected, RefreshStopped
    <3> QED
      BY <1>1, <2>1, <3>1, AskedMoves, AnswerMoves
  <2>4. CASE CallerDeadline(c)
    BY <1>1, <2>1, <2>4, AnswerCliMoves DEF CallerDeadline, GivesUp
  <2> QED
    BY <2>2, <2>3, <2>4
<1>4. CASE \/ \E c \in Commands : Decide(c)
           \/ GrantTimer \/ ReadTakes \/ Stop \/ Exit \/ Tick \/ Adjust \/ Corrupt
           \/ \E id \in LeaseIds : LifecycleSettles(id)
  BY <1>2, <1>4 DEF Decide, GrantTimer, ReadTakes, Stop, Exit, Tick, Adjust, Corrupt,
     LifecycleSettles, storage
<1>5. CASE \/ ReadDeadline \/ FirstReadDiscarded \/ FirstReadRefused \/ FirstReadKeeps
           \/ FirstReadOverflows \/ OpeningFails \/ SecondReadFails \/ Activate
           \/ RefusalSettles
  <2>1. UNCHANGED <<boot, issued>>
    BY <1>5 DEF ReadDeadline, FirstReadDiscarded, FirstReadRefused, FirstReadKeeps,
       FirstReadOverflows, OpeningFails, SecondReadFails, Activate, RefusalSettles,
       Unmoved, storage
  <2>2. \E S, h : Answer(S, cli, h)
    BY <1>5 DEF ReadDeadline, FirstReadDiscarded, FirstReadRefused, FirstReadKeeps,
       FirstReadOverflows, OpeningFails, SecondReadFails, Activate, RefusalSettles,
       Ends, GivesUp
  <2> QED
    BY <1>1, <2>1, <2>2, AnswerCliMoves
<1>6. CASE FirstReadOpens \/ SecondReadRefuses
  BY <1>2, <1>6 DEF FirstReadOpens, SecondReadRefuses, Unmoved, storage
<1>7. CASE OpeningAudited
  <2>1. UNCHANGED <<boot, issued>> /\ (cli' = cli \/ \E S, h : Answer(S, cli, h))
    BY <1>7 DEF OpeningAudited, Ends, storage
  <2> QED
    BY <1>1, <1>2, <2>1, AnswerCliMoves
<1>8. ASSUME NEW a \in Admins, CliWrites(a) PROVE CliInv'
  <2>1. CliRun(cli[a]) /\ DOMAIN cli = Admins /\ cli[a].pc = "write"
    BY <1>8 DEF CliInv, CliWrites
  <2>2. PICK pc \in {"written", "failed"} :
          \/ CliMoves(a, pc)
          \/ cli' = [cli EXCEPT ![a].pc = pc, ![a].id = Written]
    BY <1>8 DEF CliWrites
  <2>3. /\ DOMAIN cli' = Admins
        /\ \A b \in Admins : b # a => cli'[b] = cli[b]
        /\ DOMAIN cli'[a] = DOMAIN cli[a] /\ cli'[a].pc = pc /\ cli'[a].inst = cli[a].inst
    BY <2>1, <2>2 DEF CliMoves, CliRun
  <2>4. boot' = boot /\ issued' = issued + 1
    BY <1>8 DEF CliWrites, Written
  <2> QED
    BY <2>1, <2>3, <2>4, CliWriteKeeps
<1>9. ASSUME NEW a \in Admins, CliUndoes(a) PROVE CliInv'
  <2>1. CliRun(cli[a]) /\ DOMAIN cli = Admins /\ cli[a].pc \in {"refused", "undo"}
    BY <1>9 DEF CliInv, CliUndoes
  <2>2. /\ DOMAIN cli' = Admins
        /\ \A b \in Admins : b # a => cli'[b] = cli[b]
        /\ DOMAIN cli'[a] = DOMAIN cli[a] /\ cli'[a].pc = "failed"
        /\ cli'[a].inst = cli[a].inst
    BY <1>9, <2>1 DEF CliUndoes, CliMoves, CliRun
  <2>3. boot' = boot /\ issued' = issued + 1
    BY <1>9 DEF CliUndoes, Written
  <2> QED
    BY <2>1, <2>2, <2>3, CliWriteKeeps
<1>10. ASSUME NEW a \in Admins, CliWriteFails(a) \/ CliUnanswered(a) \/ CliReplaced(a)
       PROVE CliInv'
  <2>1. UNCHANGED <<boot, issued>>
    BY <1>10 DEF CliWriteFails, CliUnanswered, CliReplaced, storage
  <2>2. CliMoves(a, "failed") \/ (CliMoves(a, "undo") /\ cli[a].pc # "failed")
    BY <1>10 DEF CliWriteFails, CliUnanswered, CliReplaced
  <2> QED
    BY <1>1, <2>1, <2>2, PcMoves
<1>11. CASE Start \/ Crash
  <2>1. boot' = boot + 1 /\ boot' <= MaxBoots /\ issued' = issued /\ cli' = cli
    BY <1>0, <1>11, TemporaryAccessAssumption DEF Start, Crash, NewProcess, storage
  <2> QED
    BY <2>1, CliStays, CliMovedKeeps
<1>12. CASE UNCHANGED vars
  BY <1>2, <1>12 DEF vars, storage
<1> QED
  BY <1>3, <1>4, <1>5, <1>6, <1>7, <1>8, <1>9, <1>10, <1>11, <1>12
     DEF Next, Asks, Applies, Administers

THEOREM CliInvariant == Spec => []CliInv
  BY CliInit, CliStep, PTL DEF Spec

-----------------------------------------------------------------------------
(* Types.                                                                    *)

Seens  == Lease \cup Closes \cup {Absent, Corrupted, Unread, Unreadable}
Grants == GrantType \cup {None}

TypeInv == /\ AccessType
           /\ op.taken \in Nat
           /\ op.pc = "idle" => op = Idle

\* What the steps of an operation leave alone.
Outside == <<phase, boot, awaited, clocks, storage>>

LEMMA OpenIsLease ==
  ASSUME NEW r \in Seens, IsOpen(r)
  PROVE  r \in Lease
  BY DEF Seens, IsOpen, Lease, Closes, Absent, Corrupted, Unread, Unreadable

LEMMA KeptType ==
  ASSUME NEW g \in Grants
  PROVE  Kept(g) \in Grants /\ Kept(g) \in {g, None}
  BY DEF Kept, Grants

LEMMA DroppedType ==
  ASSUME NEW g \in Grants, NEW h
  PROVE  Dropped(g, h) \subseteq LeaseIds
  BY DEF Dropped, Grants, GrantType, Lease

LEMMA BecomesType ==
  ASSUME AccessType, NEW g \in Grants, NEW h \in Grants, NEW ids \in SUBSET LeaseIds,
         Becomes(g, h, ids)
  PROVE  /\ active' \in Grants
         /\ revoked' \subseteq LeaseIds /\ lifecycle' \subseteq LeaseIds
  BY DroppedType DEF Becomes, AccessType

LEMMA AnswerType ==
  ASSUME AccessType, NEW S, NEW c, NEW h, Answer(S, c, h)
  PROVE  cmd' \in [Commands -> {"new", "refreshing", "auditing", "free", "ruled", "dead"}]
  BY DEF Answer, AccessType

LEMMA EndsType ==
  ASSUME TypeInv, NEW g \in Grants, NEW h \in Grants, NEW ids \in SUBSET LeaseIds,
         Ends(g, h, ids), UNCHANGED Outside
  PROVE  TypeInv'
<1>1. active' \in Grants /\ revoked' \subseteq LeaseIds /\ lifecycle' \subseteq LeaseIds
  BY BecomesType, KeptType DEF TypeInv, Ends
<1>2. cmd' \in [Commands -> {"new", "refreshing", "auditing", "free", "ruled", "dead"}]
  BY AnswerType DEF TypeInv, Ends
<1>3. op' = Idle /\ waiting' = {} /\ lastWall' \in Nat
  BY DEF Ends, TypeInv, AccessType
<1>4. Idle.pc \in OpSteps /\ Idle.seen \in Seens /\ Idle.text = Absent
      /\ Idle.deadline \in Nat /\ Idle.taken \in Nat
  BY DEF Idle, OpSteps, Seens
<1> QED
  BY <1>1, <1>2, <1>3, <1>4 DEF TypeInv, AccessType, Outside, clocks, storage, Grants, Seens

LEMMA GivesUpType ==
  ASSUME TypeInv, NEW S, GivesUp(S), UNCHANGED Outside,
         op'.pc = op.pc, op'.seen = op.seen, op'.text = op.text,
         op'.deadline = op.deadline, op'.taken = op.taken,
         op.pc # "idle", op'.failed = op.failed \/ S = waiting
  PROVE  TypeInv'
<1>1. active' \in Grants /\ revoked' \subseteq LeaseIds /\ lifecycle' \subseteq LeaseIds
  BY BecomesType DEF TypeInv, GivesUp, AccessType, Grants
<1>2. cmd' \in [Commands -> {"new", "refreshing", "auditing", "free", "ruled", "dead"}]
  BY AnswerType DEF TypeInv, GivesUp
<1>3. waiting' = waiting \ S /\ lastWall' \in Nat
  BY DEF GivesUp, TypeInv, AccessType
<1> QED
  BY <1>1, <1>2, <1>3 DEF TypeInv, AccessType, Outside, clocks, storage, Grants

\* A step that moves the operation on and answers nobody.
LEMMA OpType ==
  ASSUME TypeInv, UNCHANGED Outside, UNCHANGED <<waiting, cmd>>,
         active' \in Grants, revoked' \subseteq LeaseIds, lifecycle' \subseteq LeaseIds,
         lastWall' \in Nat,
         op'.pc \in OpSteps \ {"idle"}, op.pc # "idle", op'.failed = op.failed,
         op'.seen \in Seens, op'.text \in Lease \cup {Absent},
         op'.deadline \in Nat, op'.taken \in Nat
  PROVE  TypeInv'
  BY DEF TypeInv, AccessType, Outside, clocks, storage, Grants, Seens

LEMMA TypeInit == Init => TypeInv
<1> SUFFICES ASSUME Init PROVE TypeInv
  OBVIOUS
<1>1. /\ boot \in 1..MaxBoots
      /\ <<wall, mono, jumps, lastWall>> \in Nat \X Nat \X Nat \X Nat
  BY TemporaryAccessAssumption DEF Init
<1>2. Idle.pc \in OpSteps /\ Idle.seen \in Seens /\ Idle.text = Absent
      /\ Idle.deadline \in Nat /\ Idle.taken \in Nat
  BY DEF Idle, OpSteps, Seens
<1>3. op = Idle /\ waiting = {} /\ active = None /\ revoked = {} /\ lifecycle = {} /\ awaited = {}
      /\ phase = "up" /\ cmd = [c \in Commands |-> "new"] /\ file = Absent /\ issued = 0
  BY DEF Init
<1> QED
  BY <1>1, <1>2, <1>3 DEF TypeInv, AccessType, Seens

\* A step of somebody else, that at most marks the operation.
OpMarked == /\ op'.pc = op.pc /\ op'.seen = op.seen /\ op'.text = op.text
            /\ op'.deadline = op.deadline /\ op'.taken = op.taken
            /\ op'.failed = op.failed
            /\ op.pc = "idle" => op' = op

LEMMA PublishMarks ==
  ASSUME GrantInv, NEW r, Publish(r)
  PROVE  OpMarked /\ file' = r
  BY DEF GrantInv, OpFields, Publish, OpMarked

LEMMA MarkedType ==
  ASSUME TypeInv, OpMarked,
         UNCHANGED <<boot, jumps, revoked, lifecycle, awaited, waiting, cmd>>,
         phase' \in {"up", "stopping", "down"}, active' = active,
         <<wall', mono', lastWall'>> \in Nat \X Nat \X Nat,
         file' \in Lease \cup Closes \cup {Absent, Corrupted},
         issued' \in LeaseIds \cup {0}
  PROVE  TypeInv'
  BY DEF TypeInv, AccessType, OpMarked

\* The lease that is new to the service, and its end.
LEMMA NewLeaseType ==
  ASSUME TypeInv, CliInv, FirstRead, ~Refused(op.seen)
  PROVE  /\ op.seen \in Lease /\ IsOpen(op.seen) /\ op.seen.id \in LeaseIds
         /\ op.seen.inst = boot
         /\ op.seen.issuedAt <= wall /\ wall < op.seen.expiresAt
         /\ Deadline(op.seen) \in Nat
<1>1. IsOpen(op.seen) /\ op.seen.inst = boot /\ ~(op.seen.issuedAt > wall)
      /\ ~(op.seen.expiresAt <= wall)
  BY DEF Refused
<1>2. op.seen \in Lease
  BY <1>1, OpenIsLease DEF TypeInv, AccessType, Seens
<1>3. /\ op.seen.id \in LeaseIds /\ op.seen.issuedAt \in Nat /\ op.seen.expiresAt \in Nat
      /\ wall \in Nat /\ mono \in Nat
  BY <1>2 DEF Lease, TypeInv, AccessType
<1> QED
  BY <1>1, <1>2, <1>3 DEF Deadline

LEMMA SeenIds ==
  ASSUME TypeInv
  PROVE  IdsIn(op.seen) \subseteq LeaseIds
<1>1. op.seen \in Lease => op.seen.id \in LeaseIds
  BY DEF Lease
<1>2. op.seen \in Closes => op.seen.id \in LeaseIds
  BY DEF Closes
<1>3. op.seen \notin Lease \cup Closes => IdsIn(op.seen) = {}
  BY DEF TypeInv, AccessType, IdsIn, IsOpen, IsClose, Absent, Corrupted, Unread, Unreadable
<1> QED
  BY <1>1, <1>2, <1>3 DEF IdsIn

\* refresh and its callers.
LEMMA AskTypes ==
  ASSUME TypeInv, GrantInv, NEW c \in Callers,
         Refresh(c) \/ RefreshRejected(c) \/ RefreshStopped(c) \/ CallerDeadline(c)
  PROVE  TypeInv'
<1> USE DEF Outside
<1>1. CASE Refresh(c)
  <2>1. CASE op.pc = "idle"
    <3>1. op' = [Idle EXCEPT !.pc = "reading", !.seenOpen = OpenIds(file)]
      BY <1>1, <2>1 DEF Refresh
    <3>2. /\ op'.pc = "reading" /\ op'.seen = Unread /\ op'.text = Absent
          /\ op'.deadline = 0 /\ op'.taken = 0 /\ op'.failed = FALSE
      BY <3>1 DEF Idle
    <3>3. waiting' = waiting \cup {c}
          /\ cmd' = [d \in Commands |-> IF d = c THEN "refreshing" ELSE cmd[d]]
          /\ UNCHANGED <<phase, boot, awaited, clocks, control, storage>>
      BY <1>1 DEF Refresh
    <3> QED
      BY <3>2, <3>3 DEF TypeInv, AccessType, clocks, control, storage, OpSteps
  <2>2. CASE op.pc # "idle"
    BY <1>1, <2>2 DEF Refresh, TypeInv, AccessType, clocks, control, storage
  <2> QED
    BY <2>1, <2>2
<1>2. CASE RefreshRejected(c)
  <2>1. op.pc # "idle"
    BY <1>2 DEF RefreshRejected, TypeInv, Idle
  <2>2. /\ op'.pc = op.pc /\ op'.seen = op.seen /\ op'.text = op.text
        /\ op'.deadline = op.deadline /\ op'.taken = op.taken /\ op'.failed = op.failed
    BY <1>2 DEF RefreshRejected, GrantInv, OpFields
  <2>3. active' \in Grants /\ revoked' \subseteq LeaseIds /\ lifecycle' \subseteq LeaseIds
    BY <1>2, BecomesType DEF RefreshRejected, TypeInv, AccessType, Grants
  <2>4. cmd' \in [Commands -> {"new", "refreshing", "auditing", "free", "ruled", "dead"}]
    BY <1>2, AnswerType DEF RefreshRejected, TypeInv
  <2>5. UNCHANGED <<phase, boot, awaited, clocks, waiting, storage>> /\ lastWall' = wall
    BY <1>2 DEF RefreshRejected
  <2> QED
    BY <2>1, <2>2, <2>3, <2>4, <2>5 DEF TypeInv, AccessType, clocks, storage, Grants
<1>3. CASE RefreshStopped(c)
  <2>1. cmd' \in [Commands -> {"new", "refreshing", "auditing", "free", "ruled", "dead"}]
    BY <1>3, AnswerType DEF RefreshStopped, TypeInv
  <2> QED
    BY <1>3, <2>1 DEF RefreshStopped, Unmoved, TypeInv, AccessType, clocks, control, storage
<1>4. CASE CallerDeadline(c)
  <2>1. /\ op'.pc = op.pc /\ op'.seen = op.seen /\ op'.text = op.text
        /\ op'.deadline = op.deadline /\ op'.taken = op.taken /\ op'.failed = op.failed
    BY <1>4 DEF CallerDeadline, Overtaken, GrantInv, OpFields
  <2> QED
    BY <1>4, <2>1, GivesUpType DEF CallerDeadline, Unmoved
<1> QED
  BY <1>1, <1>2, <1>3, <1>4

\* readAndApply.
LEMMA ApplyTypes ==
  ASSUME TypeInv, GrantInv, CliInv, Applies
  PROVE  TypeInv'
<1> USE DEF Outside
<1>0. active \in Grants /\ op.seen \in Seens /\ None \in Grants /\ {} \subseteq LeaseIds
      /\ revoked \subseteq LeaseIds /\ lifecycle \subseteq LeaseIds /\ lastWall \in Nat
      /\ wall \in Nat /\ mono \in Nat
  BY DEF TypeInv, AccessType, Grants, Seens
<1>1. CASE ReadTakes
  <2>1. PICK r : /\ r = file \/ r = Unreadable
                 /\ op' = [op EXCEPT !.seen = r]
    BY <1>1 DEF ReadTakes
  <2>2. /\ op'.pc = op.pc /\ op'.seen = r /\ op'.text = op.text
        /\ op'.deadline = op.deadline /\ op'.taken = op.taken /\ op'.failed = op.failed
    BY <2>1 DEF GrantInv, OpFields
  <2>3. r \in Seens
    BY <2>1 DEF Seens, TypeInv, AccessType
  <2>4. op.pc \in OpSteps \ {"idle"}
    BY <1>1 DEF ReadTakes, InRead, OpSteps
  <2>5. UNCHANGED <<phase, boot, awaited, clocks, control, waiting, cmd, storage>>
    BY <1>1 DEF ReadTakes
  <2> QED
    BY <1>0, <2>2, <2>3, <2>4, <2>5, OpType DEF control, TypeInv, AccessType
<1>2. CASE ReadDeadline
  <2>1. /\ op'.pc = op.pc /\ op'.seen = op.seen /\ op'.text = op.text
        /\ op'.deadline = op.deadline /\ op'.taken = op.taken
    BY <1>2 DEF ReadDeadline, Overtaken, GrantInv, OpFields
  <2> QED
    BY <1>2, <2>1, GivesUpType DEF ReadDeadline, Unmoved, InRead
<1>3. CASE FirstReadDiscarded
  BY <1>0, <1>3, SeenIds, EndsType DEF FirstReadDiscarded, Unmoved
<1>4. CASE FirstReadRefused \/ OpeningFails \/ SecondReadFails \/ RefusalSettles
  BY <1>0, <1>4, EndsType
     DEF FirstReadRefused, OpeningFails, SecondReadFails, RefusalSettles, Unmoved
<1>5. CASE FirstReadKeeps
  <2>1. \E h \in Grants : Ends(active, h, {})
    BY <1>0, <1>5, KeptType DEF FirstReadKeeps
  <2> QED
    BY <1>0, <1>5, <2>1, EndsType DEF FirstReadKeeps, Unmoved
<1>6. CASE FirstReadOverflows
  <2>1. op.seen.id \in LeaseIds
    BY <1>6, NewLeaseType DEF FirstReadOverflows, NewLease
  <2> QED
    BY <1>0, <1>6, <2>1, EndsType DEF FirstReadOverflows, Unmoved
<1>7. CASE FirstReadOpens
  <2>1. op.seen \in Lease /\ op.seen.id \in LeaseIds /\ Deadline(op.seen) \in Nat
    BY <1>7, NewLeaseType DEF FirstReadOpens, NewLease
  <2>2. /\ op'.pc = "opening" /\ op'.seen = Unread /\ op'.text = op.seen
        /\ op'.deadline = Deadline(op.seen) /\ op'.taken = mono /\ op'.failed = op.failed
    BY <1>7 DEF FirstReadOpens, GrantInv, OpFields
  <2>3. active' \in Grants /\ revoked' \subseteq LeaseIds /\ lifecycle' \subseteq LeaseIds
    BY <1>0, <1>7, <2>1, BecomesType DEF FirstReadOpens, TypeInv
  <2>4. UNCHANGED <<phase, boot, awaited, clocks, waiting, cmd, storage>> /\ lastWall' = wall
        /\ op.pc = "reading"
    BY <1>7 DEF FirstReadOpens, Unmoved, NewLease, FirstRead
  <2> QED
    BY <1>0, <2>1, <2>2, <2>3, <2>4, OpType DEF OpSteps, Seens
<1>8. CASE OpeningAudited
  <2>1. CASE /\ op' = [op EXCEPT !.pc = "confirming", !.standing = (file = op.text)]
             /\ UNCHANGED <<control, waiting, cmd, cli, closed>>
    <3>1. /\ op'.pc = "confirming" /\ op'.seen = op.seen /\ op'.text = op.text
          /\ op'.deadline = op.deadline /\ op'.taken = op.taken /\ op'.failed = op.failed
      BY <2>1 DEF GrantInv, OpFields
    <3>2. UNCHANGED <<phase, boot, awaited, clocks, storage>> /\ op.pc = "opening"
      BY <1>8 DEF OpeningAudited
    <3> QED
      BY <1>0, <2>1, <3>1, <3>2, OpType DEF OpSteps, control, TypeInv, AccessType
  <2>2. CASE Ends(active, active, {})
    BY <1>0, <1>8, <2>2, EndsType DEF OpeningAudited
  <2> QED
    BY <1>8, <2>1, <2>2 DEF OpeningAudited
<1>9. CASE SecondReadRefuses
  <2>1. /\ op'.pc = "refusing" /\ op'.seen = op.seen /\ op'.text = op.text
        /\ op'.deadline = op.deadline /\ op'.taken = op.taken /\ op'.failed = op.failed
    BY <1>9 DEF SecondReadRefuses, GrantInv, OpFields
  <2>2. UNCHANGED <<phase, boot, awaited, clocks, control, waiting, cmd, storage>>
        /\ op.pc = "confirming"
    BY <1>9 DEF SecondReadRefuses, SecondRead, Unmoved
  <2> QED
    BY <1>0, <2>1, <2>2, OpType DEF OpSteps, control, TypeInv, AccessType
<1>10. CASE Activate
  <2>1. op.text \in Lease
    BY <1>10 DEF Activate, SecondRead, GrantInv, OpeningText, TypeInv, AccessType,
       IsOpen, Absent
  <2>2. Grant \in Grants
    BY <2>1 DEF Grant, Grants, GrantType, TypeInv, AccessType
  <2> QED
    BY <1>0, <1>10, <2>2, EndsType DEF Activate
<1> QED
  BY <1>1, <1>2, <1>3, <1>4, <1>5, <1>6, <1>7, <1>8, <1>9, <1>10 DEF Applies

LEMMA ModeTypes ==
  ASSUME TypeInv, GrantInv,
         \/ \E c \in Commands : Decide(c)
         \/ GrantTimer
         \/ \E id \in LeaseIds : LifecycleSettles(id)
  PROVE  TypeInv'
<1>0. active \in Grants
  BY DEF TypeInv, AccessType, Grants
<1>1. CASE \E c \in Commands : Decide(c)
  <2>1. Becomes(active, Kept(active), {}) /\ lastWall' = wall
        /\ UNCHANGED <<phase, boot, awaited, clocks, op, waiting, storage>>
    BY <1>1 DEF Decide
  <2>2. cmd' \in [Commands -> {"new", "refreshing", "auditing", "free", "ruled", "dead"}]
    BY <1>1 DEF Decide, TypeInv, AccessType
  <2>3. active' \in Grants /\ revoked' \subseteq LeaseIds /\ lifecycle' \subseteq LeaseIds
    BY <1>0, <2>1, BecomesType, KeptType DEF TypeInv
  <2> QED
    BY <2>1, <2>2, <2>3 DEF TypeInv, AccessType, clocks, storage, Grants
<1>2. CASE GrantTimer
  <2>1. Becomes(active, Kept(active), {}) /\ lastWall' = wall
        /\ UNCHANGED <<phase, boot, awaited, clocks, op, waiting, cmd, storage>>
    BY <1>2 DEF GrantTimer
  <2>2. active' \in Grants /\ revoked' \subseteq LeaseIds /\ lifecycle' \subseteq LeaseIds
    BY <1>0, <2>1, BecomesType, KeptType DEF TypeInv
  <2> QED
    BY <2>1, <2>2 DEF TypeInv, AccessType, clocks, storage, Grants
<1>3. CASE \E id \in LeaseIds : LifecycleSettles(id)
  BY <1>3 DEF LifecycleSettles, TypeInv, AccessType, clocks, storage
<1> QED
  BY <1>1, <1>2, <1>3

\* What the CLI writes has its type.
LEMMA WriteTypes ==
  ASSUME TypeInv, GrantInv, CliInv, CliInv', NEW a \in Admins,
         CliWrites(a) \/ CliUndoes(a)
  PROVE  TypeInv'
<1>1. issued' = Written /\ Written \in LeaseIds
  <2>1. issued' = Written /\ Written \in Nat \ {0}
    BY DEF CliWrites, CliUndoes, Written, CliInv
  <2>2. PICK S : WritesDone(S)'
    BY DEF CliInv
  <2>3. Cardinality(S) \in LeaseIds \cup {0} /\ issued' = Cardinality(S)
    BY <2>2, IdsSuffice DEF WritesDone
  <2> QED
    BY <2>1, <2>3
<1>2. /\ UNCHANGED <<boot, jumps, revoked, lifecycle, awaited, waiting, cmd, phase, active,
                     wall, mono, lastWall>>
  BY DEF CliWrites, CliUndoes, clocks, control
<1>3. PICK r : Publish(r) /\ r \in Lease \cup Closes
  <2>1. Closing \in Closes
    BY <1>1 DEF Closing, Closes
  <2>2. CASE Publish(Closing)
    BY <2>1, <2>2
  <2>3. CASE ~Publish(Closing)
    <3> DEFINE r == [kind |-> "open", id |-> Written, inst |-> cli[a].inst,
                     issuedAt |-> wall, expiresAt |-> wall + Duration]
    <3>1. Publish(r) /\ cli[a].pc = "write"
      BY <2>3 DEF CliWrites, CliUndoes
    <3>2. cli[a].inst \in 1..MaxBoots
      BY <3>1, TemporaryAccessAssumption DEF CliInv, CliRun
    <3>3. r \in Lease
      BY <1>1, <3>2, TemporaryAccessAssumption DEF Lease, TypeInv, AccessType
    <3> QED
      BY <3>1, <3>3
  <2> QED
    BY <2>2, <2>3
<1>4. OpMarked /\ file' = r
  BY <1>3, PublishMarks
<1> QED
  BY <1>1, <1>2, <1>3, <1>4, MarkedType DEF TypeInv, AccessType

\* A start forgets everything but the file.
LEMMA StartTypes ==
  ASSUME TypeInv, NewProcess, UNCHANGED <<clocks, storage>>,
         cmd' \in [Commands -> {"new", "refreshing", "auditing", "free", "ruled", "dead"}]
  PROVE  TypeInv'
<1>1. Idle.pc \in OpSteps /\ Idle.seen \in Seens /\ Idle.text = Absent
      /\ Idle.deadline \in Nat /\ Idle.taken \in Nat
  BY DEF Idle, OpSteps, Seens
<1>2. boot' \in 1..MaxBoots
  BY TemporaryAccessAssumption DEF NewProcess, TypeInv, AccessType
<1> QED
  BY <1>1, <1>2 DEF NewProcess, TypeInv, AccessType, clocks, storage, Seens

LEMMA ProcessTypes ==
  ASSUME TypeInv, GrantInv, Stop \/ Exit \/ Start \/ Crash \/ Tick \/ Adjust \/ Corrupt
  PROVE  TypeInv'
<1>1. CASE Stop
  <2>1. active' \in Grants /\ revoked' \subseteq LeaseIds /\ lifecycle' \subseteq LeaseIds
    BY <1>1, BecomesType DEF Stop, TypeInv, AccessType, Grants
  <2>2. OpMarked
    BY <1>1 DEF Stop, OpMarked, GrantInv, OpFields
  <2>3. /\ phase' = "stopping" /\ awaited' = lifecycle'
        /\ UNCHANGED <<boot, clocks, lastWall, waiting, cmd, storage>>
    BY <1>1 DEF Stop, Snapshot
  <2> QED
    BY <2>1, <2>2, <2>3 DEF TypeInv, AccessType, OpMarked, clocks, storage, Grants
<1>2. CASE Exit
  BY <1>2 DEF Exit, TypeInv, AccessType, clocks, control, storage
<1>3. CASE Start
  BY <1>3, StartTypes DEF Start, TypeInv, AccessType
<1>4. CASE Crash
  BY <1>4, StartTypes DEF Crash, TypeInv, AccessType
<1>5. CASE Tick
  BY <1>5 DEF Tick, TypeInv, AccessType, control, storage
<1>6. CASE Adjust
  <2>1. wall' \in Nat
    <3>1. PICK d \in 1..Duration : wall' = wall + d \/ (wall > d /\ wall' = wall - d)
      BY <1>6 DEF Adjust
    <3> QED
      BY <3>1, TemporaryAccessAssumption DEF TypeInv, AccessType
  <2> QED
    BY <1>6, <2>1 DEF Adjust, TypeInv, AccessType, control, storage
<1>7. CASE Corrupt
  <2>1. OpMarked /\ file' = Corrupted
    BY <1>7, PublishMarks DEF Corrupt
  <2>2. UNCHANGED <<boot, jumps, revoked, lifecycle, awaited, waiting, cmd, phase, active, wall,
                    mono, lastWall, issued>>
    BY <1>7 DEF Corrupt, clocks, control
  <2> QED
    BY <2>1, <2>2, MarkedType DEF TypeInv, AccessType
<1> QED
  BY <1>1, <1>2, <1>3, <1>4, <1>5, <1>6, <1>7

LEMMA TypeStep ==
  TypeInv /\ GrantInv /\ CliInv /\ CliInv' /\ [Next]_vars => TypeInv'
<1> SUFFICES ASSUME TypeInv, GrantInv, CliInv, CliInv', [Next]_vars PROVE TypeInv'
  OBVIOUS
<1>1. ASSUME NEW a \in Admins, CliWriteFails(a) \/ CliUnanswered(a) \/ CliReplaced(a)
      PROVE TypeInv'
  BY <1>1 DEF CliWriteFails, CliUnanswered, CliReplaced, TypeInv, AccessType, clocks,
     control, storage
<1>2. CASE UNCHANGED vars
  BY <1>2 DEF vars, TypeInv, AccessType, clocks, control, storage
<1> QED
  BY <1>1, <1>2, AskTypes, ApplyTypes, ModeTypes, WriteTypes, ProcessTypes
     DEF Next, Asks, Administers

\* Every variable of the lease service keeps its type, and the access CLI
\* never writes more records than it has IDs for (AccessType).
THEOREM AccessTypeCorrect == Spec => []AccessType
<1>1. TypeInv => AccessType
  BY DEF TypeInv
<1> QED
  BY <1>1, TypeInit, TypeStep, GrantInvariant, CliInvariant, PTL DEF Spec

-----------------------------------------------------------------------------
(* The kinds of steps, by what they do to the operation, the grant and the   *)
(* file: most invariants below need no more of a step than its kind.         *)

Opening == op.pc \in {"opening", "confirming", "refusing"}
Record  == <<file, issued, boot>>

\* The grant stays or ends.
Dwindles(ids) == /\ active' \in {active, None}
                 /\ revoked' = revoked \cup ids \cup Dropped(active, active')

\* The operation is not touched.
Aside == /\ op' = op /\ UNCHANGED <<Record, granted, audited>>
         /\ \/ phase' = phase
            \/ phase = "stopping" /\ phase' = "down" /\ op.pc = "idle"
               /\ \A c \in Commands : ~Busy(c)
         /\ Dwindles({})

\* The operation ends without a new grant.
Finishes == /\ op' = Idle /\ UNCHANGED <<Record, phase, granted>>
            /\ audited \subseteq audited'
            /\ \E ids \in SUBSET IdsIn(op.seen) :
                  /\ Dwindles(ids)
                  /\ ids # {} => active' = None \/ Superseded

\* The operation, if any, is given up by its callers or by the shutdown.
GivenUp == /\ op'.pc = op.pc /\ op'.seen = op.seen /\ op'.text = op.text
           /\ op'.deadline = op.deadline /\ op'.taken = op.taken
           /\ op'.seenOpen = op.seenOpen
           /\ IF op.pc = "idle" THEN op' = op /\ phase' = "stopping" ELSE op'.stale
           /\ UNCHANGED <<Record, granted, audited>>
           /\ phase' = phase \/ (phase = "up" /\ phase' = "stopping")
           /\ active' = None /\ Dwindles({})

Begins == /\ op.pc = "idle" /\ phase = "up"
          /\ op' = [Idle EXCEPT !.pc = "reading", !.seenOpen = OpenIds(file)]
          /\ UNCHANGED <<Record, phase, granted, audited, active, revoked>>

Takes == /\ InRead /\ op'.seen \in {file, Unreadable}
         /\ op'.pc = op.pc /\ op'.text = op.text
         /\ op'.deadline = op.deadline /\ op'.taken = op.taken
         /\ op'.stale = op.stale /\ op'.seenOpen = op.seenOpen
         /\ UNCHANGED <<Record, phase, granted, audited, active, revoked>>

\* The lease is spent, its audit begins.
Opens == /\ NewLease
         /\ op'.pc = "opening" /\ op'.seen = Unread /\ op'.text = op.seen
         /\ op'.deadline = Deadline(op.seen) /\ op'.taken = mono
         /\ op'.stale = op.stale /\ op'.seenOpen = op.seenOpen
         /\ UNCHANGED <<Record, phase, granted, audited>>
         /\ active' = None /\ Dwindles({op.seen.id})

\* The audit of the lease settles, or its confirmation fails.
Proceeds == /\ \/ /\ op.pc = "opening" /\ op'.pc = "confirming"
                  /\ audited' = audited \cup {op.text.id}
               \/ op.pc = "confirming" /\ op'.pc = "refusing" /\ audited' = audited
            /\ op'.seen = op.seen /\ op'.text = op.text
            /\ op'.deadline = op.deadline /\ op'.taken = op.taken
            /\ op'.stale = op.stale /\ op'.seenOpen = op.seenOpen
            /\ UNCHANGED <<Record, phase, granted, active, revoked>>

\* The lease takes effect, and may be over at once.
TakesEffect ==
    /\ SecondRead /\ Confirmed
    /\ op' = Idle /\ UNCHANGED <<Record, phase, audited>>
    /\ granted' = [granted EXCEPT ![op.text.id] = @ + 1]
    /\ active' \in {Grant, None}
    /\ revoked' = revoked \cup Dropped(Grant, active')

\* A record is written: an open one, a close, or what nobody wrote.
Publishes(r) == /\ file' = r /\ issued' \in {issued, issued + 1}
                /\ IsOpen(r) \/ IsClose(r) => issued' = issued + 1 /\ r.id = issued'
                /\ IsOpen(r) => /\ r.inst \in 0..boot
                                /\ r.expiresAt = r.issuedAt + Duration
                /\ op'.pc = op.pc /\ op'.seen = op.seen /\ op'.text = op.text
                /\ op'.deadline = op.deadline /\ op'.taken = op.taken
                /\ op'.stale = op.stale
                /\ IF op.pc = "idle" THEN op' = op
                   ELSE op'.seenOpen = op.seenOpen \cup OpenIds(r)
                /\ UNCHANGED <<boot, phase, granted, audited, active, revoked>>

Boots == /\ NewProcess /\ UNCHANGED <<file, issued, granted, audited>>

Kinds == \/ Aside \/ Finishes \/ GivenUp \/ Begins \/ Takes \/ Opens \/ Proceeds
         \/ TakesEffect \/ Boots \/ \E r : Publishes(r)

AllInv == TypeInv /\ GrantInv /\ CliInv

LEMMA BecomesDwindles ==
  ASSUME TypeInv, NEW h, NEW ids, Becomes(active, h, ids), h \in {active, None}
  PROVE  Dwindles(ids)
  BY DEF Becomes, Dwindles

LEMMA KeptOr ==
  ASSUME NEW g
  PROVE  Kept(g) \in {g, None}
  BY DEF Kept

LEMMA EndsFinishes ==
  ASSUME TypeInv, NEW h \in {active, None}, NEW ids \in SUBSET IdsIn(op.seen),
         Ends(active, h, ids),
         ids # {} => h = None \/ Superseded,
         UNCHANGED <<Record, phase, granted>>, audited \subseteq audited'
  PROVE  Finishes
<1>1. Becomes(active, Kept(h), ids) /\ op' = Idle
  BY DEF Ends
<1>2. Kept(h) \in {active, None} /\ (h = None => Kept(h) = None)
  BY KeptOr
<1>3. Dwindles(ids) /\ active' = Kept(h)
  BY <1>1, <1>2, BecomesDwindles DEF Becomes
<1> QED
  BY <1>1, <1>2, <1>3 DEF Finishes

LEMMA GivesUpIsGivenUp ==
  ASSUME TypeInv, GrantInv, NEW S, GivesUp(S) \/ Becomes(active, None, {}),
         \/ op' = [op EXCEPT !.stale = TRUE]
         \/ op' = Overtaken \/ op' = [Overtaken EXCEPT !.failed = TRUE],
         op.pc # "idle", UNCHANGED <<Record, granted, audited>>,
         phase' = phase \/ (phase = "up" /\ phase' = "stopping")
  PROVE  GivenUp
<1>1. Becomes(active, None, {})
  BY DEF GivesUp
<1>2. Dwindles({}) /\ active' = None
  BY <1>1, BecomesDwindles DEF Becomes
<1> QED
  BY <1>2 DEF GivenUp, Overtaken, GrantInv, OpFields

\* The kind of every step.
LEMMA AskKinds ==
  ASSUME AllInv, NEW c \in Callers,
         Refresh(c) \/ RefreshRejected(c) \/ RefreshStopped(c) \/ CallerDeadline(c)
  PROVE  Kinds
<1> USE DEF AllInv, Unmoved, storage
<1>1. CASE Refresh(c)
  BY <1>1 DEF Refresh, Kinds, Begins, Aside, Dwindles, Dropped, control, Record
<1>2. CASE RefreshRejected(c)
  <2>1. op.pc # "idle"
    BY <1>2 DEF RefreshRejected, TypeInv, Idle
  <2> QED
    BY <1>2, <2>1, GivesUpIsGivenUp DEF RefreshRejected, Kinds, Record
<1>3. CASE RefreshStopped(c)
  BY <1>3 DEF RefreshStopped, Kinds, Aside, Dwindles, Dropped, control, Record
<1>4. CASE CallerDeadline(c)
  BY <1>4, GivesUpIsGivenUp DEF CallerDeadline, Kinds, Record
<1> QED
  BY <1>1, <1>2, <1>3, <1>4

LEMMA ApplyKinds ==
  ASSUME AllInv, Applies
  PROVE  Kinds
<1> USE DEF AllInv, Unmoved, storage
<1>1. CASE ReadTakes
  BY <1>1 DEF ReadTakes, Kinds, Takes, GrantInv, OpFields, control, history, Record
<1>2. CASE ReadDeadline
  <2>1. op.pc # "idle"
    BY <1>2 DEF ReadDeadline, InRead
  <2> QED
    BY <1>2, <2>1, GivesUpIsGivenUp DEF ReadDeadline, Kinds, Record
<1>3. CASE FirstReadDiscarded
  BY <1>3, EndsFinishes DEF FirstReadDiscarded, Kinds, Record
<1>4. CASE FirstReadRefused \/ OpeningFails \/ SecondReadFails \/ RefusalSettles
  <2>1. \E h \in {active, None} : Ends(active, h, {})
    BY <1>4 DEF FirstReadRefused, OpeningFails, SecondReadFails, RefusalSettles
  <2>2. UNCHANGED <<Record, phase, granted, audited>>
    BY <1>4 DEF FirstReadRefused, OpeningFails, SecondReadFails, RefusalSettles, Record
  <2> QED
    BY <2>1, <2>2, EndsFinishes DEF Kinds
<1>5. CASE FirstReadKeeps
  <2>1. \E h \in {active, None} : Ends(active, h, {})
    BY <1>5, KeptOr DEF FirstReadKeeps
  <2>2. UNCHANGED <<Record, phase, granted, audited>>
    BY <1>5 DEF FirstReadKeeps, Record
  <2> QED
    BY <2>1, <2>2, EndsFinishes DEF Kinds
<1>6. CASE FirstReadOverflows
  <2>1. IsOpen(op.seen)
    BY <1>6 DEF FirstReadOverflows, NewLease, Refused
  <2>2. Ends(active, None, {op.seen.id}) /\ {op.seen.id} \subseteq IdsIn(op.seen)
    BY <1>6, <2>1 DEF FirstReadOverflows, IdsIn
  <2> QED
    BY <1>6, <2>2, EndsFinishes DEF FirstReadOverflows, Kinds, Record
<1>7. CASE FirstReadOpens
  <2>1. Dwindles({op.seen.id}) /\ active' = None
    BY <1>7, BecomesDwindles DEF FirstReadOpens, Becomes
  <2> QED
    BY <1>7, <2>1 DEF FirstReadOpens, Kinds, Opens, GrantInv, OpFields, Record
<1>8. CASE OpeningAudited
  <2>1. CASE /\ op' = [op EXCEPT !.pc = "confirming", !.standing = (file = op.text)]
             /\ UNCHANGED <<control, waiting, cmd, cli, closed>>
    BY <1>8, <2>1 DEF OpeningAudited, Kinds, Proceeds, GrantInv, OpFields, control, Record
  <2>2. CASE Ends(active, active, {})
    BY <1>8, <2>2, EndsFinishes DEF OpeningAudited, Kinds, Record
  <2> QED
    BY <1>8, <2>1, <2>2 DEF OpeningAudited
<1>9. CASE SecondReadRefuses
  BY <1>9 DEF SecondReadRefuses, SecondRead, Kinds, Proceeds, GrantInv, OpFields,
     control, Record
<1>10. CASE Activate
  <2>1. Becomes(Grant, Kept(Grant), {}) /\ op' = Idle
    BY <1>10 DEF Activate, Ends
  <2> QED
    BY <1>10, <2>1, KeptOr DEF Activate, Becomes, TakesEffect, Kinds, Record
<1> QED
  BY <1>1, <1>2, <1>3, <1>4, <1>5, <1>6, <1>7, <1>8, <1>9, <1>10 DEF Applies

LEMMA PublishKind ==
  ASSUME AllInv, NEW r, Publish(r), issued' \in {issued, issued + 1},
         IsOpen(r) \/ IsClose(r) => issued' = issued + 1 /\ r.id = issued',
         IsOpen(r) => r.inst \in 0..boot /\ r.expiresAt = r.issuedAt + Duration,
         UNCHANGED <<boot, phase, granted, audited, active, revoked>>
  PROVE  Kinds
  BY DEF AllInv, Publish, Kinds, Publishes, GrantInv, OpFields

LEMMA StepKinds == AllInv /\ [Next]_vars => Kinds
<1> SUFFICES ASSUME AllInv, [Next]_vars PROVE Kinds
  OBVIOUS
<1> USE DEF AllInv, storage, control, clocks, history
<1>1. CASE \/ \E c \in Commands : Decide(c)
           \/ GrantTimer
  <2>1. Becomes(active, Kept(active), {}) /\ op' = op
        /\ UNCHANGED <<Record, phase, granted, audited>>
    BY <1>1 DEF Decide, GrantTimer, Record
  <2> QED
    BY <2>1, KeptOr, BecomesDwindles DEF Kinds, Aside
<1>2. CASE \/ \E id \in LeaseIds : LifecycleSettles(id)
           \/ \E a \in Admins : CliWriteFails(a) \/ CliUnanswered(a) \/ CliReplaced(a)
           \/ Exit \/ Tick \/ Adjust \/ UNCHANGED vars
  <2>1. UNCHANGED <<op, Record, granted, audited, active, revoked>>
    BY <1>2 DEF LifecycleSettles, CliWriteFails, CliUnanswered, CliReplaced, Exit, Tick,
       Adjust, vars, Record
  <2>2. \/ phase' = phase
        \/ phase = "stopping" /\ phase' = "down" /\ op.pc = "idle"
           /\ \A c \in Commands : ~Busy(c)
    BY <1>2 DEF LifecycleSettles, CliWriteFails, CliUnanswered, CliReplaced, Exit, Tick,
       Adjust, vars
  <2> QED
    BY <2>1, <2>2 DEF Kinds, Aside, Dwindles, Dropped
<1>3. ASSUME NEW a \in Admins, CliWrites(a) \/ CliUndoes(a) PROVE Kinds
  <2>1. UNCHANGED <<boot, phase, granted, audited, active, revoked>>
        /\ issued' = Written /\ Written = issued + 1
    BY <1>3 DEF CliWrites, CliUndoes, Written
  <2>2. CASE Publish(Closing)
    BY <2>1, <2>2, PublishKind DEF Closing, IsOpen, IsClose
  <2>3. CASE ~Publish(Closing)
    <3> DEFINE r == [kind |-> "open", id |-> Written, inst |-> cli[a].inst,
                     issuedAt |-> wall, expiresAt |-> wall + Duration]
    <3>1. Publish(r)
      BY <1>3, <2>3 DEF CliWrites, CliUndoes
    <3>2. r.inst \in 0..boot
      BY DEF CliInv, CliRun
    <3>3. /\ IsOpen(r) \/ IsClose(r) => issued' = issued + 1 /\ r.id = issued'
          /\ IsOpen(r) => r.inst \in 0..boot /\ r.expiresAt = r.issuedAt + Duration
      BY <2>1, <3>2
    <3> HIDE DEF r
    <3> QED
      BY <2>1, <3>1, <3>3, PublishKind
  <2> QED
    BY <2>2, <2>3
<1>4. CASE Corrupt
  <2>1. Publish(Corrupted) /\ UNCHANGED <<issued, boot, phase, granted, audited, active, revoked>>
    BY <1>4 DEF Corrupt
  <2> QED
    BY <2>1, PublishKind DEF Corrupted, IsOpen, IsClose
<1>5. CASE Stop
  <2>1. Dwindles({}) /\ active' = None
    BY <1>5, BecomesDwindles DEF Stop, Becomes
  <2> QED
    BY <1>5, <2>1 DEF Stop, Kinds, GivenUp, Record, GrantInv, OpFields
<1>6. CASE Start \/ Crash
  BY <1>6 DEF Start, Crash, Kinds, Boots
<1> QED
  BY <1>1, <1>2, <1>3, <1>4, <1>5, <1>6, AskKinds, ApplyKinds
     DEF Next, Asks, Administers

-----------------------------------------------------------------------------
(* While an operation is given up, a lease is being opened, or the service   *)
(* stops, nothing is in force.                                               *)

Quiet == /\ phase # "up" \/ op.stale \/ Opening => active = None
         /\ phase = "stopping" /\ op.pc # "idle" => op.stale
         /\ phase = "down" => op.pc = "idle"

LEMMA QuietInit == Init => Quiet
  BY DEF Init, Quiet, Opening, Idle

LEMMA QuietStep == Quiet /\ AllInv /\ Kinds => Quiet'
<1> SUFFICES ASSUME Quiet, AllInv, Kinds PROVE Quiet'
  OBVIOUS
<1> USE DEF Quiet, Opening, AllInv
<1>0. phase \in {"up", "stopping", "down"}
  BY DEF TypeInv, AccessType
<1>1. CASE Aside
  BY <1>1 DEF Aside, Dwindles
<1>2. CASE Finishes
  BY <1>2 DEF Finishes, Dwindles, Idle
<1>3. CASE GivenUp
  BY <1>3 DEF GivenUp
<1>4. CASE Begins
  BY <1>4 DEF Begins, Idle
<1>5. CASE Takes
  BY <1>5 DEF Takes
<1>6. CASE Opens
  BY <1>6 DEF Opens, NewLease, FirstRead, Superseded, Stopped
<1>7. CASE Proceeds
  BY <1>7 DEF Proceeds
<1>8. CASE TakesEffect
  BY <1>8 DEF TakesEffect, Confirmed, StillValid, Superseded, Stopped, Idle
<1>9. CASE Boots
  BY <1>9 DEF Boots, NewProcess, Idle
<1>10. CASE \E r : Publishes(r)
  BY <1>10 DEF Publishes
<1> QED
  BY <1>1, <1>2, <1>3, <1>4, <1>5, <1>6, <1>7, <1>8, <1>9, <1>10 DEF Kinds

(* Records are read in the order they were written: what is read last is not *)
(* older than any lease that is spent or in force.                           *)

Below(n) == /\ \A id \in revoked : id <= n
            /\ active # None => active.lease.id <= n
HasId(r) == IsOpen(r) \/ IsClose(r)

Newest ==
    /\ Below(issued)
    /\ IsOpen(file) => Below(file.id)
    /\ IsOpen(op.seen) => Below(op.seen.id)
    /\ HasId(file) => file.id <= issued
    /\ HasId(op.seen) => op.seen.id <= issued
    /\ IsOpen(file) /\ HasId(op.seen) => op.seen.id <= file.id
    /\ Opening => Below(op.text.id)
    /\ IsOpen(file) /\ Opening => op.text.id <= file.id
    /\ IsOpen(op.seen) /\ Opening => op.text.id <= op.seen.id
    /\ active # None => Below(active.lease.id)

\* The IDs that are compared are numbers.
Ids == /\ issued \in Nat
       /\ HasId(file) => file.id \in Nat
       /\ HasId(op.seen) => op.seen.id \in Nat
       /\ Opening => op.text.id \in Nat
       /\ active # None => active.lease.id \in Nat
       /\ revoked \subseteq Nat

LEMMA IdsAreNumbers == AllInv => Ids
<1> SUFFICES ASSUME AllInv PROVE Ids
  OBVIOUS
<1>1. \A r \in Lease \cup Closes : r.id \in Nat
  BY DEF Lease, Closes, LeaseIds
<1>2. \A r \in Seens : HasId(r) => r \in Lease \cup Closes
  BY DEF Seens, HasId, IsOpen, IsClose, Absent, Corrupted, Unread, Unreadable
<1>3. Opening => op.text \in Lease
  BY DEF Opening, AllInv, TypeInv, AccessType, GrantInv, OpeningText, IsOpen, Absent
<1>4. active # None => active.lease \in Lease
  BY DEF AllInv, TypeInv, AccessType, GrantType
<1>5. file \in Seens /\ op.seen \in Seens
  BY DEF AllInv, TypeInv, AccessType, Seens
<1> QED
  BY <1>1, <1>2, <1>3, <1>4, <1>5 DEF Ids, AllInv, CliInv, TypeInv, AccessType, LeaseIds

LEMMA NewestInit == Init => Newest
  BY DEF Init, Newest, Below, HasId, IsOpen, IsClose, Opening, Absent, Idle, Unread

LEMMA NewestStep == Newest /\ Quiet /\ AllInv /\ Kinds => Newest'
<1> SUFFICES ASSUME Newest, Quiet, AllInv, Kinds PROVE Newest'
  OBVIOUS
<1> USE DEF Newest, Below, HasId, IsOpen, IsClose, Opening, Dwindles, Dropped, Record
<1>0. Ids
  BY IdsAreNumbers
<1>1. CASE Aside
  BY <1>1 DEF Aside
<1>2. CASE Finishes
  <2>1. PICK ids \in SUBSET IdsIn(op.seen) :
           Dwindles(ids) /\ (ids # {} => active' = None \/ Superseded)
    BY <1>2 DEF Finishes
  <2>2. ids # {} => active' = None
    BY <2>1 DEF Quiet, Superseded, Stopped
  <2>3. \A id \in ids : HasId(op.seen) /\ id = op.seen.id
    BY DEF IdsIn
  <2>4. op' = Idle /\ UNCHANGED <<file, issued>>
    BY <1>2 DEF Finishes
  <2> QED
    BY <1>0, <2>1, <2>2, <2>3, <2>4 DEF Idle, Unread, Ids
<1>3. CASE GivenUp
  BY <1>3 DEF GivenUp
<1>4. CASE Begins
  BY <1>4 DEF Begins, Idle, Unread
<1>5. CASE Takes
  BY <1>0, <1>5 DEF Takes, Unreadable, Ids
<1>6. CASE Opens
  <2>1. IsOpen(op.seen)
    BY <1>6 DEF Opens, NewLease, Refused
  <2> QED
    BY <1>0, <1>6, <2>1 DEF Opens, Ids, Unread
<1>7. CASE Proceeds
  BY <1>7 DEF Proceeds
<1>8. CASE TakesEffect
  <2>1. active = None
    BY <1>8 DEF TakesEffect, SecondRead, Quiet
  <2>2. active' # None => active' = Grant /\ active'.lease = op.text
    BY <1>8 DEF TakesEffect, Grant
  <2>3. revoked' \subseteq revoked \cup {op.text.id}
    BY <1>8 DEF TakesEffect, Grant
  <2>4. op' = Idle /\ UNCHANGED <<file, issued>> /\ op.pc = "confirming" /\ op.seen = op.text
    BY <1>8 DEF TakesEffect, SecondRead, Confirmed
  <2> QED
    BY <1>0, <2>1, <2>2, <2>3, <2>4 DEF Idle, Unread, Ids, GrantInv, AllInv, OpeningText
<1>9. CASE Boots
  BY <1>9 DEF Boots, NewProcess, Idle, Unread
<1>10. ASSUME NEW r, Publishes(r) PROVE Newest'
  BY <1>0, <1>10 DEF Publishes, Ids, AllInv, GrantInv, OpeningText, IdDrawn
<1> QED
  BY <1>1, <1>2, <1>3, <1>4, <1>5, <1>6, <1>7, <1>8, <1>9, <1>10 DEF Kinds

-----------------------------------------------------------------------------
(* A lease that once took effect is remembered as spent, or is of an earlier *)
(* start of the service: after a crash nothing else tells it from a new one. *)

OfBoot(r) == IsOpen(r) => r.inst \in 0..boot
Unusable(id) ==
    \/ id \in revoked
    \/ \A r \in {file, op.seen} : IsOpen(r) /\ r.id = id => r.inst # boot

SpentOnce ==
    /\ OfBoot(file)
    /\ \A id \in LeaseIds :
          granted[id] # 0 => granted[id] = 1 /\ id <= issued /\ Unusable(id)
    /\ op.pc \in {"opening", "confirming"} =>
          op.text.id \in revoked /\ granted[op.text.id] = 0

\* The types the steps below need.
Numbers == /\ boot \in Nat /\ issued \in Nat
           /\ granted \in [LeaseIds -> Nat] /\ LeaseIds \subseteq Nat
           /\ Opening => op.text.id \in LeaseIds
           /\ IsOpen(op.seen) => op.seen.id \in LeaseIds

LEMMA NumbersHold == AllInv => Numbers
<1> SUFFICES ASSUME AllInv PROVE Numbers
  OBVIOUS
<1>1. \A r \in Lease : r.id \in LeaseIds
  BY DEF Lease
<1>2. Opening => op.text \in Lease
  BY DEF Opening, AllInv, TypeInv, AccessType, GrantInv, OpeningText, IsOpen, Absent
<1>3. IsOpen(op.seen) => op.seen \in Lease
  BY OpenIsLease DEF AllInv, TypeInv, AccessType, Seens
<1> QED
  BY <1>1, <1>2, <1>3 DEF Numbers, AllInv, CliInv, GrantInv, GrantCounts, LeaseIds

LEMMA SpentInit == Init => SpentOnce
  BY DEF Init, SpentOnce, OfBoot, IsOpen, Absent, Idle, NoGrants

LEMMA SpentStep == SpentOnce /\ AllInv /\ Kinds => SpentOnce'
<1> SUFFICES ASSUME SpentOnce, AllInv, Kinds PROVE SpentOnce'
  OBVIOUS
<1> USE DEF SpentOnce, OfBoot, Unusable, Dwindles, Record, IsOpen
<1>0. Numbers
  BY NumbersHold
<1>1. CASE Aside
  BY <1>1 DEF Aside
<1>2. CASE Finishes
  BY <1>2 DEF Finishes, Idle, Unread
<1>3. CASE GivenUp
  BY <1>3 DEF GivenUp
<1>4. CASE Begins
  BY <1>4 DEF Begins, Idle, Unread
<1>5. CASE Takes
  BY <1>5 DEF Takes, Unreadable, InRead
<1>6. CASE Opens
  <2>1. op.seen.inst = boot /\ op.seen.id \notin revoked /\ op.seen.id \in LeaseIds
        /\ op.seen.kind = "open"
    BY <1>0, <1>6 DEF Opens, NewLease, Refused, Numbers
  <2>2. granted[op.seen.id] = 0
    BY <2>1
  <2>3. revoked' = revoked \cup {op.seen.id} \cup Dropped(active, active')
    BY <1>6 DEF Opens
  <2> QED
    BY <2>1, <2>2, <2>3, <1>6 DEF Opens, Unread
<1>7. CASE Proceeds
  BY <1>7 DEF Proceeds
<1>8. CASE TakesEffect
  <2>1. op.pc = "confirming" /\ op.text.id \in LeaseIds
    BY <1>0, <1>8 DEF TakesEffect, SecondRead, Numbers, Opening
  <2>2. \A id \in LeaseIds : granted'[id] = IF id = op.text.id THEN 1 ELSE granted[id]
    BY <1>0, <1>8, <2>1 DEF TakesEffect, Numbers
  <2>3. op.text.id <= issued /\ op.text.id \in revoked
    BY <2>1 DEF AllInv, GrantInv, OpeningText, IdDrawn
  <2>4. op' = Idle /\ UNCHANGED <<file, issued, boot>> /\ revoked \subseteq revoked'
    BY <1>8 DEF TakesEffect
  <2> QED
    BY <2>1, <2>2, <2>3, <2>4 DEF Idle, Unread
<1>9. CASE Boots
  <2>1. /\ boot' = boot + 1 /\ op' = Idle /\ UNCHANGED <<file, issued, granted>>
    BY <1>9 DEF Boots, NewProcess
  <2> QED
    BY <1>0, <2>1 DEF Numbers, Idle, Unread
<1>10. ASSUME NEW r, Publishes(r) PROVE SpentOnce'
  <2>1. /\ UNCHANGED <<boot, granted, revoked>> /\ file' = r /\ op'.seen = op.seen
        /\ op'.pc = op.pc /\ op'.text = op.text
        /\ issued' \in {issued, issued + 1}
        /\ IsOpen(r) => r.inst \in 0..boot /\ r.id = issued' /\ issued' = issued + 1
    BY <1>10 DEF Publishes
  <2>2. \A id \in LeaseIds : granted[id] # 0 => id <= issued' /\ (IsOpen(r) => r.id # id)
    BY <1>0, <2>1 DEF Numbers
  <2> QED
    BY <1>0, <2>1, <2>2
<1> QED
  BY <1>1, <1>2, <1>3, <1>4, <1>5, <1>6, <1>7, <1>8, <1>9, <1>10 DEF Kinds

(* The "opened" event is written first, and the lease ends as it was read.   *)

Timed(r) == IsOpen(r) => r.expiresAt = r.issuedAt + Duration

InTime ==
    /\ Timed(file) /\ Timed(op.seen)
    /\ Opening => op.deadline <= op.taken + Duration
    /\ active # None => active.deadline <= active.taken + Duration

RecordedFirst ==
    /\ AuditedFirst
    /\ op.pc = "confirming" => op.text.id \in audited

LEMMA TimedInit == Init => InTime /\ RecordedFirst
  BY DEF Init, InTime, Timed, RecordedFirst, AuditedFirst, IsOpen, Absent, Idle, Unread,
     Opening

LEMMA RecordedStep == RecordedFirst /\ Quiet /\ AllInv /\ Kinds => RecordedFirst'
<1> SUFFICES ASSUME RecordedFirst, Quiet, AllInv, Kinds PROVE RecordedFirst'
  OBVIOUS
<1> USE DEF RecordedFirst, AuditedFirst, Dwindles
<1>1. CASE Aside \/ Begins \/ Takes
  BY <1>1 DEF Aside, Begins, Takes, Idle
<1>5. CASE Finishes \/ GivenUp \/ Boots
  BY <1>5 DEF Finishes, GivenUp, Boots, NewProcess, Idle
<1>2. CASE Opens \/ Proceeds
  BY <1>2 DEF Opens, Proceeds
<1>3. CASE TakesEffect
  BY <1>3 DEF TakesEffect, SecondRead, Grant, Idle
<1>4. CASE \E r : Publishes(r)
  BY <1>4 DEF Publishes
<1> QED
  BY <1>1, <1>2, <1>3, <1>4, <1>5 DEF Kinds

LEMMA InTimeStep == InTime /\ AllInv /\ Kinds => InTime'
<1> SUFFICES ASSUME InTime, AllInv, Kinds PROVE InTime'
  OBVIOUS
<1> USE DEF InTime, Timed, Dwindles, Opening, IsOpen, Record
<1>1. CASE Aside \/ Finishes
  BY <1>1 DEF Aside, Finishes, Idle, Unread
<1>2. CASE GivenUp
  BY <1>2 DEF GivenUp
<1>3. CASE Begins
  BY <1>3 DEF Begins, Idle, Unread
<1>4. CASE Takes
  BY <1>4 DEF Takes, Unreadable
<1>5. CASE Opens
  <2>1. /\ op'.seen = Unread /\ op'.deadline = Deadline(op.seen) /\ op'.taken = mono
        /\ active' = None /\ file' = file
    BY <1>5 DEF Opens
  <2>2. /\ op.seen \in Lease /\ IsOpen(op.seen) /\ op.seen.issuedAt <= wall
    BY <1>5, NewLeaseType DEF Opens, NewLease, AllInv
  <2>3. /\ op.seen.issuedAt \in Nat /\ op.seen.expiresAt \in Nat
        /\ wall \in Nat /\ mono \in Nat /\ Duration \in Nat
    BY <2>2, TemporaryAccessAssumption DEF Lease, AllInv, TypeInv, AccessType
  <2>4. Deadline(op.seen) <= mono + Duration
    BY <2>2, <2>3 DEF Deadline
  <2> QED
    BY <2>1, <2>4 DEF Unread
<1>6. CASE Proceeds
  BY <1>6 DEF Proceeds
<1>7. CASE TakesEffect
  BY <1>7 DEF TakesEffect, SecondRead, Grant, Idle, Unread
<1>8. CASE Boots
  BY <1>8 DEF Boots, NewProcess, Idle, Unread
<1>9. CASE \E r : Publishes(r)
  BY <1>9 DEF Publishes
<1> QED
  BY <1>1, <1>2, <1>3, <1>4, <1>5, <1>6, <1>7, <1>8, <1>9 DEF Kinds

-----------------------------------------------------------------------------
(* What the file held since the operation a command waits for began.  The    *)
(* operation keeps the same account, and a grant that a command is answered  *)
(* with is on it.                                                            *)

Held == /\ op.pc # "idle" => OpenIds(file) \subseteq op.seenOpen
        /\ IsOpen(op.seen) => op.seen.id \in op.seenOpen
        /\ Opening => op.text.id \in op.seenOpen

Covered(c) == /\ OpenIds(file) \subseteq since[c]
              /\ op.pc # "idle" => op.seenOpen \subseteq since[c]
              /\ cmd[c] = "auditing" /\ active # None => active.lease.id \in since[c]

SinceInv == /\ \A c \in Commands : phase = "up" /\ Busy(c) => Covered(c)
            /\ phase = "down" => \A c \in Commands : ~Busy(c)
            /\ \A c \in waiting \cap Commands : cmd[c] = "refreshing"

LEMMA HeldInit == Init => Held /\ SinceInv
  BY TemporaryAccessAssumption
     DEF Init, Held, SinceInv, Idle, IsOpen, Unread, Opening, Busy

LEMMA HeldStep == Held /\ AllInv /\ Kinds => Held'
<1> SUFFICES ASSUME Held, AllInv, Kinds PROVE Held'
  OBVIOUS
<1> USE DEF Held, OpenIds, IsOpen, Opening, Record
<1>1. CASE Aside
  BY <1>1 DEF Aside
<1>9. CASE Begins
  <2>1. op'.pc = "reading" /\ op'.seen = Unread /\ op'.seenOpen = OpenIds(file) /\ file' = file
    BY <1>9 DEF Begins, Idle
  <2> QED
    BY <2>1 DEF Unread
<1>2. CASE Finishes \/ TakesEffect
  BY <1>2 DEF Finishes, TakesEffect, Idle, Unread
<1>3. CASE GivenUp
  BY <1>3 DEF GivenUp
<1>4. CASE Takes
  BY <1>4 DEF Takes, InRead, Unreadable
<1>5. CASE Opens
  BY <1>5 DEF Opens, NewLease, FirstRead, Refused, Unread
<1>6. CASE Proceeds
  BY <1>6 DEF Proceeds
<1>7. CASE Boots
  BY <1>7 DEF Boots, NewProcess, Idle, Unread
<1>8. CASE \E r : Publishes(r)
  BY <1>8 DEF Publishes, AllInv, TypeInv, Idle, Unread
<1> QED
  BY <1>1, <1>2, <1>3, <1>4, <1>5, <1>6, <1>7, <1>8, <1>9 DEF Kinds

\* Commands get no busier, and a grant they may run under is on their account.
LEMMA SinceKept ==
  ASSUME SinceInv, file' = file, since' = since,
         phase' = phase \/ (phase = "up" /\ phase' = "stopping"),
         \A c \in Commands : Busy(c)' => Busy(c),
         \/ op'.pc = "idle"
         \/ op.pc # "idle" /\ op'.seenOpen = op.seenOpen,
         active' # None =>
            \/ active' = active
               /\ \A c \in Commands : cmd'[c] = "auditing" => cmd[c] = "auditing"
            \/ op.pc # "idle" /\ active'.lease.id \in op.seenOpen,
         \A c \in waiting' \cap Commands : cmd'[c] = "refreshing"
  PROVE  SinceInv'
  BY DEF SinceInv, Covered, OpenIds, IsOpen, Busy

LEMMA AnswerIsBusy ==
  ASSUME SinceInv, NEW S \in SUBSET waiting, NEW c, NEW h, Answer(S, c, h),
         waiting' = waiting \ S
  PROVE  /\ \A d \in Commands : Busy(d)' => Busy(d)
         /\ \A d \in waiting' \cap Commands : cmd'[d] = "refreshing"
  BY DEF SinceInv, Answer, Busy

LEMMA EndsSince ==
  ASSUME SinceInv, NEW g, NEW h, NEW ids, Ends(g, h, ids),
         UNCHANGED <<file, since, phase>>,
         active' # None => op.pc # "idle" /\ active'.lease.id \in op.seenOpen
  PROVE  SinceInv'
<1>1. waiting' = waiting \ waiting /\ Answer(waiting, cli, Kept(h)) /\ op' = Idle
  BY DEF Ends
<1>2. /\ \A d \in Commands : Busy(d)' => Busy(d)
      /\ \A d \in waiting' \cap Commands : cmd'[d] = "refreshing"
  BY <1>1, AnswerIsBusy
<1> QED
  BY <1>1, <1>2, SinceKept DEF Idle

\* Only the record of the grant in force, or a new one, leaves a grant: one
\* that is already spent is older than what is in force, and not read again.
LEMMA KeepsSeen ==
  ASSUME AllInv, Newest, Held, FirstReadKeeps
  PROVE  active' # None => op.pc # "idle" /\ active'.lease.id \in op.seenOpen
<1>1. IsOpen(op.seen) /\ op.pc = "reading"
  BY DEF FirstReadKeeps, FirstRead, Refused
<1>2. op.seen.id \in op.seenOpen
  BY <1>1 DEF Held
<1>3. \E h \in {Kept(active), None} : active' = Kept(h)
  BY DEF FirstReadKeeps, Ends, Becomes
<1>4. active' \in {active, None} /\ (active' # None => Kept(active) = active)
  BY <1>3, KeptOr
<1>5. active' # None => active.lease.id = op.seen.id
  <2> SUFFICES ASSUME active' # None, active.lease.id # op.seen.id PROVE FALSE
    BY <1>4
  <2>1. Kept(active) = active /\ active # None
    BY <1>4
  <2>2. op.seen.id \in revoked
    BY <2>1 DEF FirstReadKeeps, Dropped
  <2>3. op.seen.id <= active.lease.id /\ active.lease.id <= op.seen.id
    BY <1>1, <2>1, <2>2 DEF Newest, Below
  <2>4. op.seen.id \in Nat /\ active.lease.id \in Nat
    BY <1>1, <2>1, IdsAreNumbers DEF Ids, HasId
  <2> QED
    BY <2>3, <2>4
<1> QED
  BY <1>1, <1>2, <1>4, <1>5

LEMMA ApplySince ==
  ASSUME AllInv, Quiet, Newest, Held, SinceInv, Applies
  PROVE  SinceInv'
<1> USE DEF Unmoved, storage
<1>1. CASE ReadTakes
  BY <1>1, SinceKept DEF ReadTakes, InRead, AllInv, GrantInv, OpFields, control, history,
     SinceInv, Busy
<1>2. CASE ReadDeadline
  <2>1. Answer(waiting, cli, None) /\ waiting' = waiting \ waiting /\ active' = None
    BY <1>2 DEF ReadDeadline, GivesUp, Becomes
  <2>2. op.pc # "idle" /\ op'.seenOpen = op.seenOpen
    BY <1>2 DEF ReadDeadline, InRead, Overtaken, AllInv, GrantInv, OpFields
  <2>3. UNCHANGED <<file, since, phase>>
    BY <1>2 DEF ReadDeadline
  <2> QED
    BY <2>1, <2>2, <2>3, AnswerIsBusy, SinceKept
<1>3. CASE FirstReadDiscarded \/ FirstReadRefused \/ FirstReadOverflows
           \/ OpeningFails \/ SecondReadFails \/ RefusalSettles
  <2>1. UNCHANGED <<file, since, phase>>
    BY <1>3 DEF FirstReadDiscarded, FirstReadRefused, FirstReadOverflows, OpeningFails,
       SecondReadFails, RefusalSettles
  <2>2. \E h, ids : Ends(active, h, ids) /\ (h = None \/ (h = active /\ active = None))
    BY <1>3 DEF FirstReadDiscarded, FirstReadRefused, FirstReadOverflows, OpeningFails,
       SecondReadFails, RefusalSettles, Quiet, Superseded, Stopped, Opening
  <2>3. active' = None
    BY <2>2, KeptOr DEF Ends, Becomes
  <2> QED
    BY <2>1, <2>2, <2>3, EndsSince
<1>4. CASE FirstReadKeeps
  <2>1. UNCHANGED <<file, since, phase>> /\ \E h : Ends(active, h, {})
    BY <1>4 DEF FirstReadKeeps
  <2> QED
    BY <1>4, <2>1, KeepsSeen, EndsSince
<1>5. CASE FirstReadOpens
  <2>1. UNCHANGED <<file, since, phase, cmd, waiting>> /\ active' = None
    BY <1>5 DEF FirstReadOpens, Becomes
  <2>2. op.pc # "idle" /\ op'.seenOpen = op.seenOpen
    BY <1>5 DEF FirstReadOpens, NewLease, FirstRead, AllInv, GrantInv, OpFields
  <2> QED
    BY <2>1, <2>2, SinceKept DEF SinceInv, Busy
<1>6. CASE OpeningAudited
  <2>1. UNCHANGED <<file, since, phase>> /\ active = None
    BY <1>6 DEF OpeningAudited, Quiet, Opening
  <2>2. CASE /\ op' = [op EXCEPT !.pc = "confirming", !.standing = (file = op.text)]
             /\ UNCHANGED <<control, waiting, cmd, cli, closed>>
    <3>1. op.pc # "idle" /\ op'.seenOpen = op.seenOpen
      BY <1>6, <2>2 DEF OpeningAudited, AllInv, GrantInv, OpFields
    <3> QED
      BY <2>1, <2>2, <3>1, SinceKept DEF SinceInv, Busy, control
  <2>3. CASE Ends(active, active, {})
    <3>1. active' = None
      BY <2>1, <2>3, KeptOr DEF Ends, Becomes
    <3> QED
      BY <2>1, <2>3, <3>1, EndsSince
  <2> QED
    BY <1>6, <2>2, <2>3 DEF OpeningAudited
<1>7. CASE SecondReadRefuses
  <2>1. UNCHANGED <<file, since, phase, cmd, waiting, active>>
    BY <1>7 DEF SecondReadRefuses, control
  <2>2. op.pc # "idle" /\ op'.seenOpen = op.seenOpen
    BY <1>7 DEF SecondReadRefuses, SecondRead, AllInv, GrantInv, OpFields
  <2> QED
    BY <2>1, <2>2, SinceKept DEF SinceInv, Busy
<1>8. CASE Activate
  <2>1. UNCHANGED <<file, since, phase>> /\ Ends(Grant, Grant, {})
    BY <1>8 DEF Activate
  <2>2. active' # None => active' = Grant
    BY <2>1, KeptOr DEF Ends, Becomes
  <2>3. op.pc # "idle" /\ Grant.lease.id \in op.seenOpen
    BY <1>8 DEF Activate, SecondRead, Held, Opening, Grant
  <2> QED
    BY <2>1, <2>2, <2>3, EndsSince
<1> QED
  BY <1>1, <1>2, <1>3, <1>4, <1>5, <1>6, <1>7, <1>8 DEF Applies

LEMMA AskSince ==
  ASSUME AllInv, Held, SinceInv, NEW c \in Callers,
         Refresh(c) \/ RefreshRejected(c) \/ RefreshStopped(c) \/ CallerDeadline(c)
  PROVE  SinceInv'
<1> USE DEF Unmoved, storage
<1>1. CASE Refresh(c)
  <2>1. /\ cmd' = [d \in Commands |-> IF d = c THEN "refreshing" ELSE cmd[d]]
        /\ waiting' = waiting \cup {c}
        /\ since' = [d \in Commands |-> IF d = c THEN op'.seenOpen ELSE since[d]]
        /\ UNCHANGED <<phase, active, file>> /\ phase = "up"
    BY <1>1 DEF Refresh, Since, control
  <2>2. \/ op.pc = "idle" /\ op'.pc = "reading" /\ op'.seenOpen = OpenIds(file)
        \/ op.pc # "idle" /\ op' = op
    BY <1>1 DEF Refresh, Idle
  <2>3. OpenIds(file) \subseteq op'.seenOpen
    BY <2>2 DEF Held
  <2> QED
    BY <2>1, <2>2, <2>3 DEF SinceInv, Covered, OpenIds, IsOpen, Busy
<1>2. CASE RefreshRejected(c)
  <2>1. op.pc # "idle" /\ op'.pc = op.pc /\ op'.seenOpen = op.seenOpen
    BY <1>2 DEF RefreshRejected, AllInv, TypeInv, Idle, GrantInv, OpFields
  <2>2. /\ cmd' = [d \in Commands |-> IF d \in {c} THEN "auditing" ELSE cmd[d]]
        /\ since' = [d \in Commands |-> IF d = c THEN op'.seenOpen ELSE since[d]]
        /\ active' = None /\ UNCHANGED <<phase, waiting, file>> /\ phase = "up"
        /\ c \in Commands => cmd[c] = "new"
    BY <1>2 DEF RefreshRejected, Since, Becomes, Answer, CanAsk
  <2>3. OpenIds(file) \subseteq op.seenOpen
    BY <2>1 DEF Held
  <2> QED
    BY <2>1, <2>2, <2>3 DEF SinceInv, Covered, OpenIds, IsOpen, Busy
<1>3. CASE RefreshStopped(c)
  <2>1. /\ cmd' = [d \in Commands |-> IF d \in {c} THEN "auditing" ELSE cmd[d]]
        /\ UNCHANGED <<phase, waiting>> /\ phase = "stopping"
        /\ c \in Commands => cmd[c] = "new"
    BY <1>3 DEF RefreshStopped, Answer, CanAsk
  <2> QED
    BY <2>1 DEF SinceInv, Busy
<1>4. CASE CallerDeadline(c)
  <2>1. Answer({c}, cli, None) /\ waiting' = waiting \ {c} /\ {c} \subseteq waiting
        /\ active' = None
    BY <1>4 DEF CallerDeadline, GivesUp, Becomes
  <2>2. op.pc # "idle" /\ op'.seenOpen = op.seenOpen
    BY <1>4 DEF CallerDeadline, Overtaken, AllInv, GrantInv, OpFields
  <2>3. UNCHANGED <<file, since, phase>>
    BY <1>4 DEF CallerDeadline
  <2> QED
    BY <2>1, <2>2, <2>3, AnswerIsBusy, SinceKept
<1> QED
  BY <1>1, <1>2, <1>3, <1>4

LEMMA PublishSince ==
  ASSUME AllInv, SinceInv, NEW r, Publish(r), UNCHANGED <<phase, active, cmd, waiting>>
  PROVE  SinceInv'
<1>1. /\ file' = r /\ op'.pc = op.pc
      /\ op.pc # "idle" => op'.seenOpen = op.seenOpen \cup OpenIds(r)
      /\ since' = [c \in Commands |-> IF Busy(c) THEN since[c] \cup OpenIds(r) ELSE since[c]]
  BY DEF Publish, AllInv, GrantInv, OpFields, Busy
<1> QED
  BY <1>1 DEF SinceInv, Covered, OpenIds, IsOpen, Busy

LEMMA SinceStep ==
  AllInv /\ Quiet /\ Newest /\ Held /\ SinceInv /\ [Next]_vars => SinceInv'
<1> SUFFICES ASSUME AllInv, Quiet, Newest, Held, SinceInv, [Next]_vars PROVE SinceInv'
  OBVIOUS
<1> USE DEF storage, control, clocks, history
<1>1. ASSUME NEW c \in Commands, Decide(c) PROVE SinceInv'
  <2>1. /\ cmd' = [cmd EXCEPT ![c] = IF ~Stopped /\ Kept(active) # None THEN "free"
                                     ELSE "ruled"]
        /\ UNCHANGED <<phase, op, waiting, file>> /\ active' \in {active, None}
        /\ since' = [since EXCEPT ![c] = {}]
        /\ cmd[c] = "auditing"
    BY <1>1, KeptOr DEF Decide, Becomes
  <2>2. \A d \in Commands : d # c => cmd'[d] = cmd[d] /\ since'[d] = since[d]
    BY <2>1 DEF AllInv, TypeInv, AccessType
  <2>3. ~Busy(c)'
    BY <2>1 DEF Busy, AllInv, TypeInv, AccessType
  <2> QED
    BY <2>1, <2>2, <2>3 DEF SinceInv, Covered, OpenIds, IsOpen, Busy
<1>2. CASE GrantTimer
  <2>1. UNCHANGED <<phase, op, waiting, cmd, file, since>> /\ active' \in {active, None}
    BY <1>2, KeptOr DEF GrantTimer, Becomes
  <2> QED
    BY <2>1, SinceKept DEF SinceInv, Busy
<1>3. CASE \/ \E id \in LeaseIds : LifecycleSettles(id)
           \/ \E a \in Admins : CliWriteFails(a) \/ CliUnanswered(a) \/ CliReplaced(a)
           \/ Tick \/ Adjust \/ UNCHANGED vars
  <2>1. UNCHANGED <<phase, op, waiting, cmd, file, since, active>>
    BY <1>3 DEF LifecycleSettles, CliWriteFails, CliUnanswered, CliReplaced, Tick,
       Adjust, vars
  <2> QED
    BY <2>1 DEF SinceInv, Covered, Busy
<1>4. ASSUME NEW a \in Admins, CliWrites(a) \/ CliUndoes(a) PROVE SinceInv'
  <2>1. UNCHANGED <<phase, active, cmd, waiting>> /\ \E r : Publish(r)
    BY <1>4 DEF CliWrites, CliUndoes
  <2> QED
    BY <2>1, PublishSince
<1>5. CASE Corrupt
  BY <1>5, PublishSince DEF Corrupt
<1>6. CASE Stop
  BY <1>6 DEF Stop, SinceInv, Busy
<1>7. CASE Exit
  BY <1>7 DEF Exit, SinceInv, Busy
<1>8. CASE Start
  BY <1>8 DEF Start, NewProcess, SinceInv, Busy
<1>9. CASE Crash
  BY <1>9 DEF Crash, NewProcess, SinceInv, Busy
<1> QED
  BY <1>1, <1>2, <1>3, <1>4, <1>5, <1>6, <1>7, <1>8, <1>9, ApplySince, AskSince
     DEF Next, Asks, Administers

-----------------------------------------------------------------------------
(* After a confirmed close the file holds no open lease, and an operation    *)
(* still in flight has been given up or has not read one.                    *)

Harmless == op.pc = "idle" \/ op.stale \/ (op.pc = "reading" /\ ~IsOpen(op.seen))
CloseInv == closed => active = None /\ ~IsOpen(file) /\ Harmless

LEMMA CloseInit == Init => CloseInv
  BY DEF Init, CloseInv

\* An answer confirms a close only when the file is closed and nothing is in
\* force.
LEMMA AnswerCloses ==
  ASSUME NEW S, NEW c, NEW h, Answer(S, c, h), closed'
  PROVE  closed \/ (IsClose(file) /\ h = None)
  BY DEF Answer, ConfirmsClose, Verdict

\* A close once confirmed stays so.
LEMMA CloseKept ==
  ASSUME AllInv, CloseInv, Kinds, closed, IsOpen(file') => file' = file
  PROVE  CloseInv'
<1> USE DEF CloseInv, Harmless, IsOpen, Dwindles, Record
<1>1. CASE Aside
  BY <1>1 DEF Aside
<1>2. CASE Finishes
  BY <1>2 DEF Finishes, Idle
<1>3. CASE GivenUp
  BY <1>3 DEF GivenUp
<1>4. CASE Begins
  <2>1. op'.pc = "reading" /\ op'.seen = Unread /\ UNCHANGED <<file, active>>
    BY <1>4 DEF Begins, Idle
  <2> QED
    BY <2>1 DEF Unread
<1>5. CASE Takes
  BY <1>5 DEF Takes, InRead, Unreadable
<1>6. CASE Opens
  BY <1>6 DEF Opens, NewLease, FirstRead, Refused, Superseded
<1>7. CASE Proceeds
  BY <1>7 DEF Proceeds
<1>8. CASE TakesEffect
  BY <1>8 DEF TakesEffect, SecondRead, Confirmed, StillValid, Superseded
<1>9. CASE Boots
  BY <1>9 DEF Boots, NewProcess, Idle
<1>10. CASE \E r : Publishes(r)
  BY <1>10 DEF Publishes
<1> QED
  BY <1>1, <1>2, <1>3, <1>4, <1>5, <1>6, <1>7, <1>8, <1>9, <1>10 DEF Kinds

\* A close that is confirmed now.
LEMMA CloseBegins ==
  ASSUME AllInv, Quiet, NEW S, NEW c, NEW h, Answer(S, c, h), ~closed, closed',
         active' = h, file' = file,
         op'.pc = "idle" \/ op'.stale
  PROVE  CloseInv'
<1>1. IsClose(file) /\ h = None
  BY AnswerCloses
<1> QED
  BY <1>1 DEF CloseInv, Harmless, IsOpen, IsClose

LEMMA CloseStep == AllInv /\ Quiet /\ CloseInv /\ [Next]_vars => CloseInv'
<1> SUFFICES ASSUME AllInv, Quiet, CloseInv, [Next]_vars, closed' PROVE CloseInv'
  BY DEF CloseInv
<1> USE DEF Unmoved, storage
<1>0. Kinds
  BY StepKinds
<1>1. CASE closed /\ ~IsOpen(file')
  BY <1>0, <1>1, CloseKept
<1>2. CASE closed /\ IsOpen(file')
  <2>1. ~IsOpen(file)
    BY <1>2 DEF CloseInv
  <2>2. file' # file
    BY <1>2, <2>1
  <2>3. \E r : Publish(r)
    BY <2>2 DEF Next, Asks, Applies, Administers, vars, history, Refresh, RefreshRejected,
       RefreshStopped, CallerDeadline, Decide, GrantTimer, ReadTakes,
       ReadDeadline, FirstReadDiscarded, FirstReadRefused, FirstReadKeeps,
       FirstReadOverflows, FirstReadOpens, OpeningFails, OpeningAudited,
       SecondReadFails, SecondReadRefuses, Activate, RefusalSettles, LifecycleSettles,
       CliWrites, CliUndoes, CliWriteFails, CliUnanswered, CliReplaced, Stop, Exit,
       Start, Crash, NewProcess, Tick, Adjust, Corrupt
  <2> QED
    BY <1>2, <2>3 DEF Publish
<1>3. CASE ~closed
  <2>1. \/ \E c \in Callers :
              RefreshRejected(c) \/ RefreshStopped(c) \/ CallerDeadline(c)
        \/ ReadDeadline \/ FirstReadDiscarded \/ FirstReadRefused \/ FirstReadKeeps
        \/ FirstReadOverflows \/ OpeningFails
        \/ (OpeningAudited /\ Ends(active, active, {}))
        \/ SecondReadFails \/ Activate \/ RefusalSettles
    BY <1>3 DEF Next, Asks, Applies, Administers, vars, history, Refresh,
       Decide, GrantTimer, ReadTakes, FirstReadOpens, OpeningAudited,
       SecondReadRefuses, LifecycleSettles, Publish,
       CliWrites, CliUndoes, CliWriteFails, CliUnanswered, CliReplaced, Stop, Exit,
       Start, Crash, NewProcess, Tick, Adjust, Corrupt
  <2>2. ASSUME NEW c \in Callers, RefreshRejected(c) PROVE CloseInv'
    <3>1. op'.stale /\ active' = None /\ file' = file
      BY <2>2 DEF RefreshRejected, Becomes, AllInv, GrantInv, OpFields
    <3> QED
      BY <1>3, <2>2, <3>1, CloseBegins DEF RefreshRejected
  <2>3. ASSUME NEW c \in Callers, RefreshStopped(c) PROVE CloseInv'
    <3>1. UNCHANGED <<op, active, file>> /\ phase = "stopping"
      BY <2>3 DEF RefreshStopped, control
    <3>2. active = None /\ (op.pc = "idle" \/ op.stale)
      BY <3>1 DEF Quiet
    <3> QED
      BY <1>3, <2>3, <3>1, <3>2, CloseBegins DEF RefreshStopped
  <2>4. CASE ReadDeadline \/ \E c \in Callers : CallerDeadline(c)
    <3>1. op'.stale /\ file' = file /\ \E S : GivesUp(S)
      BY <2>4 DEF ReadDeadline, CallerDeadline, Overtaken, AllInv, GrantInv, OpFields
    <3> QED
      BY <1>3, <3>1, CloseBegins DEF GivesUp, Becomes
  <2>5. CASE \/ FirstReadDiscarded \/ FirstReadRefused \/ FirstReadKeeps
             \/ FirstReadOverflows \/ OpeningFails
             \/ (OpeningAudited /\ Ends(active, active, {}))
             \/ SecondReadFails \/ Activate \/ RefusalSettles
    <3>1. file' = file /\ \E g, h, ids : Ends(g, h, ids)
      BY <2>5 DEF FirstReadDiscarded, FirstReadRefused, FirstReadKeeps,
         FirstReadOverflows, OpeningFails, OpeningAudited, SecondReadFails, Activate,
         RefusalSettles
    <3> QED
      BY <1>3, <3>1, CloseBegins DEF Ends, Becomes, Idle
  <2> QED
    BY <2>1, <2>2, <2>3, <2>4, <2>5
<1> QED
  BY <1>1, <1>2, <1>3

(* A grant without a settled closing event is in force, or its event is      *)
(* awaited.                                                                  *)

Settling == unsettled \subseteq lifecycle \cup IF active = None THEN {}
                                               ELSE {active.lease.id}

LEMMA SettlingInit == Init => Settling
  BY DEF Init, Settling

LEMMA SettlingBecomes ==
  ASSUME Settling, NEW h \in {active, None}, NEW ids, Becomes(active, h, ids),
         unsettled' = unsettled
  PROVE  Settling'
  BY DEF Settling, Becomes, Dropped

LEMMA SettlingStep == AllInv /\ Quiet /\ Settling /\ [Next]_vars => Settling'
<1> SUFFICES ASSUME AllInv, Quiet, Settling, [Next]_vars PROVE Settling'
  OBVIOUS
<1> USE DEF Unmoved, storage, control, history
<1>1. ASSUME UNCHANGED <<active, lifecycle, unsettled>> PROVE Settling'
  BY <1>1 DEF Settling
<1>2. ASSUME UNCHANGED unsettled,
             \E h \in {active, None} : \E ids :
                Ends(active, h, ids) \/ Becomes(active, Kept(h), ids)
      PROVE Settling'
  <2>1. \E h \in {active, None} : \E ids : Becomes(active, Kept(h), ids)
    BY <1>2 DEF Ends
  <2> QED
    BY <1>2, <2>1, SettlingBecomes, KeptOr
<1>3. CASE \/ \E c \in Callers : Refresh(c) \/ RefreshStopped(c)
           \/ ReadTakes \/ SecondReadRefuses \/ Exit \/ Tick \/ Adjust \/ Corrupt
           \/ \E a \in Admins : \/ CliWrites(a) \/ CliUndoes(a) \/ CliWriteFails(a)
                                \/ CliUnanswered(a) \/ CliReplaced(a)
           \/ UNCHANGED vars
  BY <1>1, <1>3 DEF Refresh, RefreshStopped, ReadTakes, SecondReadRefuses, Exit, Tick,
     Adjust, Corrupt, CliWrites, CliUndoes, CliWriteFails, CliUnanswered, CliReplaced, vars
<1>4. CASE \/ \E c \in Callers : RefreshRejected(c) \/ CallerDeadline(c)
           \/ ReadDeadline \/ FirstReadOpens \/ Stop
  <2>1. unsettled' = unsettled /\ \E ids : Becomes(active, None, ids)
    BY <1>4 DEF RefreshRejected, CallerDeadline, ReadDeadline, FirstReadOpens, Stop, GivesUp
  <2> QED
    BY <2>1, SettlingBecomes
<1>5. CASE GrantTimer \/ \E c \in Commands : Decide(c)
  BY <1>2, <1>5 DEF GrantTimer, Decide
<1>6. CASE \/ FirstReadDiscarded \/ FirstReadRefused \/ FirstReadOverflows \/ OpeningFails
           \/ SecondReadFails \/ RefusalSettles
  BY <1>2, <1>6 DEF FirstReadDiscarded, FirstReadRefused, FirstReadOverflows,
     OpeningFails, SecondReadFails, RefusalSettles
<1>7. CASE FirstReadKeeps
  BY <1>2, <1>7, KeptOr DEF FirstReadKeeps
<1>8. CASE OpeningAudited
  BY <1>1, <1>2, <1>8 DEF OpeningAudited
<1>9. CASE Activate
  <2>1. active = None
    BY <1>9 DEF Activate, SecondRead, Quiet, Opening
  <2>2. Becomes(Grant, Kept(Grant), {}) /\ unsettled' = unsettled \cup {op.text.id}
    BY <1>9 DEF Activate, Ends
  <2>3. Grant # None /\ Grant.lease.id = op.text.id
    <3>1. op.text \in Lease /\ op.deadline \in Nat /\ op.taken \in Nat
      BY <1>9 DEF Activate, SecondRead, AllInv, GrantInv, OpeningText, TypeInv, AccessType,
         IsOpen, Absent
    <3> QED
      BY <3>1, NoneIsNoGrant DEF Grant, GrantType
  <2> QED
    BY <2>1, <2>2, <2>3, KeptOr DEF Settling, Becomes, Dropped
<1>10. CASE \E id \in LeaseIds : LifecycleSettles(id)
  BY <1>10 DEF LifecycleSettles, Settling
<1>11. CASE Start \/ Crash
  BY <1>11 DEF Start, Crash, NewProcess, Settling
<1> QED
  BY <1>3, <1>4, <1>5, <1>6, <1>7, <1>8, <1>9, <1>10, <1>11
     DEF Next, Asks, Applies, Administers

\* What stop() waits for covers every closing event that is not settled: no
\* grant comes into force, and so none ends, behind it.
Snapshotted == phase # "up" => lifecycle \subseteq awaited

LEMMA SnapshottedStep == Quiet /\ Snapshotted /\ [Next]_vars => Snapshotted'
<1> SUFFICES ASSUME Quiet, Snapshotted, [Next]_vars, phase' # "up"
             PROVE  lifecycle' \subseteq awaited'
  BY DEF Snapshotted
<1> USE DEF Unmoved, storage, control, history
<1>1. CASE Stop
  BY <1>1 DEF Stop, Snapshot
<1>2. CASE Start \/ Crash
  BY <1>2 DEF Start, Crash, NewProcess
<1>3. CASE Activate
  BY <1>3 DEF Activate, Confirmed, StillValid, Superseded, Stopped
<1>4. CASE ~Stop /\ ~Start /\ ~Crash /\ ~Activate
  <2>1. phase # "up" /\ awaited' = awaited
    BY <1>4 DEF Next, Asks, Applies, Administers, vars, Refresh, RefreshRejected,
       RefreshStopped, CallerDeadline, Decide, GrantTimer, ReadTakes, ReadDeadline,
       FirstReadDiscarded, FirstReadRefused, FirstReadKeeps, FirstReadOverflows,
       FirstReadOpens, OpeningFails, OpeningAudited, SecondReadFails,
       SecondReadRefuses, RefusalSettles, LifecycleSettles, CliWrites, CliUndoes,
       CliWriteFails, CliUnanswered, CliReplaced, Exit, Tick, Adjust, Corrupt
  <2>2. active = None
    BY <2>1 DEF Quiet
  <2>3. ASSUME \E h, ids : Becomes(active, h, ids) PROVE lifecycle' = lifecycle
    BY <2>2, <2>3 DEF Becomes, Dropped
  <2>4. lifecycle' \subseteq lifecycle
    BY <1>4, <2>3 DEF Next, Asks, Applies, Administers, vars, Refresh, RefreshRejected,
       RefreshStopped, CallerDeadline, Decide, GrantTimer, ReadTakes, ReadDeadline,
       FirstReadDiscarded, FirstReadRefused, FirstReadKeeps, FirstReadOverflows,
       FirstReadOpens, OpeningFails, OpeningAudited, SecondReadFails,
       SecondReadRefuses, RefusalSettles, LifecycleSettles, CliWrites, CliUndoes,
       CliWriteFails, CliUnanswered, CliReplaced, Exit, Tick, Adjust, Corrupt, Ends,
       GivesUp
  <2> QED
    BY <2>1, <2>4 DEF Snapshotted
<1> QED
  BY <1>1, <1>2, <1>3, <1>4

LEMMA ExitStep ==
  AllInv /\ Quiet /\ Settling /\ Snapshotted /\ EndsSettledBeforeExit /\ [Next]_vars
     => EndsSettledBeforeExit'
<1> SUFFICES ASSUME AllInv, Quiet, Settling, Snapshotted, EndsSettledBeforeExit,
                    [Next]_vars, phase' = "down"
             PROVE  unsettled' = {}
  BY DEF EndsSettledBeforeExit
<1> USE DEF Unmoved, history
<1>1. CASE Exit
  BY <1>1 DEF Exit, Quiet, Settling, Snapshotted
<1>2. CASE Activate
  BY <1>2 DEF Activate, Confirmed, StillValid, Superseded, Stopped
<1>3. CASE ~Exit /\ ~Activate
  <2>1. phase = "down"
    BY <1>3 DEF Next, Asks, Applies, Administers, vars, Refresh, RefreshRejected,
       RefreshStopped, CallerDeadline, Decide, GrantTimer, ReadTakes, ReadDeadline,
       FirstReadDiscarded, FirstReadRefused, FirstReadKeeps, FirstReadOverflows,
       FirstReadOpens, OpeningFails, OpeningAudited, SecondReadFails,
       SecondReadRefuses, RefusalSettles, LifecycleSettles, CliWrites, CliUndoes,
       CliWriteFails, CliUnanswered, CliReplaced, Stop, Start, Crash, NewProcess, Tick,
       Adjust, Corrupt
  <2>2. unsettled' \subseteq unsettled
    BY <1>3, <2>1 DEF Next, Asks, Applies, Administers, vars, Refresh, RefreshRejected,
       RefreshStopped, CallerDeadline, Decide, GrantTimer, ReadTakes, ReadDeadline,
       FirstReadDiscarded, FirstReadRefused, FirstReadKeeps, FirstReadOverflows,
       FirstReadOpens, OpeningFails, OpeningAudited, SecondReadFails,
       SecondReadRefuses, RefusalSettles, LifecycleSettles, CliWrites, CliUndoes,
       CliWriteFails, CliUnanswered, CliReplaced, Stop, Start, Crash, NewProcess, Tick,
       Adjust, Corrupt
  <2> QED
    BY <2>1, <2>2 DEF EndsSettledBeforeExit
<1> QED
  BY <1>1, <1>2, <1>3

-----------------------------------------------------------------------------
(* The invariant and what follows from it.                                   *)

SafetyInv == /\ AllInv
             /\ Quiet
             /\ Newest
             /\ SpentOnce
             /\ RecordedFirst
             /\ InTime
             /\ Held /\ SinceInv
             /\ CloseInv
             /\ Settling /\ Snapshotted /\ EndsSettledBeforeExit

\* SafetyInv holds in every reachable state.
THEOREM SafetyInvariant == Spec => []SafetyInv
<1>1. Init => SafetyInv
  <2>1. Init => Snapshotted /\ EndsSettledBeforeExit
    BY DEF Init, Snapshotted, EndsSettledBeforeExit
  <2> QED
    BY <2>1, TypeInit, GrantInit, CliInit, QuietInit, NewestInit, SpentInit, TimedInit,
       HeldInit, CloseInit, SettlingInit DEF SafetyInv, AllInv
<1>2. SafetyInv /\ [Next]_vars => SafetyInv'
  <2> SUFFICES ASSUME SafetyInv, [Next]_vars PROVE SafetyInv'
    OBVIOUS
  <2>1. AllInv'
    BY TypeStep, GrantStep, CliStep DEF SafetyInv, AllInv
  <2>2. Kinds
    BY StepKinds DEF SafetyInv
  <2>3. Quiet' /\ Newest' /\ SpentOnce' /\ RecordedFirst' /\ InTime' /\ Held'
    BY <2>2, QuietStep, NewestStep, SpentStep, RecordedStep, InTimeStep, HeldStep
       DEF SafetyInv
  <2>4. SinceInv' /\ CloseInv' /\ Settling' /\ Snapshotted' /\ EndsSettledBeforeExit'
    BY SinceStep, CloseStep, SettlingStep, SnapshottedStep, ExitStep DEF SafetyInv
  <2> QED
    BY <2>1, <2>3, <2>4 DEF SafetyInv
<1> QED
  BY <1>1, <1>2, PTL DEF Spec

\* No lease takes effect twice: the revocation list and the boot of a lease
\* outlast every reset of what else the service knew of it (NeverReactivated).
THEOREM NeverTwice == Spec => []NeverReactivated
<1>1. SafetyInv => NeverReactivated
  <2> SUFFICES ASSUME SafetyInv, NEW id \in LeaseIds PROVE granted[id] <= 1
    BY DEF NeverReactivated
  <2>1. granted[id] = 0 \/ granted[id] = 1
    BY DEF SafetyInv, SpentOnce
  <2> QED
    BY <2>1
<1> QED
  BY <1>1, SafetyInvariant, PTL

\* A grant in force has its "opened" event on record (AuditedFirst).
THEOREM AuditedBeforeForce == Spec => []AuditedFirst
<1>1. SafetyInv => AuditedFirst
  BY DEF SafetyInv, RecordedFirst
<1> QED
  BY <1>1, SafetyInvariant, PTL

\* A close that was reported successful lasts until the next open lease is
\* written, whatever was in flight (CloseConfirmed).
THEOREM CloseLasts == Spec => []CloseConfirmed
<1>1. SafetyInv => CloseConfirmed
  BY DEF SafetyInv, CloseInv, CloseConfirmed
<1> QED
  BY <1>1, SafetyInvariant, PTL

\* An orderly exit leaves no grant without a settled closing event
\* (EndsSettledBeforeExit).
THEOREM ExitSettles == Spec => []EndsSettledBeforeExit
<1>1. SafetyInv => EndsSettledBeforeExit
  BY DEF SafetyInv
<1> QED
  BY <1>1, SafetyInvariant, PTL

\* Only the decision of executeInternal frees a command, and mode() leaves it
\* a grant.
LEMMA OnlyDecideFrees ==
  ASSUME SafetyInv, [Next]_vars, NEW c \in Commands, RunsFree(c)
  PROVE  /\ phase = "up" /\ cmd[c] = "auditing"
         /\ active # None /\ ~Over(active)
<1>1. Decide(c)
  <2>1. \E d \in Commands : Decide(d)
    BY DEF RunsFree, SafetyInv, AllInv, TypeInv, AccessType, Answer, Ends, GivesUp,
       Unmoved, Next, Asks, Applies, Administers, vars, Refresh, RefreshRejected,
       RefreshStopped, CallerDeadline, GrantTimer, ReadTakes, ReadDeadline,
       FirstReadDiscarded, FirstReadRefused, FirstReadKeeps, FirstReadOverflows,
       FirstReadOpens, OpeningFails, OpeningAudited, SecondReadFails,
       SecondReadRefuses, Activate, RefusalSettles, LifecycleSettles, CliWrites,
       CliUndoes, CliWriteFails, CliUnanswered, CliReplaced, Stop, Exit, Start, Crash,
       NewProcess, Tick, Adjust, Corrupt
  <2>2. PICK d \in Commands : Decide(d)
    BY <2>1
  <2>3. d = c
    BY <2>2 DEF Decide, RunsFree, SafetyInv, AllInv, TypeInv, AccessType
  <2> QED
    BY <2>2, <2>3
<1>2. ~Stopped /\ Kept(active) # None
  BY <1>1 DEF Decide, RunsFree, SafetyInv, AllInv, TypeInv, AccessType
<1> QED
  BY <1>1, <1>2 DEF Decide, Kept, Stopped

\* A command runs free only within the lease's own duration, counted from the
\* moment it was accepted, however the wall clock is set (GrantBounded).
THEOREM FreeOnlyInTime == Spec => GrantBounded
<1>1. ASSUME SafetyInv, [Next]_vars, NEW c \in Commands, RunsFree(c)
      PROVE  /\ active # None
             /\ wall < active.lease.expiresAt
             /\ mono < active.taken + Duration
  <2>1. active # None /\ ~Over(active)
    BY <1>1, OnlyDecideFrees
  <2>2. active \in GrantType
    BY <1>1, <2>1 DEF SafetyInv, AllInv, TypeInv, AccessType
  <2>3. /\ active.lease.expiresAt \in Nat /\ active.deadline \in Nat /\ active.taken \in Nat
        /\ wall \in Nat /\ mono \in Nat /\ Duration \in Nat
    BY <1>1, <2>2, TemporaryAccessAssumption
       DEF GrantType, Lease, SafetyInv, AllInv, TypeInv, AccessType
  <2>4. active.deadline <= active.taken + Duration
    BY <1>1, <2>1 DEF SafetyInv, InTime
  <2> QED
    BY <2>1, <2>3, <2>4 DEF Over
<1>2. SafetyInv /\ [Next]_vars
        => [\A c \in Commands : RunsFree(c) =>
              /\ active # None
              /\ wall < active.lease.expiresAt
              /\ mono < active.taken + Duration]_vars
  BY <1>1
<1> QED
  BY <1>2, SafetyInvariant, PTL DEF Spec, GrantBounded

\* A command runs free only under a lease that the file held since the
\* operation it waited for began (GrantStillPublished).
THEOREM FreeOnlyUnderPublished == Spec => GrantStillPublished
<1>1. ASSUME SafetyInv, [Next]_vars, NEW c \in Commands, RunsFree(c)
      PROVE  active # None /\ active.lease.id \in since[c]
  BY <1>1, OnlyDecideFrees DEF SafetyInv, SinceInv, Covered, Busy
<1>2. SafetyInv /\ [Next]_vars
        => [\A c \in Commands : RunsFree(c) =>
              active # None /\ active.lease.id \in since[c]]_vars
  BY <1>1
<1> QED
  BY <1>2, SafetyInvariant, PTL DEF Spec, GrantStillPublished

=============================================================================
