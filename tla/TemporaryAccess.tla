--------------------------- MODULE TemporaryAccess ---------------------------
(***************************************************************************)
(* Temporary access: an administrator's CLI publishes a lease in a          *)
(* protected file; the service reads that file whenever a command or a      *)
(* status request asks for the execution mode, and runs commands            *)
(* unrestricted while it holds an unexpired lease of its own boot.          *)
(*                                                                         *)
(* The service is one Node process: a step ends where its handler awaits.   *)
(* At most one operation (readAndApply) is in flight; callers of refresh    *)
(* that arrive meanwhile wait for it.  The CLI is another process and       *)
(* meets the service in the file and in the answers only.                   *)
(*                                                                         *)
(* Only file, issued and the clocks outlive the service process.            *)
(* audited, granted, unsettled, since and closed are history: they are read *)
(* by the properties and by no guard.                                       *)
(*                                                                         *)
(* An operator named X_Y is X with a plausible slip Y; no action uses it.   *)
(***************************************************************************)
EXTENDS Naturals, FiniteSets

CONSTANTS
    Commands,    \* commands submitted to the service, one refresh each
    Admins,      \* runs of the access CLI
    None,
    Duration,    \* length of a granted lease, in ticks
    MaxRevoked,  \* lease IDs one service lifetime remembers (1024 in the source)
    MaxTime,     \* bound: ticks of the monotonic clock
    MaxJumps,    \* bound: adjustments of the wall clock
    MaxBoots,    \* bound: service starts
    Faults       \* what the environment may do wrong, see FaultKinds

FaultKinds == {"read", "audit", "slow", "crash", "stop", "corrupt", "label",
               "replaced"}

ASSUME TemporaryAccessAssumption ==
    /\ Commands \cap Admins = {}
    /\ None \notin Commands \cup Admins
    /\ Duration \in Nat \ {0}
    /\ MaxRevoked \in Nat
    /\ MaxTime \in Nat
    /\ MaxJumps \in Nat
    /\ MaxBoots \in Nat \ {0}
    /\ Faults \subseteq FaultKinds
    /\ IsFiniteSet(Commands) /\ IsFiniteSet(Admins)

VARIABLES
    phase,      \* the service process: "up", "stopping" or "down"
    boot,       \* instanceId: the number of this start
    wall,       \* Date.now
    mono,       \* performance.now
    jumps,      \* adjustments of the wall clock so far
    lastWall,   \* the wall time the last mode() saw
    active,     \* the grant in force, or None
    revoked,    \* lease IDs that may never (again) be granted
    lifecycle,  \* grants whose closing audit event is not settled
    awaited,    \* those of them that stop() waits for
    op,         \* the operation in flight
    waiting,    \* callers of refresh that await it
    cmd,        \* each command
    cli,        \* each run of the access CLI
    file,       \* the lease file
    issued,     \* records written so far; also the last lease ID
    audited,    \* leases whose "opened" event was written
    granted,    \* how often each lease became active
    unsettled,  \* grants of this boot without a settled closing event
    since,      \* leases the file held since the operation a command waits for began
    closed      \* a close was reported successful and nothing was opened since

clocks  == <<wall, mono, jumps>>
control == <<lastWall, active, revoked, lifecycle>>
storage == <<file, issued>>
history == <<audited, granted, unsettled, since, closed>>
vars == <<phase, boot, awaited, clocks, control, op, waiting, cmd, cli, storage, history>>

-----------------------------------------------------------------------------
\* A CLI run writes at most an open and the close that undoes it.
LeaseIds == 1..(2 * Cardinality(Admins))

\* Records of the lease file.  Of a close, only the ID is ever used.
Absent     == [kind |-> "absent"]
Corrupted  == [kind |-> "corrupted"]
Closes     == [kind : {"close"}, id : LeaseIds]
Lease      == [kind : {"open"}, id : LeaseIds, inst : 1..MaxBoots,
               issuedAt : Nat, expiresAt : Nat]

\* The grant in force: its lease, its end and its start on the monotonic clock.
GrantType == [lease : Lease, deadline : Nat, taken : Nat]
ASSUME NoneIsNoGrant == None \notin GrantType

\* What an operation has of its read: not done, failed, or a record.
Unread     == [kind |-> "unread"]
Unreadable == [kind |-> "unreadable"]

IsOpen(r)  == r.kind = "open"
IsClose(r) == r.kind = "close"
OpenIds(r) == IF IsOpen(r) THEN {r.id} ELSE {}

\* stale: the generation moved on.  failed: readFailure has rejected.
\* late, standing and seenOpen are history: an answer was given before the end;
\* the file still held the lease when its "opened" event settled; leases the
\* file held since the operation began.
Idle == [pc |-> "idle", seen |-> Unread, text |-> Absent, now |-> 0,
         deadline |-> 0, taken |-> 0, stale |-> FALSE, failed |-> FALSE,
         late |-> FALSE, standing |-> FALSE, seenOpen |-> {}]
OpSteps == {"idle", "reading", "opening", "confirming", "refusing"}
InRead  == op.pc \in {"reading", "confirming"}

Callers  == Commands \cup Admins
Stopped  == phase # "up"

\* The grant g is over by one clock or the other, or time went backwards.
Over_WallOnly(g) == wall < lastWall \/ wall >= g.lease.expiresAt
Over(g) == \/ wall < lastWall
           \/ wall >= g.lease.expiresAt
           \/ mono >= g.deadline

\* mode(): what is left of g.
Kept(g) == IF g # None /\ Over(g) THEN None ELSE g

\* The grant g gives way to h; invalidate() if h is None and g is not.
Dropped(g, h) == IF g \in {None, h} THEN {} ELSE {g.lease.id}
Becomes(g, h, ids) ==
    /\ active'    = h
    /\ revoked'   = revoked \cup ids \cup Dropped(g, h)
    /\ lifecycle' = lifecycle \cup Dropped(g, h)

-----------------------------------------------------------------------------
(* Answers.  A command goes on to its audit event; a CLI run learns the      *)
(* boot and the grant in force.                                              *)

ActivatedAs(x, h) == h # None /\ h.lease.id = x.id

\* What a CLI run makes of the answer to its second status request.
Verdict(x, h) ==
    IF x.inst # boot THEN "failed"
    ELSE IF x.action = "open" THEN IF ActivatedAs(x, h) THEN "done" ELSE "refused"
    ELSE IF h = None THEN "done" ELSE "failed"

Told(x, h) == IF x.pc = "before" THEN [x EXCEPT !.pc = "write", !.inst = boot]
              ELSE IF x.pc = "after" THEN [x EXCEPT !.pc = Verdict(x, h)]
              ELSE x

ConfirmsClose(x, h) == x.action = "close" /\ x.pc = "after" /\ Verdict(x, h) = "done"

Answer(S, c, h) ==
    /\ cmd' = [d \in Commands |-> IF d \in S THEN "auditing" ELSE cmd[d]]
    /\ cli' = [a \in Admins |-> IF a \in S THEN Told(c[a], h) ELSE c[a]]
    /\ closed' = \/ closed
                 \/ IsClose(file) /\ \E a \in S \cap Admins : ConfirmsClose(c[a], h)

\* The operation ends, the grant g becomes h or what mode() leaves of it, and
\* the callers evaluate mode() in the same turn.
Ends(g, h, ids) ==
    /\ op' = Idle
    /\ Becomes(g, Kept(h), ids)
    /\ Answer(waiting, cli, Kept(h))
    /\ waiting' = {}
    /\ lastWall' = IF waiting = {} THEN lastWall ELSE wall

\* The callers S are answered before the operation ends: the generation moves
\* on, so that nothing they were refused is granted behind their backs.
Overtaken_KeepsGeneration == [op EXCEPT !.late = TRUE]
Overtaken == [op EXCEPT !.stale = TRUE, !.late = TRUE]
GivesUp_KeepsGrant(S) ==
    /\ Becomes(active, Kept(active), {})
    /\ Answer(S, cli, Kept(active))
    /\ waiting' = waiting \ S
    /\ lastWall' = IF S = {} THEN lastWall ELSE wall
GivesUp(S) ==
    /\ Becomes(active, None, {})
    /\ Answer(S, cli, None)
    /\ waiting' = waiting \ S
    /\ lastWall' = IF S = {} THEN lastWall ELSE wall

-----------------------------------------------------------------------------
(* refresh()                                                                 *)

Unmoved == UNCHANGED <<phase, boot, awaited, clocks, storage, audited, granted, unsettled, since>>

CanAsk(c) == IF c \in Commands THEN cmd[c] = "new" ELSE cli[c].pc \in {"off", "written"}
Asked(c)  == IF c \in Commands THEN cli
             ELSE [cli EXCEPT ![c].pc = IF @ = "off" THEN "before" ELSE "after"]

\* History: the operation c waits for, or is refused by, began with op'.
Since(c) == [d \in Commands |-> IF d = c THEN op'.seenOpen ELSE since[d]]

\* The caller starts an operation, or joins the one in flight.
Refresh(c) ==
    /\ phase = "up" /\ CanAsk(c) /\ ~op.failed
    /\ op' = IF op.pc = "idle"
             THEN [Idle EXCEPT !.pc = "reading", !.seenOpen = OpenIds(file)]
             ELSE op
    /\ waiting' = waiting \cup {c}
    /\ cmd' = [d \in Commands |-> IF d = c THEN "refreshing" ELSE cmd[d]]
    /\ cli' = Asked(c)
    /\ since' = Since(c)
    /\ UNCHANGED <<phase, boot, awaited, clocks, control, storage, audited, granted,
                   unsettled, closed>>

\* It joins an operation whose read has missed its deadline: the race is lost
\* before it starts.
RefreshRejected(c) ==
    /\ phase = "up" /\ CanAsk(c) /\ op.failed
    /\ op' = [op EXCEPT !.stale = TRUE]
    /\ Becomes(active, None, {})
    /\ Answer({c}, Asked(c), None)
    /\ lastWall' = wall
    /\ since' = Since(c)
    /\ UNCHANGED <<phase, boot, awaited, clocks, waiting, storage, audited, granted, unsettled>>

RefreshStopped(c) ==
    /\ phase = "stopping" /\ CanAsk(c)
    /\ Answer({c}, Asked(c), None)
    /\ UNCHANGED <<control, op, waiting>>
    /\ Unmoved

\* A caller's own deadline.  Its timer outlasts the first read's deadline, so
\* it can only fire in a later step of the operation.
CallerDeadline(c) ==
    /\ "slow" \in Faults
    /\ c \in waiting /\ op.pc \in {"opening", "confirming", "refusing"}
    /\ op' = Overtaken
    /\ GivesUp({c})
    /\ Unmoved

\* The command's attempted event is written: mode() decides how it runs.
Decide(c) ==
    /\ cmd[c] = "auditing"
    /\ cmd' = [cmd EXCEPT ![c] = IF ~Stopped /\ Kept(active) # None THEN "free"
                                 ELSE "ruled"]
    /\ Becomes(active, Kept(active), {})
    /\ lastWall' = wall
    /\ since' = [since EXCEPT ![c] = {}]
    /\ UNCHANGED <<phase, boot, awaited, clocks, op, waiting, cli, storage, audited,
                   granted, unsettled, closed>>

\* The timer of the grant in force.
GrantTimer ==
    /\ active # None /\ mono >= active.deadline
    /\ Becomes(active, Kept(active), {})
    /\ lastWall' = wall
    /\ UNCHANGED <<phase, boot, awaited, clocks, op, waiting, cmd, cli, storage, history>>

-----------------------------------------------------------------------------
(* readAndApply()                                                            *)

\* The storage is read at some moment between the request and the answer.
ReadTakes ==
    /\ InRead /\ op.seen = Unread
    /\ \E r \in {file} \cup IF "read" \in Faults THEN {Unreadable} ELSE {} :
          op' = [op EXCEPT !.seen = r]
    /\ UNCHANGED <<phase, boot, awaited, clocks, control, waiting, cmd, cli, storage, history>>

\* Five seconds without an answer; the read itself goes on.
ReadDeadline ==
    /\ "slow" \in Faults
    /\ InRead /\ ~op.failed
    /\ op' = [Overtaken EXCEPT !.failed = TRUE]
    /\ GivesUp(waiting)
    /\ Unmoved

Superseded == op.stale \/ Stopped
IdsIn(r)   == IF IsOpen(r) \/ IsClose(r) THEN {r.id} ELSE {}
Refused_AnyBoot(r) == IsOpen(r) => r.issuedAt > wall \/ r.expiresAt <= wall
Refused(r) == IsOpen(r) => \/ r.inst # boot
                           \/ r.issuedAt > wall
                           \/ r.expiresAt <= wall

FirstRead == op.pc = "reading" /\ op.seen # Unread

\* Nobody waits for this read any more, or the service stops.
FirstReadDiscarded ==
    /\ FirstRead /\ Superseded
    /\ Ends(active, active, IdsIn(op.seen))
    /\ Unmoved

FirstReadRefused ==
    /\ FirstRead /\ ~Superseded /\ Refused(op.seen)
    /\ Ends(active, None, {})
    /\ Unmoved

\* The record of the grant in force, or of a grant that is over.
FirstReadKeeps ==
    /\ FirstRead /\ ~Superseded /\ ~Refused(op.seen)
    /\ LET g == Kept(active) IN
       \/ /\ g # None /\ g.lease.id = op.seen.id
          /\ Ends(active, IF g.lease = op.seen THEN g ELSE None, {})
       \/ /\ g # None => g.lease.id # op.seen.id
          /\ op.seen.id \in revoked \cup Dropped(active, g)
          /\ Ends(active, g, {})
    /\ Unmoved

\* A new lease: whatever was in force is closed, and the lease is spent before
\* its "opened" event is written.
NewLease == /\ FirstRead /\ ~Superseded /\ ~Refused(op.seen)
            /\ op.seen.id \notin revoked \cup Dropped(active, Kept(active))
            /\ active # None => active.lease.id # op.seen.id

FirstReadOverflows ==
    /\ NewLease
    /\ Cardinality(revoked \cup {op.seen.id} \cup Dropped(active, None)) > MaxRevoked
    /\ Ends(active, None, {op.seen.id})
    /\ Unmoved

\* The lease's end on the monotonic clock.
Deadline_Swapped(r) == mono + wall - r.expiresAt
Deadline(r) == mono + r.expiresAt - wall

FirstReadOpens ==
    /\ NewLease
    /\ Cardinality(revoked \cup {op.seen.id} \cup Dropped(active, None)) <= MaxRevoked
    /\ op' = [op EXCEPT !.pc = "opening", !.seen = Unread, !.text = op.seen,
                        !.now = wall, !.taken = mono,
                        !.deadline = Deadline(op.seen)]
    /\ Becomes(active, None, {op.seen.id})
    /\ lastWall' = wall
    /\ UNCHANGED <<waiting, cmd, cli, closed>>
    /\ Unmoved

\* The "opened" event fails.
OpeningFails_GoesOn ==
    /\ "audit" \in Faults
    /\ op.pc = "opening"
    /\ op' = [op EXCEPT !.pc = "confirming"]
    /\ UNCHANGED <<control, waiting, cmd, cli, closed>>
    /\ Unmoved
OpeningFails ==
    /\ "audit" \in Faults
    /\ op.pc = "opening"
    /\ Ends(active, None, {})
    /\ Unmoved

\* What is checked again after each await.
StillValid == ~Superseded /\ wall < op.text.expiresAt /\ mono < op.deadline

OpeningAudited ==
    /\ op.pc = "opening"
    /\ audited' = audited \cup {op.text.id}
    /\ \/ /\ StillValid /\ wall >= op.now
          /\ op' = [op EXCEPT !.pc = "confirming", !.standing = (file = op.text)]
          /\ UNCHANGED <<control, waiting, cmd, cli, closed>>
       \/ /\ ~(StillValid /\ wall >= op.now)
          /\ Ends(active, active, {})
    /\ UNCHANGED <<phase, boot, awaited, clocks, storage, granted, unsettled, since>>

SecondRead == op.pc = "confirming" /\ op.seen # Unread
Confirmed_Unread == StillValid
Confirmed  == op.seen = op.text /\ StillValid

SecondReadFails ==
    /\ SecondRead /\ op.seen = Unreadable
    /\ Ends(active, None, {})
    /\ Unmoved

SecondReadRefuses ==
    /\ SecondRead /\ op.seen # Unreadable /\ ~Confirmed
    /\ op' = [op EXCEPT !.pc = "refusing"]
    /\ UNCHANGED <<control, waiting, cmd, cli, closed>>
    /\ Unmoved

Grant == [lease |-> op.text, deadline |-> op.deadline, taken |-> op.taken]
Activate ==
    /\ SecondRead /\ Confirmed
    /\ Ends(Grant, Grant, {})
    /\ granted' = [granted EXCEPT ![op.text.id] = @ + 1]
    /\ unsettled' = unsettled \cup {op.text.id}
    /\ UNCHANGED <<phase, boot, awaited, clocks, storage, audited, since>>

\* The "invalidated" event settles, written or not.
RefusalSettles ==
    /\ op.pc = "refusing"
    /\ Ends(active, active, {})
    /\ Unmoved

\* The closing event of a grant settles, written or not.
LifecycleSettles(id) ==
    /\ id \in lifecycle
    /\ lifecycle' = lifecycle \ {id}
    /\ unsettled' = unsettled \ {id}
    /\ UNCHANGED <<phase, boot, awaited, clocks, lastWall, active, revoked, op, waiting,
                   cmd, cli, storage, audited, granted, since, closed>>

-----------------------------------------------------------------------------
(* The access CLI                                                            *)

Publish(r) ==
    /\ file' = r
    /\ op' = IF op.pc = "idle" THEN op ELSE [op EXCEPT !.seenOpen = @ \cup OpenIds(r)]
    /\ since' = [c \in Commands |-> IF cmd[c] \in {"refreshing", "auditing"}
                                    THEN since[c] \cup OpenIds(r) ELSE since[c]]
    /\ closed' = (closed /\ ~IsOpen(r))

Written == issued + 1
Closing == [kind |-> "close", id |-> Written]

CliMoves(a, pc) == cli' = [cli EXCEPT ![a].pc = pc]

\* writeAccessLease: after the rename a labelling tool may still fail it.
CliWrites(a) ==
    /\ cli[a].pc = "write"
    /\ \E pc \in {"written"} \cup IF "label" \in Faults THEN {"failed"} ELSE {} :
         \/ /\ cli[a].action = "close"
            /\ Publish(Closing)
            /\ CliMoves(a, pc)
         \/ /\ cli[a].action = "open"
            /\ Publish([kind |-> "open", id |-> Written, inst |-> cli[a].inst,
                        issuedAt |-> wall, expiresAt |-> wall + Duration])
            /\ cli' = [cli EXCEPT ![a].pc = pc, ![a].id = Written]
    /\ issued' = Written
    /\ UNCHANGED <<phase, boot, awaited, clocks, control, waiting, cmd, audited, granted, unsettled>>

\* The close that follows an open which did not take effect.
CliUndoes(a) ==
    /\ cli[a].pc \in {"refused", "undo"}
    /\ Publish(Closing)
    /\ CliMoves(a, "failed")
    /\ issued' = Written
    /\ UNCHANGED <<phase, boot, awaited, clocks, control, waiting, cmd, audited, granted, unsettled>>

\* A write that fails before its rename.
CliWriteFails(a) ==
    /\ "label" \in Faults
    /\ cli[a].pc \in {"write", "refused", "undo"}
    /\ CliMoves(a, "failed")
    /\ UNCHANGED <<phase, boot, awaited, clocks, control, op, waiting, cmd, storage, history>>

\* A status request fails: the service is gone, or the CLI's own deadline passes.
CliUnanswered(a) ==
    /\ cli[a].pc \in {"before", "after"} \cup IF phase = "down" THEN {"written"} ELSE {}
    /\ a \in waiting => "slow" \in Faults
    /\ CliMoves(a, IF cli[a].pc # "before" /\ cli[a].action = "open" THEN "undo" ELSE "failed")
    /\ UNCHANGED <<phase, boot, awaited, clocks, control, op, waiting, cmd, storage, history>>

\* The installed release changed meanwhile: the answer is not judged at all.
CliReplaced(a) ==
    /\ "replaced" \in Faults
    /\ cli[a].pc \in {"refused", "done"}
    /\ CliMoves(a, "failed")
    /\ UNCHANGED <<phase, boot, awaited, clocks, control, op, waiting, cmd, storage, history>>

-----------------------------------------------------------------------------
(* The service process, its clocks and its storage                           *)

\* What stop() waits for is settled once, behind its invalidate().
Snapshot_First == awaited' = lifecycle
Snapshot == awaited' = lifecycle'

Stop ==
    /\ "stop" \in Faults
    /\ phase = "up"
    /\ phase' = "stopping"
    /\ op' = IF op.pc = "idle" THEN op ELSE [op EXCEPT !.stale = TRUE]
    /\ Becomes(active, None, {})
    /\ Snapshot
    /\ UNCHANGED <<boot, clocks, lastWall, waiting, cmd, cli, storage, history>>

Busy(c) == cmd[c] \in {"refreshing", "auditing"}

\* The shutdown ends within its deadline: the operation in flight, the events in
\* the snapshot and the commands are settled.
Exit ==
    /\ phase = "stopping"
    /\ op.pc = "idle" /\ awaited \cap lifecycle = {} /\ ~\E c \in Commands : Busy(c)
    /\ phase' = "down"
    /\ UNCHANGED <<boot, awaited, clocks, control, op, waiting, cmd, cli, storage, history>>

NewProcess ==
    /\ boot < MaxBoots
    /\ boot' = boot + 1
    /\ phase' = "up"
    /\ lastWall' = wall
    /\ active' = None /\ revoked' = {} /\ lifecycle' = {} /\ awaited' = {}
    /\ op' = Idle
    /\ waiting' = {}
    /\ unsettled' = {}

Start ==
    /\ phase = "down"
    /\ NewProcess
    /\ UNCHANGED <<clocks, cmd, cli, storage, audited, granted, since, closed>>

\* The process dies, or its shutdown misses the deadline, and is started again.
Crash ==
    /\ "crash" \in Faults
    /\ phase \in {"up", "stopping"}
    /\ NewProcess
    /\ cmd' = [c \in Commands |-> IF Busy(c) THEN "dead" ELSE cmd[c]]
    /\ since' = [c \in Commands |-> {}]
    /\ UNCHANGED <<clocks, cli, storage, audited, granted, closed>>

Tick ==
    /\ mono < MaxTime
    /\ mono' = mono + 1
    /\ wall' = wall + 1
    /\ UNCHANGED <<phase, boot, awaited, jumps, control, op, waiting, cmd, cli, storage, history>>

\* The wall clock is set, forwards or backwards.
Adjust ==
    /\ jumps < MaxJumps
    /\ jumps' = jumps + 1
    /\ \E d \in 1..Duration : wall' \in {wall + d} \cup IF wall > d THEN {wall - d} ELSE {}
    /\ UNCHANGED <<phase, boot, awaited, mono, control, op, waiting, cmd, cli, storage, history>>

Corrupt ==
    /\ "corrupt" \in Faults
    /\ file # Corrupted
    /\ Publish(Corrupted)
    /\ UNCHANGED <<phase, boot, awaited, clocks, control, waiting, cmd, cli, issued,
                   audited, granted, unsettled>>

NoGrants == [i \in LeaseIds |-> 0]

Init ==
    /\ phase = "up" /\ boot = 1
    /\ wall = Duration + 1 /\ lastWall = wall
    /\ mono = 0 /\ jumps = 0
    /\ active = None /\ revoked = {} /\ lifecycle = {} /\ awaited = {}
    /\ op = Idle /\ waiting = {}
    /\ cmd = [c \in Commands |-> "new"]
    /\ cli \in [Admins -> {[pc |-> "off", action |-> o, inst |-> 0, id |-> 0] :
                             o \in {"open", "close"}}]
    /\ file = Absent /\ issued = 0
    /\ audited = {} /\ granted = NoGrants /\ unsettled = {}
    /\ since = [c \in Commands |-> {}] /\ closed = FALSE

Asks == \E c \in Callers :
    Refresh(c) \/ RefreshRejected(c) \/ RefreshStopped(c) \/ CallerDeadline(c)

Applies ==
    \/ ReadTakes \/ ReadDeadline
    \/ FirstReadDiscarded \/ FirstReadRefused \/ FirstReadKeeps
    \/ FirstReadOverflows \/ FirstReadOpens
    \/ OpeningFails \/ OpeningAudited
    \/ SecondReadFails \/ SecondReadRefuses \/ Activate \/ RefusalSettles

Administers == \E a \in Admins :
    \/ CliWrites(a) \/ CliUndoes(a)
    \/ CliWriteFails(a) \/ CliUnanswered(a) \/ CliReplaced(a)

Next ==
    \/ Asks
    \/ \E c \in Commands : Decide(c)
    \/ GrantTimer
    \/ Applies
    \/ \E id \in LeaseIds : LifecycleSettles(id)
    \/ Administers
    \/ Stop \/ Exit \/ Start \/ Crash
    \/ Tick \/ Adjust \/ Corrupt

Spec == Init /\ [][Next]_vars

-----------------------------------------------------------------------------
(* Properties                                                                *)

\* Every variable has its type; a caller waits only for an operation in
\* flight whose read is not already given up (refresh, readAndApply).
AccessType ==
    /\ phase \in {"up", "stopping", "down"}
    /\ boot \in 1..MaxBoots
    /\ <<wall, mono, jumps, lastWall>> \in Nat \X Nat \X Nat \X Nat
    /\ active \in GrantType \cup {None}
    /\ revoked \subseteq LeaseIds /\ lifecycle \subseteq LeaseIds
    /\ awaited \subseteq LeaseIds
    /\ op.pc \in OpSteps
    /\ op.seen \in Lease \cup Closes \cup {Absent, Corrupted, Unread, Unreadable}
    /\ op.text \in Lease \cup {Absent} /\ op.deadline \in Nat
    /\ waiting \subseteq Callers
    /\ waiting # {} => op.pc # "idle" /\ ~op.failed
    /\ cmd \in [Commands -> {"new", "refreshing", "auditing", "free", "ruled", "dead"}]
    /\ file \in Lease \cup Closes \cup {Absent, Corrupted}
    /\ issued \in LeaseIds \cup {0}

Activates(id) == granted'[id] > granted[id]
RunsFree(c)   == cmd[c] # "free" /\ cmd'[c] = "free"

\* No lease takes effect twice, whatever becomes of it: not after it was
\* closed or expired, not when the wall clock is set back, not after a restart
\* ("an expired or revoked grant cannot be replayed").
NeverReactivated == \A id \in LeaseIds : granted[id] <= 1

\* A grant in force has its "opened" event written (readAndApply).
AuditedFirst == active # None => active.lease.id \in audited

\* A command runs unrestricted only while its lease lasts by both clocks,
\* counted from the moment the service accepted it: no adjustment of the wall
\* clock prolongs it (mode, and executeInternal's recheck).
GrantBounded ==
    [][\A c \in Commands : RunsFree(c) =>
          /\ active # None
          /\ wall < active.lease.expiresAt
          /\ mono < active.taken + Duration]_vars

\* A command runs unrestricted only under a lease that the file held at some
\* moment since the operation its refresh waited for began: a lease that was
\* replaced earlier cannot free it, however reads, audits and deadlines
\* interleave.
GrantStillPublished ==
    [][\A c \in Commands : RunsFree(c) => active # None /\ active.lease.id \in since[c]]_vars

\* Once "access close" has reported success, no grant is in force until
\* another open lease is written.
CloseConfirmed == closed => active = None

\* A lease takes effect only if the file still held it after its "opened"
\* event settled: a close or a renewal during the audit wins.
CloseWinsOverOpening ==
    [][\A id \in LeaseIds : Activates(id) => op.standing /\ op.text.id = id]_vars

\* No lease takes effect through an operation of which some caller was
\* already refused: late reads and late audits grant nothing.
LateNeverGrants == [][\A id \in LeaseIds : Activates(id) => ~op.late]_vars

\* An orderly exit leaves no grant without a settled closing event.
EndsSettledBeforeExit == phase = "down" => unsettled = {}

\* "A failed grant must not remain eligible for delayed activation": once the
\* CLI has reported a failed open, its lease never takes effect.
FailedOpenStaysClosed ==
    [][\A a \in Admins : cli[a].pc = "failed" /\ cli[a].id # 0 => ~Activates(cli[a].id)]_vars

=============================================================================
