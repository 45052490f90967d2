--------------------------- MODULE BackgroundJobs ---------------------------
(***************************************************************************)
(* The background job service: BackgroundJobService with the JobStore       *)
(* queue it persists through, the execution slots it takes from             *)
(* CommandExecutor and the audit events it writes.  One Node process runs   *)
(* it; every await in the source is a point where other handlers may run,   *)
(* so a job is driven by program counters (sub, run, fin) that advance when *)
(* an awaited audit write, store operation or child process settles.        *)
(*                                                                         *)
(* Only disk, attempted, terminals, spawned, forgotten and req outlive the  *)
(* process; everything else is lost by Crash and Exit.                      *)
(*                                                                         *)
(* An operator named X_Y is X with a plausible slip Y; no action uses it.   *)
(* Putting it in the place of X shows that a property notices the slip.     *)
(***************************************************************************)
EXTENDS Naturals, Sequences, FiniteSets, SequencesExt

CONSTANTS
    Jobs,         \* job IDs: one fresh UUID per admitted submission
    Requests,     \* client-chosen request IDs
    Modes,        \* effective execution modes (configured, or leased)
    NoRequest,
    MaxParallel,  \* COMMAND_BRIDGE_MAX_PARALLEL_COMMANDS
    MaxActive,    \* admitted unfinished jobs (10 in the source)
    MaxRecords,   \* retained records (100 in the source)
    MaxSync,      \* bound: synchronous commands running at once
    MaxRestarts,  \* bound: service restarts
    Faults        \* what the environment may do wrong, see FaultKinds

FaultKinds == {"store", "audit", "crash", "termination", "expiry", "refusal",
               "shutdown", "aging"}

ASSUME BackgroundJobsAssumption ==
    /\ NoRequest \notin Requests
    /\ Modes # {}
    /\ MaxParallel \in Nat \ {0}
    /\ MaxActive \in Nat
    /\ MaxRecords \in Nat
    /\ MaxSync \in Nat
    /\ MaxRestarts \in Nat
    /\ Faults \subseteq FaultKinds
    /\ IsFiniteSet(Jobs)

VARIABLES
    phase,      \* the service process: "down", "boot" or "up"
    restarts,   \* number of restarts so far
    stopping,   \* shutdown has been requested
    fault,      \* BackgroundJobService.fault
    rec,        \* the record object of each job
    known,      \* keys of the records map
    active,     \* keys of the active map
    rank,       \* insertion order of the active map, 0 when never inserted
    aborted,    \* jobs whose AbortController has been aborted
    sub,        \* startInternal, per job
    run,        \* run() and the executeInternal it awaits, per job
    outcome,    \* how runProcess, or the step before it, ended
    fin,        \* finishQueued, per job and caller
    pumping,    \* pump(): where the single pass in flight is
    slot,       \* the execution capacity a job holds
    sync,       \* synchronous commands in activeCommands
    mode,       \* the current effective execution mode
    auditUp,    \* AuditLog.available: latched FALSE by the first failure
    storeQ,     \* JobStore.queue: operations not yet settled, oldest first
    head,       \* the oldest operation: "idle", "busy" or "late" (abandoned)
    snap,       \* the record the busy operation serialised when it started
    storeFailed, \* JobStore.failed
    disk,       \* the record files
    req,        \* the request ID a job ID was drawn for
    jobMode,    \* the mode captured at submission
    attempted,  \* jobs with an "attempted" audit event
    terminals,  \* number of terminal audit events of each job
    spawned,    \* number of children started for each job
    forgotten   \* jobs whose retained record was removed

process    == <<phase, restarts, stopping>>
records    == <<rec, known, active, rank>>
programs   == <<sub, run, outcome, fin, pumping, aborted>>
capacity   == <<slot, sync>>
store      == <<storeQ, head, snap, storeFailed, disk>>
audit      == <<auditUp, attempted, terminals>>
identities == <<req, jobMode>>
vars == <<process, fault, records, programs, capacity, mode, store, audit,
          identities, spawned, forgotten>>

-----------------------------------------------------------------------------
Live     == {"queued", "starting", "running", "finalizing"}
Terminal == {"completed", "failed", "cancelled", "timed_out", "interrupted"}

Record == [state  : Live \cup Terminal \cup {"absent"},
           audit  : {"pending", "confirmed", "unavailable", "unknown"},
           term   : {"not_requested", "requested", "confirmed", "unknown"},
           result : BOOLEAN]

NoRecord  == [state |-> "absent", audit |-> "pending",
              term |-> "not_requested", result |-> FALSE]
NewRecord == [NoRecord EXCEPT !.state = "queued"]

\* What initialize() makes of a record it finds unfinished.
Interrupted == [state |-> "interrupted", audit |-> "unknown",
                term |-> "unknown", result |-> FALSE]

Pending  == {"attempt", "recheck", "save", "refusing", "failing"}
Closers  == {"client", "pump", "shutdown"}
Outcomes == {"none", "ok", "bad", "timeout", "refused", "cancelled", "error",
             "termination", "storage"}
RunSteps == {"idle", "starting", "running", "mode", "child", "blocked",
             "completed", "failed", "orphan", "final", "end"}
Ops      == {"accept", "starting", "running", "final", "cleanup"} \cup Closers

Op(j, o) == [job |-> j, op |-> o]

Least(f, S) == {j \in S : \A k \in S : f[j] <= f[k]}

\* reservedCommands, activeCommands and the quarantine together.
Holding   == {j \in Jobs : slot[j] # "none"}
InUse     == Cardinality(Holding) + sync
Accepting == ~stopping /\ auditUp
Slots     == IF Accepting /\ InUse < MaxParallel THEN MaxParallel - InUse ELSE 0

Aged_Unfinished == IF "aging" \in Faults /\ ~storeFailed THEN known ELSE {}

\* Only a terminal record with nothing in flight can be 24 hours past its end;
\* after a storage failure nothing runs that started a day later.
Aged == IF "aging" \in Faults /\ ~storeFailed
        THEN {j \in known : /\ rec[j].state \in Terminal
                            /\ j \notin active
                            /\ sub[j] \notin Pending
                            /\ run[j] \in {"idle", "end"}
                            /\ \A c \in Closers : fin[j][c] \in {"idle", "end"}}
        ELSE {}

-----------------------------------------------------------------------------
(* Audit writes.  The first failure latches the log unavailable; an event   *)
(* whose write was reported failed may still reach the backend late.        *)

AuditOutcome(ok) == \/ ok /\ auditUp /\ UNCHANGED auditUp
                    \/ ~ok /\ (auditUp => "audit" \in Faults) /\ auditUp' = FALSE

TerminalEvent(j, ok) ==
    /\ AuditOutcome(ok)
    /\ \E n \in IF ok THEN {1} ELSE IF auditUp THEN {0, 1} ELSE {0} :
          terminals' = [terminals EXCEPT ![j] = @ + n]
    /\ UNCHANGED attempted

-----------------------------------------------------------------------------
(* pump(): one pass over the active map, in insertion order.  q is the      *)
(* store queue the pass appends its saves to.                               *)

Queued_Unstarted == {j \in active : run[j] = "idle"}
Queued_All == active
Queued == {j \in active : rec[j].state = "queued"}

\* Reserve a slot for as many queued jobs as there are free slots, oldest
\* first, and start run() on each.
PumpStarts(q) ==
    LET n == IF Slots < Cardinality(Queued) THEN Slots ELSE Cardinality(Queued) IN
    \E first \in [1 .. n -> Queued] :
       LET S == {first[i] : i \in 1 .. n} IN
       /\ \A i, k \in 1 .. n : i < k => rank[first[i]] < rank[first[k]]
       /\ \A j \in S, k \in Queued \ S : rank[j] < rank[k]
       /\ rec'  = [j \in Jobs |-> IF j \in S THEN [rec[j] EXCEPT !.state = "starting"]
                                  ELSE rec[j]]
       /\ slot' = [j \in Jobs |-> IF j \in S THEN "reserved" ELSE slot[j]]
       /\ run'  = [j \in Jobs |-> IF j \in S THEN "starting" ELSE run[j]]
       /\ storeQ' = q \o [i \in 1 .. n |-> Op(first[i], "starting")]
       /\ pumping' = "idle"
       /\ UNCHANGED fin

\* The oldest queued job has waited ten minutes, or commands are no longer
\* accepted: finishQueued(JOB_QUEUE_EXPIRED), and the pass waits for it.
PumpExpires(q) ==
    /\ "expiry" \in Faults \/ ~Accepting
    /\ \E j \in Least(rank, Queued) :
          /\ rec' = [rec EXCEPT ![j].state = "failed"]
          /\ fin' = [fin EXCEPT ![j]["pump"] = "audit"]
    /\ pumping' = "closing"
    /\ storeQ' = q
    /\ UNCHANGED <<slot, run>>

PumpPass(q) == \/ Accepting /\ PumpStarts(q)
               \/ PumpExpires(q)
               \/ /\ ~Accepting /\ Queued = {}
                  /\ pumping' = "idle" /\ storeQ' = q
                  /\ UNCHANGED <<rec, slot, run, fin>>

MayPump == pumping = "idle" /\ ~stopping /\ ~fault
PumpNow(q) == IF MayPump THEN PumpPass(q)
              ELSE storeQ' = q /\ UNCHANGED <<rec, slot, run, fin, pumping>>

PumpFrame == UNCHANGED <<process, fault, known, active, rank, sub, outcome, aborted,
                         sync, mode, head, snap, storeFailed, disk, audit,
                         identities, spawned, forgotten>>

\* The 250 ms timer.
Pump ==
    /\ phase = "up" /\ MayPump /\ Queued # {}
    /\ PumpPass(storeQ)
    /\ PumpFrame

\* The pass goes on after an await; stopping and fault are not read again.
PumpResumes ==
    /\ phase = "up" /\ pumping = "resume"
    /\ PumpPass(storeQ)
    /\ PumpFrame

\* Once a minute a pass first awaits a cleanup of the store.
PumpCleans ==
    /\ phase = "up" /\ MayPump /\ Aged # {}
    /\ pumping' = "cleanup"
    /\ \E j \in Aged : storeQ' = Append(storeQ, Op(j, "cleanup"))
    /\ UNCHANGED <<process, fault, records, sub, run, outcome, fin, aborted, capacity,
                   mode, head, snap, storeFailed, disk, audit, identities, spawned,
                   forgotten>>

-----------------------------------------------------------------------------
(* What the caller of store.operation does when the operation settles: ok   *)
(* tells how, q is the queue without it.                                    *)

\* fail(): latch the fault and abort every job that has an operation.
Fail == /\ fault' = TRUE
        /\ aborted' = aborted \cup {j \in active : run[j] # "idle"}

\* The assignments of run()'s catch block up to its audit write, then those
\* after it.  err is the outcome behind errorCode, "audit" for AUDIT_ codes.
Caught(r, err, ab) ==
    [r EXCEPT !.state  = IF ab /\ err # "termination" THEN "cancelled" ELSE "failed",
              !.audit  = IF err = "audit" THEN "unavailable" ELSE "confirmed",
              !.result = FALSE]
Evidenced_Cancelled(r, err, ab) ==
    [r EXCEPT !.term = IF ab THEN "confirmed" ELSE @]
Evidenced(r, err, ab) ==
    [r EXCEPT !.term = IF err = "termination" THEN "unknown"
                       ELSE IF ab THEN "confirmed" ELSE @]

\* The first two saves of run(), and what run() waits for after each.
After_OneSave == [s \in {"starting", "running"} |-> "mode"]
After == [s \in {"starting", "running"} |-> IF s = "starting" THEN "running" ELSE "mode"]

RunSaved(j, ok, q) ==
    /\ IF ok
       THEN /\ run' = [run EXCEPT ![j] = After[@]]
            /\ rec' = IF run[j] = "starting" THEN [rec EXCEPT ![j].state = "running"]
                      ELSE rec
            /\ storeQ' = IF run[j] = "starting" THEN Append(q, Op(j, "running")) ELSE q
            /\ UNCHANGED outcome
       ELSE /\ run' = [run EXCEPT ![j] = "orphan"]
            /\ rec' = [rec EXCEPT ![j] = Caught(@, "storage", j \in aborted)]
            /\ outcome' = [outcome EXCEPT ![j] = "storage"]
            /\ storeQ' = q
    /\ UNCHANGED <<sub, fault, aborted, active, slot, fin, pumping>>

\* A result that could not be saved is withheld.
Withheld_Kept(r) == r
Withheld(r) == [r EXCEPT !.result = FALSE]

Leaves_Stays(j) == UNCHANGED active
Leaves(j) == active' = active \ {j}

\* The save in run()'s finally block, and the end of run().
FinalSaved(j, ok, q) ==
    /\ run' = [run EXCEPT ![j] = "end"]
    /\ Leaves(j)
    /\ storeQ' = q
    /\ IF ok THEN UNCHANGED <<rec, fault, aborted>>
       ELSE Fail /\ rec' = [rec EXCEPT ![j] = Withheld(@)]
    /\ UNCHANGED <<sub, outcome, slot, fin, pumping>>

\* The acceptance boundary: pump at once, or forget the job and latch fault.
AcceptSaved(j, ok, q) ==
    /\ IF ok
       THEN /\ sub' = [sub EXCEPT ![j] = "accepted"]
            /\ PumpNow(q)
            /\ UNCHANGED <<fault, active>>
       ELSE /\ sub' = [sub EXCEPT ![j] = "failing"]
            /\ Leaves(j)
            /\ fault' = TRUE
            /\ storeQ' = q
            /\ UNCHANGED <<rec, slot, run, fin, pumping>>
    /\ UNCHANGED <<aborted, outcome>>

\* The save of finishQueued; its caller decides what a failure means.
FinishSaved(j, c, ok, q) ==
    /\ fin' = [fin EXCEPT ![j][c] = "end"]
    /\ storeQ' = q
    /\ IF c = "pump" THEN pumping' = IF ok THEN "resume" ELSE "idle"
       ELSE UNCHANGED pumping
    /\ IF c = "pump" /\ ~ok THEN Fail ELSE UNCHANGED <<fault, aborted>>
    /\ UNCHANGED <<sub, outcome, active, rec, slot, run>>

CleanupDone(ok, q) ==
    /\ pumping' = IF ok THEN "resume" ELSE "idle"
    /\ storeQ' = q
    /\ IF ok THEN UNCHANGED <<fault, aborted>> ELSE Fail
    /\ UNCHANGED <<sub, outcome, active, rec, slot, run, fin>>

\* The await that a ticket resumes is the one its owner is at.
Settle(t, ok, q) ==
    /\ \/ t.op = "accept" /\ sub[t.job] = "save" /\ AcceptSaved(t.job, ok, q)
       \/ /\ t.op \in {"starting", "running"} /\ run[t.job] = t.op
          /\ RunSaved(t.job, ok, q)
       \/ t.op = "final" /\ run[t.job] = "final" /\ FinalSaved(t.job, ok, q)
       \/ /\ t.op \in Closers /\ fin[t.job][t.op] = "save"
          /\ FinishSaved(t.job, t.op, ok, q)
       \/ t.op = "cleanup" /\ pumping = "cleanup" /\ CleanupDone(ok, q)
    /\ UNCHANGED <<process, rank, sync, mode, audit, identities, spawned>>

-----------------------------------------------------------------------------
(* JobStore: one operation at a time, in the order they were requested.     *)

\* The oldest operation passes its check of failed and starts its I/O.
StoreBegins ==
    /\ phase = "up" /\ storeQ # <<>> /\ head = "idle" /\ ~storeFailed
    /\ head' = "busy" /\ snap' = rec[storeQ[1].job]
    /\ UNCHANGED <<process, fault, records, programs, capacity, mode, storeQ,
                   storeFailed, disk, audit, identities, spawned, forgotten>>

\* Accept and cleanup operations first remove aged records, file by file.
Removable(t) == IF t.op \in {"accept", "cleanup"} THEN SUBSET Aged ELSE {{}}
Without(gone) == [j \in Jobs |-> IF j \in gone THEN NoRecord ELSE disk[j]]

\* The record reaches its file by a rename, serialised at some point between
\* the start of the operation and now.
Lands(t, gone) ==
    \E r \in {snap, rec[t.job]} :
       disk' = IF t.op = "cleanup" THEN Without(gone)
               ELSE [Without(gone) EXCEPT ![t.job] = r]
Persist(t, gone) ==
    /\ Lands(t, gone)
    /\ known' = known \ gone
    /\ forgotten' = forgotten \cup gone

StoreCommits ==
    /\ phase = "up" /\ head = "busy"
    /\ \E gone \in Removable(storeQ[1]) : Persist(storeQ[1], gone)
    /\ Settle(storeQ[1], TRUE, Tail(storeQ))
    /\ head' = "idle" /\ snap' = NoRecord
    /\ UNCHANGED storeFailed

\* A rejected operation may have removed records; only the rejection of an
\* accept operation takes its own record out of the map again. One that is past
\* its deadline before its timer has fired is rejected with its work done.
Forgets(t, gone) ==
    /\ known' = known \ (IF t.op = "accept" THEN gone \cup {t.job} ELSE gone)
    /\ forgotten' = forgotten \cup gone
Rejected(t, gone) == disk' = Without(gone) /\ Forgets(t, gone)
Overran(t, gone)  == Lands(t, gone) /\ Forgets(t, gone)

\* The operation rejects.  failed is latched one microtask after the next
\* operation has passed its own check, so an operation already in the queue
\* starts all the same.
StoreFails ==
    /\ phase = "up" /\ head = "busy" /\ "store" \in Faults
    /\ \E gone \in Removable(storeQ[1]) :
          Rejected(storeQ[1], gone) \/ Overran(storeQ[1], gone)
    /\ Settle(storeQ[1], FALSE, Tail(storeQ))
    /\ storeFailed' = TRUE
    /\ IF Len(storeQ) > 1 /\ ~storeFailed
       THEN head' = "busy" /\ snap' = rec[storeQ[2].job]
       ELSE head' = "idle" /\ snap' = NoRecord

\* The five-second timer of the operation in progress: its caller goes on,
\* its I/O stays at the head of the queue.
StoreTimesOut ==
    /\ phase = "up" /\ head = "busy" /\ "store" \in Faults
    /\ Settle(storeQ[1], FALSE, storeQ)
    /\ Rejected(storeQ[1], {})
    /\ storeFailed' = TRUE /\ head' = "late"
    /\ UNCHANGED snap

\* The abandoned I/O ends, with or without effect.
StoreEndsLate ==
    /\ phase = "up" /\ head = "late"
    /\ \/ \E gone \in Removable(storeQ[1]) : Persist(storeQ[1], gone)
       \/ UNCHANGED <<disk, known, forgotten>>
    /\ head' = "idle" /\ snap' = NoRecord
    /\ storeQ' = Tail(storeQ)
    /\ UNCHANGED <<process, fault, rec, active, rank, programs, capacity, mode,
                   storeFailed, audit, identities, spawned>>

\* Once failed is latched an operation that has not started is rejected.
StoreRefuses ==
    /\ phase = "up" /\ storeFailed
    /\ \E i \in 1 .. Len(storeQ) :
          /\ i > 1 \/ head = "idle"
          /\ Settle(storeQ[i], FALSE, RemoveAt(storeQ, i))
          /\ Rejected(storeQ[i], {})
    /\ UNCHANGED <<head, snap, storeFailed>>

-----------------------------------------------------------------------------
(* startInternal                                                            *)

Duplicate_Pending(r) == \E k \in Jobs : req[k] = r /\ sub[k] \in Pending
Duplicate_Retained(r) == \E k \in known : req[k] = r
Duplicate(r) == \E k \in Jobs : req[k] = r /\ (sub[k] \in Pending \/ k \in known)

\* start(): a request that is being submitted shares its promise, one with a
\* retained record gets that record's summary; neither changes anything.
Submit(j, r) ==
    /\ phase = "up" /\ ~fault
    /\ req[j] = NoRequest
    /\ ~Duplicate(r)
    /\ req' = [req EXCEPT ![j] = r]
    /\ jobMode' = [jobMode EXCEPT ![j] = mode]
    /\ sub' = [sub EXCEPT ![j] = "attempt"]
    /\ UNCHANGED <<process, fault, records, run, outcome, fin, pumping, aborted,
                   capacity, mode, store, audit, spawned, forgotten>>

SubmissionFrame == UNCHANGED <<process, fault, run, outcome, fin, pumping, aborted,
                               capacity, mode, head, snap, storeFailed, disk,
                               identities, spawned, forgotten>>

\* The "attempted" event is written, or the submission fails.  What refuses a
\* submission here: shutdown, a disconnected client, a pending managed
\* update, a timeout above the host's maximum.
AttemptAudited(j, ok) ==
    /\ phase = "up" /\ sub[j] = "attempt"
    /\ AuditOutcome(ok)
    /\ attempted' = IF ok THEN attempted \cup {j} ELSE attempted
    /\ sub' \in {[sub EXCEPT ![j] = s] :
                    s \in IF ~ok THEN {"refused"} ELSE IF stopping THEN {"refusing"}
                          ELSE IF "refusal" \in Faults THEN {"recheck", "refusing"}
                          ELSE {"recheck"}}
    /\ UNCHANGED <<records, storeQ, terminals>>
    /\ SubmissionFrame

Full_ActiveOnly == Cardinality(active) >= MaxActive
Full == Cardinality(active) >= MaxActive \/ Cardinality(known) >= MaxRecords

\* The second mode read has resolved: policy and capacity are checked and the
\* job enters both maps in the same turn, before its acceptance is saved.
Admit(j) ==
    /\ phase = "up" /\ sub[j] = "recheck"
    /\ mode = jobMode[j] /\ ~Full
    /\ sub' = [sub EXCEPT ![j] = "save"]
    /\ rec' = [rec EXCEPT ![j] = NewRecord]
    /\ known' = known \cup {j}
    /\ active' = active \cup {j}
    /\ rank' = [rank EXCEPT ![j] = Cardinality({k \in Jobs : rank[k] > 0}) + 1]
    /\ storeQ' = Append(storeQ, Op(j, "accept"))
    /\ UNCHANGED audit
    /\ SubmissionFrame

Refuse(j) ==
    /\ phase = "up" /\ sub[j] = "recheck"
    /\ mode # jobMode[j] \/ Full \/ "refusal" \in Faults
    /\ sub' = [sub EXCEPT ![j] = "refusing"]
    /\ UNCHANGED <<records, storeQ, audit>>
    /\ SubmissionFrame

\* The "blocked" event of a refusal, or the "failed" event of a submission
\* whose acceptance could not be saved.
RefusalAudited(j, ok) ==
    /\ phase = "up" /\ sub[j] \in {"refusing", "failing"}
    /\ TerminalEvent(j, ok)
    /\ sub' = [sub EXCEPT ![j] = "refused"]
    /\ UNCHANGED <<records, storeQ>>
    /\ SubmissionFrame

-----------------------------------------------------------------------------
(* run() from the executor on, and finishQueued                             *)

RunFrame == UNCHANGED <<process, fault, known, rank, sub, pumping, aborted, mode,
                        head, snap, storeFailed, disk, identities, forgotten>>

\* executeInternal once effectiveExecutionMode() has resolved: the
\* reservation is given back, capacity and policy are checked again and the
\* child is spawned, all in one turn.
SlotFree(j) == Accepting /\ Cardinality(Holding \ {j}) + sync < MaxParallel

Spawn(j) ==
    /\ phase = "up" /\ run[j] = "mode"
    /\ j \notin aborted /\ SlotFree(j) /\ mode = jobMode[j]
    /\ slot' = [slot EXCEPT ![j] = "active"]
    /\ run' = [run EXCEPT ![j] = "child"]
    /\ spawned' = [spawned EXCEPT ![j] = @ + 1]
    /\ UNCHANGED <<rec, active, outcome, fin, sync, storeQ, audit>>
    /\ RunFrame

ExecutorRefuses(j) ==
    /\ phase = "up" /\ run[j] = "mode"
    /\ j \in aborted \/ ~SlotFree(j) \/ mode # jobMode[j] \/ "refusal" \in Faults
    /\ slot' = [slot EXCEPT ![j] = "none"]
    /\ run' = [run EXCEPT ![j] = "blocked"]
    /\ outcome' = [outcome EXCEPT ![j] = "refused"]
    /\ UNCHANGED <<rec, active, fin, sync, storeQ, audit, spawned>>
    /\ RunFrame

\* The child and its streams have closed and the slot is given back before
\* the terminal event: with a result, unless the job was cancelled or its
\* output could not be decoded.
ChildEnds(j, o) ==
    /\ phase = "up" /\ run[j] = "child"
    /\ o \in IF j \in aborted THEN {"cancelled"} ELSE {"ok", "bad", "timeout", "error"}
    /\ slot' = [slot EXCEPT ![j] = "none"]
    /\ outcome' = [outcome EXCEPT ![j] = o]
    /\ IF o \in {"ok", "bad", "timeout"}
       THEN /\ run' = [run EXCEPT ![j] = "completed"]
            /\ rec' = [rec EXCEPT ![j].state = "finalizing"]
       ELSE run' = [run EXCEPT ![j] = "failed"] /\ UNCHANGED rec
    /\ UNCHANGED <<active, fin, sync, storeQ, audit, spawned>>
    /\ RunFrame

\* Termination (cancel, timeout, output failure) could not be confirmed: the
\* slot stays with the quarantine, unless the child has gone meanwhile.
TerminationFails(j) ==
    /\ phase = "up" /\ run[j] = "child" /\ "termination" \in Faults
    /\ slot' \in {[slot EXCEPT ![j] = s] : s \in {"quarantined", "none"}}
    /\ outcome' = [outcome EXCEPT ![j] = "termination"]
    /\ run' = [run EXCEPT ![j] = "failed"]
    /\ UNCHANGED <<rec, active, fin, sync, storeQ, audit, spawned>>
    /\ RunFrame

QuarantineReleases(j) ==
    /\ phase = "up" /\ slot[j] = "quarantined"
    /\ slot' = [slot EXCEPT ![j] = "none"]
    /\ UNCHANGED <<rec, active, run, outcome, fin, sync, storeQ, audit, spawned>>
    /\ RunFrame

GivesBack_Not(j) == UNCHANGED slot
GivesBack(j) == slot' = IF slot[j] = "reserved" THEN [slot EXCEPT ![j] = "none"] ELSE slot

\* run()'s finally block: the slot is given back if it is still reserved.
Finalize(j) ==
    /\ run' = [run EXCEPT ![j] = "final"]
    /\ GivesBack(j)
    /\ storeQ' = Append(storeQ, Op(j, "final"))
    /\ UNCHANGED <<active, outcome, fin, sync, spawned>>

\* What run() makes of the result of a command whose "completed" event is
\* written.
Published(r, end) ==
    [r EXCEPT !.result = TRUE, !.audit = "confirmed",
              !.state = CASE end = "timeout" -> "timed_out"
                          [] end = "ok" -> "completed"
                          [] OTHER -> "failed",
              !.term = IF end = "timeout" THEN "confirmed" ELSE r.term]

\* The "completed" event decides whether there is a result to publish.
CompletionAudited(j, ok) ==
    /\ phase = "up" /\ run[j] = "completed"
    /\ TerminalEvent(j, ok)
    /\ rec' = [rec EXCEPT ![j] =
          IF ok THEN Published(@, outcome[j])
          ELSE Evidenced(Caught(@, "audit", j \in aborted), "audit", j \in aborted)]
    /\ Finalize(j)
    /\ RunFrame

\* The "blocked" or "failed" event of the executor; when it cannot be written
\* the audit failure replaces the error it was to report.
FailureAudited(j, ok) ==
    /\ phase = "up" /\ run[j] \in {"blocked", "failed"}
    /\ TerminalEvent(j, ok)
    /\ LET err == IF ok THEN outcome[j] ELSE "audit" IN
       rec' = [rec EXCEPT ![j] =
                  Evidenced(Caught(@, err, j \in aborted), err, j \in aborted)]
    /\ Finalize(j)
    /\ RunFrame

\* The "failed" event run() writes itself when the executor was not reached.
OrphanAudited(j, ok) ==
    /\ phase = "up" /\ run[j] = "orphan"
    /\ TerminalEvent(j, ok)
    /\ rec' = [rec EXCEPT ![j] =
          Evidenced(IF ok THEN @ ELSE [@ EXCEPT !.audit = "unavailable"],
                    "storage", j \in aborted)]
    /\ Finalize(j)
    /\ RunFrame

\* finishQueued once its "blocked" event settles: out of the active map, then
\* saved.
FinishAudited(j, c, ok) ==
    /\ phase = "up" /\ fin[j][c] = "audit"
    /\ TerminalEvent(j, ok)
    /\ rec' = [rec EXCEPT ![j].audit = IF ok THEN "confirmed" ELSE "unavailable"]
    /\ Leaves(j)
    /\ fin' = [fin EXCEPT ![j][c] = "save"]
    /\ storeQ' = Append(storeQ, Op(j, c))
    /\ UNCHANGED <<run, outcome, capacity, spawned>>
    /\ RunFrame

-----------------------------------------------------------------------------
(* Clients, synchronous commands, leases and the life of the process        *)

\* cancel(): a queued job is finished, a started one is asked to stop.
Cancel(j) ==
    /\ phase = "up" /\ ~fault /\ j \in known \cap active
    /\ \/ /\ rec[j].state = "queued"
          /\ rec' = [rec EXCEPT ![j].state = "cancelled"]
          /\ fin' = [fin EXCEPT ![j]["client"] = "audit"]
          /\ UNCHANGED aborted
       \/ /\ rec[j].state \in {"starting", "running"}
          /\ rec' = [rec EXCEPT ![j].term = "requested"]
          /\ aborted' = aborted \cup {j}
          /\ UNCHANGED fin
    /\ UNCHANGED <<process, fault, known, active, rank, sub, run, outcome, pumping,
                   capacity, mode, store, audit, identities, spawned, forgotten>>

Unstarted_All == active
Unstarted == {j \in active : run[j] = "idle"}

\* shutdown(): abort what has an operation, finish everything else in the
\* active map, whether or not someone is already finishing it.
Shutdown ==
    /\ phase = "up" /\ ~stopping /\ "shutdown" \in Faults
    /\ stopping' = TRUE
    /\ aborted' = aborted \cup (active \ Unstarted)
    /\ rec' = [j \in Jobs |-> IF j \in Unstarted THEN [rec[j] EXCEPT !.state = "cancelled"]
                              ELSE rec[j]]
    /\ fin' = [j \in Jobs |-> IF j \in Unstarted THEN [fin[j] EXCEPT !["shutdown"] = "audit"]
                              ELSE fin[j]]
    /\ UNCHANGED <<phase, restarts, fault, known, active, rank, sub, run, outcome,
                   pumping, capacity, mode, store, audit, identities, spawned, forgotten>>

SyncFrame == UNCHANGED <<process, fault, records, programs, slot, store, audit,
                         identities, spawned, forgotten>>

\* execute(): capacity is checked and taken in one turn.
SyncStarts == /\ phase = "up" /\ sync < MaxSync /\ Slots > 0
              /\ sync' = sync + 1 /\ UNCHANGED mode /\ SyncFrame

SyncEnds_Twice == /\ phase = "up" /\ sync >= 0
                  /\ sync' = sync - 1 /\ UNCHANGED mode /\ SyncFrame
SyncEnds == /\ phase = "up" /\ sync > 0
            /\ sync' = sync - 1 /\ UNCHANGED mode /\ SyncFrame

\* A temporary lease opens, expires or is revoked.
ModeChanges == /\ phase = "up"
               /\ mode' \in Modes \ {mode}
               /\ UNCHANGED sync /\ SyncFrame

\* The process is gone: killed, or done with shutdown, which waits for what
\* is in flight but no longer than its deadline.
Stop ==
    /\ phase' = "down"
    /\ rec' = [j \in Jobs |-> NoRecord]
    /\ known' = {} /\ active' = {}
    /\ rank' = [j \in Jobs |-> 0]
    /\ aborted' = {}
    /\ sub' = [j \in Jobs |-> "idle"]
    /\ run' = [j \in Jobs |-> "idle"]
    /\ outcome' = [j \in Jobs |-> "none"]
    /\ fin' = [j \in Jobs |-> [c \in Closers |-> "idle"]]
    /\ pumping' = "idle"
    /\ slot' = [j \in Jobs |-> "none"] /\ sync' = 0
    /\ storeQ' = <<>> /\ head' = "idle" /\ snap' = NoRecord /\ storeFailed' = FALSE
    /\ auditUp' = TRUE /\ stopping' = FALSE /\ fault' = FALSE
    /\ UNCHANGED <<restarts, mode, disk, attempted, terminals, identities, spawned,
                   forgotten>>

Crash == phase \in {"boot", "up"} /\ "crash" \in Faults /\ Stop
Exit  == phase = "up" /\ stopping /\ Stop

Restart ==
    /\ phase = "down" /\ restarts < MaxRestarts
    /\ phase' = "boot" /\ restarts' = restarts + 1
    /\ UNCHANGED <<stopping, fault, records, programs, capacity, mode, store, audit,
                   identities, spawned, forgotten>>

BootFrame == UNCHANGED <<restarts, stopping, fault, rank, programs, capacity, mode,
                         storeQ, head, snap, storeFailed, audit, identities, spawned>>

OnDisk == {j \in Jobs : disk[j].state # "absent"}

\* initialize() reads one record: an unfinished one becomes interrupted and is
\* saved, and two records with the same request stop the service.
BootReads(j) ==
    /\ phase = "boot" /\ j \in OnDisk \ known
    /\ ~\E k \in known : req[k] = req[j]
    /\ LET r == IF disk[j].state \in Live THEN Interrupted ELSE disk[j] IN
       /\ rec' = [rec EXCEPT ![j] = r]
       /\ disk' = [disk EXCEPT ![j] = r]
    /\ known' = known \cup {j}
    /\ UNCHANGED <<phase, active, forgotten>>
    /\ BootFrame

\* Every record is read and aged ones are removed: the service opens.  A
\* record interrupted just now has its day before it; one interrupted by an
\* earlier start is left to the next cleanup.
BootCompletes ==
    /\ phase = "boot" /\ OnDisk \subseteq known
    /\ \E gone \in SUBSET {j \in Aged : rec[j].state # "interrupted"} :
          /\ disk' = Without(gone)
          /\ known' = known \ gone
          /\ forgotten' = forgotten \cup gone
    /\ phase' = "up"
    /\ UNCHANGED <<rec, active>>
    /\ BootFrame

-----------------------------------------------------------------------------
Init ==
    /\ phase = "boot" /\ restarts = 0 /\ stopping = FALSE /\ fault = FALSE
    /\ rec = [j \in Jobs |-> NoRecord] /\ disk = rec
    /\ known = {} /\ active = {} /\ aborted = {}
    /\ rank = [j \in Jobs |-> 0]
    /\ sub = [j \in Jobs |-> "idle"] /\ run = sub
    /\ outcome = [j \in Jobs |-> "none"]
    /\ fin = [j \in Jobs |-> [c \in Closers |-> "idle"]]
    /\ pumping = "idle"
    /\ slot = [j \in Jobs |-> "none"] /\ sync = 0
    /\ mode \in Modes
    /\ auditUp = TRUE /\ attempted = {} /\ terminals = [j \in Jobs |-> 0]
    /\ storeQ = <<>> /\ head = "idle" /\ snap = NoRecord /\ storeFailed = FALSE
    /\ req = [j \in Jobs |-> NoRequest]
    /\ jobMode = [j \in Jobs |-> mode]
    /\ spawned = [j \in Jobs |-> 0]
    /\ forgotten = {}

Submission(j) ==
    \/ \E ok \in BOOLEAN : AttemptAudited(j, ok) \/ RefusalAudited(j, ok)
    \/ Admit(j) \/ Refuse(j)

Running(j) ==
    \/ Spawn(j) \/ ExecutorRefuses(j)
    \/ \E o \in Outcomes : ChildEnds(j, o)
    \/ TerminationFails(j)
    \/ \E ok \in BOOLEAN :
          CompletionAudited(j, ok) \/ FailureAudited(j, ok) \/ OrphanAudited(j, ok)

Finishing(j) == \E c \in Closers, ok \in BOOLEAN : FinishAudited(j, c, ok)

Pumping == Pump \/ PumpResumes \/ PumpCleans
Storing == StoreBegins \/ StoreCommits \/ StoreFails \/ StoreTimesOut
           \/ StoreEndsLate \/ StoreRefuses
Client(j) == (\E r \in Requests : Submit(j, r)) \/ Cancel(j)
Boot == (\E j \in Jobs : BootReads(j)) \/ BootCompletes
Lifecycle == Shutdown \/ Exit \/ Crash \/ Restart \/ Boot
Environment == SyncStarts \/ SyncEnds \/ ModeChanges

Next ==
    \/ \E j \in Jobs : \/ Client(j) \/ Submission(j) \/ Running(j)
                       \/ Finishing(j) \/ QuarantineReleases(j)
    \/ Pumping \/ Storing \/ Lifecycle \/ Environment

Spec == Init /\ [][Next]_vars

\* Node's timers and microtasks keep every started chain of awaits moving:
\* the 250 ms pump timer, the 5 s storage timer, the audit deadlines, the
\* command timeout with its bounded termination, the 15 s shutdown deadline.
\* Nothing is assumed of clients, leases, crashes or faults.
\* One weakly fair progress action is enough, since no chain of awaits goes
\* on for ever.
Progress ==
    \/ \E j \in Jobs : Submission(j) \/ Running(j) \/ Finishing(j)
    \/ Pump \/ PumpResumes \/ Storing \/ SyncEnds \/ Exit \/ Boot

Fairness == WF_vars(Progress)

FairSpec == Spec /\ Fairness

-----------------------------------------------------------------------------
(* Properties                                                               *)

Tickets == [job : Jobs, op : Ops]

ProcessType ==
    /\ phase \in {"down", "boot", "up"} /\ restarts \in Nat
    /\ stopping \in BOOLEAN /\ fault \in BOOLEAN /\ mode \in Modes

RecordsType ==
    /\ rec \in [Jobs -> Record] /\ disk \in [Jobs -> Record] /\ snap \in Record
    /\ known \subseteq Jobs /\ active \subseteq Jobs /\ aborted \subseteq Jobs
    /\ rank \in [Jobs -> Nat]

ProgramsType ==
    /\ sub \in [Jobs -> Pending \cup {"idle", "accepted", "refused"}]
    /\ run \in [Jobs -> RunSteps]
    /\ outcome \in [Jobs -> Outcomes]
    /\ fin \in [Jobs -> [Closers -> {"idle", "audit", "save", "end"}]]
    /\ pumping \in {"idle", "cleanup", "closing", "resume"}

CapacityType ==
    /\ slot \in [Jobs -> {"none", "reserved", "active", "quarantined"}]
    /\ sync \in Nat

StoreType ==
    /\ storeQ \in Seq(Tickets) /\ head \in {"idle", "busy", "late"}
    /\ head # "idle" => storeQ # <<>>
    /\ storeFailed \in BOOLEAN

HistoryType ==
    /\ auditUp \in BOOLEAN /\ attempted \subseteq Jobs /\ forgotten \subseteq Jobs
    /\ req \in [Jobs -> Requests \cup {NoRequest}] /\ jobMode \in [Jobs -> Modes]
    /\ terminals \in [Jobs -> Nat] /\ spawned \in [Jobs -> Nat]

\* Every variable has its type, and the store is only busy with an operation
\* of its queue.
TypeOK == /\ ProcessType /\ RecordsType /\ ProgramsType /\ CapacityType
          /\ StoreType /\ HistoryType

\* While a command runs, its audit attempt is written and its record file
\* says "running", although the pump may start a job before its acceptance
\* is durable and a failed store operation lets the next one start.
DurableBeforeSpawn ==
    \A j \in Jobs : run[j] = "child" =>
        /\ j \in attempted /\ j \in known
        /\ disk[j].state = "running"

\* output() hands out a result only when the very same record is in the file,
\* its command ran, and its one terminal audit event is written: also after
\* late writes, storage faults and restarts.
Readable(j) == /\ j \in known \ active
               /\ rec[j].audit = "confirmed" /\ rec[j].result

OutputIsDurable ==
    \A j \in Jobs : Readable(j) =>
        disk[j] = rec[j] /\ spawned[j] = 1 /\ terminals[j] = 1

\* A job whose command was started never gets two terminal audit events,
\* whoever cancels, expires, shuts down or fails around it.
OneTerminalPerRun == \A j \in Jobs : spawned[j] > 0 => terminals[j] <= 1

\* A job's command is started at most once, over all restarts.
StartedOnce == \A j \in Jobs : spawned[j] <= 1

\* Two jobs of one request are both started only when the record of one was
\* removed after its retention: a retry recovers the job, also when the first
\* answer was lost, its acceptance timed out or the service restarted.
RetriesRecover ==
    \A i, j \in Jobs :
        i # j /\ req[i] = req[j] /\ spawned[i] > 0 /\ spawned[j] > 0
            => i \in forgotten \/ j \in forgotten

\* No two record files carry the same request: initialize() would refuse to
\* start the service for good.
StoreAlwaysOpens ==
    \A i, j \in OnDisk : i # j => req[i] # req[j]

\* Jobs and synchronous commands together, with reservations and quarantine,
\* never exceed the shared capacity, unfinished jobs never exceed theirs, and
\* neither the records in memory nor those in the files exceed the limit of
\* records, although a record written late is in the files only.
WithinCapacity ==
    /\ InUse <= MaxParallel
    /\ Cardinality(active) <= MaxActive
    /\ Cardinality(known) <= MaxRecords /\ Cardinality(OnDisk) <= MaxRecords

\* Capacity is neither leaked nor given back early: a reservation belongs to
\* a job on its way to the executor, active capacity to a running child.
SlotsAccounted ==
    \A j \in Jobs :
        /\ slot[j] = "reserved" => run[j] \in {"starting", "running", "mode", "orphan"}
        /\ slot[j] = "active" <=> run[j] = "child"
        /\ run[j] \in {"starting", "running", "mode"} => slot[j] = "reserved"

\* A job that still holds quarantined capacity reports unknown termination
\* once it is finished, unless the audit log failed.
QuarantineReported ==
    \A j \in Jobs : slot[j] = "quarantined" /\ run[j] \in {"final", "end"} =>
        rec[j].term = "unknown" \/ rec[j].audit = "unavailable"

\* A finished job does not become unfinished again in memory.
ClosedStaysClosed ==
    [][\A j \in Jobs : j \in known /\ rec[j].state \in Terminal /\ j \in known'
          => rec'[j].state \in Terminal]_vars

\* The life of each job as a client can rely on it over restarts.
Contract == INSTANCE JobContract WITH
    durable <- [j \in Jobs |->
        IF j \in forgotten THEN "removed"
        ELSE IF disk[j].state = "absent" THEN "none"
        ELSE IF disk[j].state \in Live THEN "open"
        ELSE IF disk[j].result THEN "published" ELSE "closed"],
    started <- {j \in Jobs : spawned[j] > 0}

ContractHolds == Contract!Spec

\* A submission is answered, and when that admits a job the job leaves the
\* active map, whatever the store and the audit log do: only a latched storage
\* fault or the end of the process leaves a job to the next start.
JobsSettle ==
    \A j \in Jobs : (sub[j] \in Pending \/ j \in active) ~>
        sub[j] \notin Pending /\ (j \notin active \/ fault \/ phase # "up")

\* Capacity taken for a job is given back or passes to the quarantine.
CapacityReturns ==
    \A j \in Jobs : slot[j] \in {"reserved", "active"} ~>
                       slot[j] \in {"none", "quarantined"}

-----------------------------------------------------------------------------
(* What the documentation says and the code does not do                     *)

\* docs/background-jobs.md: every job has one terminal audit event.
UniqueTerminal == \A j \in Jobs : terminals[j] <= 1

\* docs/background-jobs.md: storage failure requests termination of running
\* jobs.
StorageFaultAborts ==
    fault => \A j \in Jobs : run[j] = "child" => j \in aborted

\* docs/background-jobs.md: only confirmed termination reports confirmed.
ConfirmedMeansGone ==
    \A j \in Jobs : rec[j].term = "confirmed" => slot[j] # "quarantined"
=============================================================================
