--------------------------- MODULE ManagedUpdate ----------------------------
(***************************************************************************)
(* A managed update on Linux: ManagedUpdateService and its shared dispatch, *)
(* the background jobs it must keep out, the privileged request helper      *)
(* under its lock, the systemd unit with its worker and its finalizer, and  *)
(* the records they leave in /var/lib/command-bridge-update.                *)
(*                                                                         *)
(* The service, each request helper, systemd and the worker interleave at   *)
(* every await, process step and file rename. Job identifiers are those of  *)
(* the request that made the helper run, 0 for none.                        *)
(***************************************************************************)
EXTENDS Naturals, FiniteSets

CONSTANTS
    Requests,  \* calls of start(), numbered as they come
    Jobs,      \* background jobs, one after the other
    MaxRestarts, \* bound: restarts of the service or the machine
    Faults     \* "audit", "timeout", "refuse", "start", "kill"

ASSUME ManagedUpdateAssumption ==
    /\ Requests \subseteq Nat \ {0} /\ IsFiniteSet(Requests)
    /\ MaxRestarts \in Nat
    /\ Faults \subseteq {"audit", "timeout", "refuse", "start", "kill"}

Worker == 0
Ids    == Requests \cup {0}
Writers == Requests \cup {Worker}

VARIABLES
    req,       \* where startInternal is, and what its caller was told
    dispatch,  \* the helper whose answer this.pending awaits, 0 for none
    accepted,  \* this.accepted
    heard,     \* history: the job whose acceptance set it
    asked,     \* a status() on its way
    job,       \* of each submission, what hasActive() sees
    helper,    \* the request helpers
    ack,       \* the job a helper has printed
    file,      \* <jobId>.json
    latest,    \* latest.json
    saving,    \* of a process inside record(): what latest.json will be
    unit,      \* ActiveState of the unit
    worker,    \* what the unit's process is doing, and for which job
    restarts

service == <<req, dispatch, accepted, heard, asked, job>>
records == <<file, latest, saving>>
system  == <<unit, worker>>
vars    == <<service, helper, ack, records, system, restarts>>

Pending  == {"accepted", "running"}
Ended    == {"succeeded", "failed", "interrupted"}
States   == Pending \cup Ended \cup {"none"}
NoRecord == [id |-> 0, state |-> "none"]
NoStatus == [state |-> "none", named |-> FALSE, early |-> FALSE]
Idle     == [step |-> "none", id |-> 0]

Init ==
    /\ req = [r \in Requests |-> "idle"]
    /\ dispatch = 0 /\ accepted = FALSE /\ heard = 0 /\ asked = NoStatus
    /\ job = [j \in Jobs |-> "none"]
    /\ helper = [c \in Requests |-> "none"] /\ ack = [c \in Requests |-> 0]
    /\ file = [i \in Requests |-> "none"] /\ latest = NoRecord
    /\ saving = [w \in Writers |-> NoRecord]
    /\ unit = "inactive" /\ worker = Idle
    /\ restarts = 0

-----------------------------------------------------------------------------
(* ManagedUpdateService.                                                    *)

\* "failed" is every end without an acceptance, a lost call and one whose
\* acceptance could not be audited included.
Answers == {"failed", "accepted"}
Operations == {r \in Requests : req[r] \notin Answers \cup {"idle"}}

Busy_AfterAnswer == accepted
Busy == accepted \/ Operations # {}

\* submissions, active, the records that are queued or running, and the
\* quarantine. Bound: that of the commands that are no jobs is only the "refuse"
\* of Attempted.
HasActive == \E j \in Jobs : job[j] # "none"

Start(r) ==
    /\ req[r] = "idle" /\ \A q \in Requests : q < r => req[q] # "idle"
    /\ req' = [req EXCEPT ![r] = "attempting"]
    /\ UNCHANGED <<dispatch, accepted, heard, asked, job, helper, ack, records, system, restarts>>

\* The checks after the attempted event, and dispatch(), in one handler.
Attempted(r) ==
    /\ req[r] = "attempting"
    /\ \/ /\ "audit" \in Faults /\ req' = [req EXCEPT ![r] = "failed"]
          /\ UNCHANGED <<dispatch, helper>>
       \/ /\ HasActive \/ "refuse" \in Faults
          /\ req' = [req EXCEPT ![r] = "failing"] /\ UNCHANGED <<dispatch, helper>>
       \/ /\ ~HasActive /\ req' = [req EXCEPT ![r] = "dispatched"]
          /\ IF dispatch # 0 THEN UNCHANGED <<dispatch, helper>>
             ELSE dispatch' = r /\ helper' = [helper EXCEPT ![r] = "waiting"]
    /\ UNCHANGED <<accepted, heard, asked, job, ack, records, system, restarts>>

Resume(s) == req' = [r \in Requests |-> IF req[r] = "dispatched" THEN s ELSE req[r]]

Acknowledged ==
    /\ dispatch # 0 /\ helper[dispatch] = "replied"
    /\ Resume("recording") /\ dispatch' = 0
    /\ accepted' = TRUE /\ heard' = ack[dispatch]
    /\ asked' = [asked EXCEPT !.early = asked # NoStatus]
    /\ UNCHANGED <<job, helper, ack, records, system, restarts>>

\* The helper failed, or did not answer within 15 s; it is not stopped then,
\* for the service may not signal a process of root.
DispatchFails_StaysPending ==
    /\ dispatch # 0
    /\ helper[dispatch] = "failed" \/ "timeout" \in Faults
    /\ Resume("failing") /\ UNCHANGED dispatch
    /\ UNCHANGED <<accepted, heard, asked, job, helper, ack, records, system, restarts>>
DispatchFails ==
    /\ dispatch # 0
    /\ helper[dispatch] = "failed" \/ "timeout" \in Faults
    /\ Resume("failing") /\ dispatch' = 0
    /\ UNCHANGED <<accepted, heard, asked, job, helper, ack, records, system, restarts>>

Answered(r) ==
    /\ \/ req[r] = "recording" /\ req' = [req EXCEPT ![r] = "accepted"]
       \/ /\ req[r] = "failing" \/ (req[r] = "recording" /\ "audit" \in Faults)
          /\ req' = [req EXCEPT ![r] = "failed"]
    /\ UNCHANGED <<dispatch, accepted, heard, asked, job, helper, ack, records, system, restarts>>

\* status(): the record is read first, then, if it shows no end, the state of
\* the unit. Bound: one at a time, and only while there is something it could
\* clear.
StatusReads ==
    /\ asked = NoStatus /\ latest # NoRecord /\ Busy
    /\ \/ asked' = [state |-> latest.state, named |-> FALSE, early |-> FALSE]
       \/ \E i \in Requests :
             /\ file[i] \in Ended
             /\ asked' = [state |-> file[i], named |-> TRUE, early |-> FALSE]
    /\ UNCHANGED <<req, dispatch, accepted, heard, job, helper, ack, records, system, restarts>>

UnitActive == unit \in {"active", "stopping"}
Reported_AsRecorded(s) == s
Reported(s) == IF s \in Pending /\ ~UnitActive THEN "interrupted" ELSE s

\* An answer that shows no end changes nothing.
ShowsUnit ==
    /\ asked.state \in Pending
    /\ asked' = IF Reported(asked.state) \in Ended
                THEN [asked EXCEPT !.state = Reported(asked.state)] ELSE NoStatus
    /\ UNCHANGED <<req, dispatch, accepted, heard, job, helper, ack, records, system, restarts>>

Clears_Named(a) == a.state \in Ended
Clears(a)       == ~a.named /\ a.state \in Ended

StatusArrives ==
    /\ asked.state \in Ended /\ asked' = NoStatus
    /\ accepted' = IF Clears(asked) THEN FALSE ELSE accepted
    /\ UNCHANGED <<req, dispatch, heard, job, helper, ack, records, system, restarts>>

-----------------------------------------------------------------------------
(* What BackgroundJobs lets the updates see: a submission up to its audit   *)
(* event, its check of backgroundUpdatePending, its record, its end, and     *)
(* the quarantine of its command. "counted": hasActive() or the quarantine   *)
(* still counts a submission that was refused, or a job that has ended.      *)

Submits(j) == job[j] = "none" /\ job' = [job EXCEPT ![j] = "submitting"]
Admits(j)  == /\ job[j] = "submitting"
              /\ job' = [job EXCEPT ![j] = IF Busy THEN "counted" ELSE "live"]
Leaves(j)  == /\ job[j] \in {"live", "counted"}
              /\ job' = [job EXCEPT ![j] = "none"]
Quarantines(j) == job[j] = "live" /\ job' = [job EXCEPT ![j] = "counted"]
JobMoves(j) ==
    /\ Submits(j) \/ Admits(j) \/ Leaves(j) \/ Quarantines(j)
    /\ UNCHANGED <<req, dispatch, accepted, heard, asked, helper, ack, records, system, restarts>>

-----------------------------------------------------------------------------
(* record(): the job's own file, then latest.json.                          *)

Record(w, i, s) ==
    /\ file' = [file EXCEPT ![i] = s]
    /\ saving' = [saving EXCEPT ![w] = [id |-> i, state |-> s]]
    /\ UNCHANGED latest
Saved(w) == saving[w] = NoRecord

RenamesLatest(w) ==
    /\ ~Saved(w)
    /\ latest' = saving[w] /\ saving' = [saving EXCEPT ![w] = NoRecord]
    /\ UNCHANGED <<service, helper, ack, file, system, restarts>>

-----------------------------------------------------------------------------
(* The request helper, under flock.                                         *)

Locked  == \E c \in Requests : helper[c] \in {"checking", "accepting", "starting", "undoing"}
Helper(c, s) == helper' = [helper EXCEPT ![c] = s]

TakesLock(c) ==
    /\ helper[c] = "waiting"
    /\ \/ ~Locked /\ Helper(c, "checking")
       \/ Faults \cap {"timeout", "refuse"} # {} /\ Helper(c, "failed")
    /\ UNCHANGED <<service, ack, records, system, restarts>>

SharesActive(c) ==
    /\ helper[c] = "checking" /\ UnitActive
    /\ Helper(c, "replied") /\ ack' = [ack EXCEPT ![c] = latest.id]
    /\ UNCHANGED <<service, records, system, restarts>>

Supersedes(c) ==
    /\ helper[c] = "checking" /\ ~UnitActive
    /\ IF latest.state \in Pending THEN Record(c, latest.id, "interrupted")
                                   ELSE UNCHANGED records
    /\ Helper(c, "accepting")
    /\ UNCHANGED <<service, ack, system, restarts>>

Accepts(c) ==
    /\ helper[c] = "accepting" /\ Saved(c)
    /\ Record(c, c, "accepted") /\ Helper(c, "starting")
    /\ UNCHANGED <<service, ack, system, restarts>>

\* systemctl start --no-block: the unit becomes active with the request, if it
\* is not. A command that fails or is given up after 5 s may have started it.
\* Assumed: systemd starts the queued job before the next helper has come to ask
\* for the state of the unit.
Begins == IF unit = "inactive"
          THEN unit' = "active" /\ worker' = [step |-> "begin", id |-> 0]
          ELSE UNCHANGED system

Starts(c) ==
    /\ helper[c] = "starting" /\ Saved(c)
    /\ \/ /\ Begins /\ Helper(c, "replied") /\ ack' = [ack EXCEPT ![c] = c]
          /\ UNCHANGED records
       \/ /\ "start" \in Faults
          /\ UNCHANGED system \/ Begins
          /\ Record(c, c, "failed") /\ Helper(c, "undoing") /\ UNCHANGED ack
    /\ UNCHANGED <<service, restarts>>

Undone(c) ==
    /\ helper[c] = "undoing" /\ Saved(c) /\ Helper(c, "failed")
    /\ UNCHANGED <<service, ack, records, system, restarts>>

HelperMoves(c) == \/ TakesLock(c) \/ SharesActive(c) \/ Supersedes(c)
                  \/ Accepts(c) \/ Starts(c) \/ Undone(c)

-----------------------------------------------------------------------------
(* The unit: ExecStart= run, ExecStopPost= finish.                          *)

At(s)      == worker.step = s /\ Saved(Worker)
Goes(s, i) == worker' = [step |-> s, id |-> i]

ReadsLatest ==
    /\ At("begin")
    /\ IF latest.state = "accepted" THEN Goes("sleeping", latest.id) ELSE Goes("ended", 0)
    /\ UNCHANGED <<service, helper, ack, records, unit, restarts>>

\* After its 10 s the worker does not look at the record again.
Runs ==
    /\ At("sleeping")
    /\ \/ Record(Worker, worker.id, "running") /\ Goes("installing", worker.id)
       \/ "refuse" \in Faults /\ Goes("ended", 0) /\ UNCHANGED records
    /\ UNCHANGED <<service, helper, ack, unit, restarts>>

Installed ==
    /\ At("installing")
    /\ \E s \in {"succeeded", "failed"} : Record(Worker, worker.id, s)
    /\ Goes("ended", 0)
    /\ UNCHANGED <<service, helper, ack, unit, restarts>>

\* A crash, or TimeoutStartSec.
Killed ==
    /\ "kill" \in Faults /\ worker.step \in {"begin", "sleeping", "installing"}
    /\ Goes("ended", 0) /\ saving' = [saving EXCEPT ![Worker] = NoRecord]
    /\ UNCHANGED <<service, helper, ack, file, latest, unit, restarts>>

Finishes ==
    /\ At("ended")
    /\ unit' = "stopping" /\ Goes("finished", 0)
    /\ IF latest.state \in Pending THEN Record(Worker, latest.id, "interrupted")
                                   ELSE UNCHANGED records
    /\ UNCHANGED <<service, helper, ack, restarts>>

\* The finalizer is done, or was killed after TimeoutStopSec.
Stops ==
    /\ worker.step = "finished" /\ (Saved(Worker) \/ "kill" \in Faults)
    /\ unit' = "inactive" /\ worker' = Idle
    /\ saving' = [saving EXCEPT ![Worker] = NoRecord]
    /\ UNCHANGED <<service, helper, ack, file, latest, restarts>>

-----------------------------------------------------------------------------
(* Restarts: by the installer, of the service alone, of the machine.        *)

ServiceRestarts ==
    /\ restarts < MaxRestarts /\ restarts' = restarts + 1
    /\ req' = [r \in Requests |-> IF r \in Operations THEN "failed" ELSE req[r]]
    /\ job' = [j \in Jobs |-> "none"]
    /\ dispatch' = 0 /\ accepted' = FALSE /\ heard' = 0 /\ asked' = NoStatus

\* The helpers are in the control group of the service, unless sudo has moved
\* them to a session of their own.
HelpersEnd ==
    \/ UNCHANGED <<helper, saving>>
    \/ /\ helper' = [c \in Requests |-> IF helper[c] \in {"none", "replied"} THEN helper[c]
                                         ELSE "failed"]
       /\ saving' = [w \in Writers |-> IF w = Worker THEN saving[w] ELSE NoRecord]

InstallerRestarts ==
    /\ At("installing") /\ ServiceRestarts /\ HelpersEnd
    /\ UNCHANGED <<ack, file, latest, system>>

StopsAndStarts ==
    /\ ~At("installing") /\ ServiceRestarts /\ HelpersEnd
    /\ UNCHANGED <<ack, file, latest, system>>

PowerLoss ==
    /\ ServiceRestarts
    /\ helper' = [c \in Requests |-> IF helper[c] = "none" THEN "none" ELSE "failed"]
    /\ saving' = [w \in Writers |-> NoRecord]
    /\ unit' = "inactive" /\ worker' = Idle
    /\ UNCHANGED <<ack, file, latest>>

UnitMoves == \/ ReadsLatest \/ Runs \/ Installed \/ Finishes \/ Stops
             \/ RenamesLatest(Worker)

Next ==
    \/ \E r \in Requests :
          Start(r) \/ Attempted(r) \/ Answered(r) \/ HelperMoves(r) \/ RenamesLatest(r)
    \/ Acknowledged \/ DispatchFails \/ StatusReads \/ ShowsUnit \/ StatusArrives
    \/ \E j \in Jobs : JobMoves(j)
    \/ UnitMoves \/ Killed
    \/ InstallerRestarts \/ StopsAndStarts \/ PowerLoss

Spec == Init /\ [][Next]_vars

\* systemd ends the worker after TimeoutStartSec and the finalizer after
\* TimeoutStopSec, if they do not end before. Nothing else is promised.
Fairness == WF_vars(UnitMoves)
FairSpec == Spec /\ Fairness

-----------------------------------------------------------------------------
(* Properties.                                                              *)

ServiceTypeOK ==
    /\ req \in [Requests -> Answers \cup {"idle", "attempting", "dispatched",
                                          "recording", "failing"}]
    /\ dispatch \in Ids /\ accepted \in BOOLEAN /\ heard \in Ids
    /\ asked \in [state : States, named : BOOLEAN, early : BOOLEAN]
    /\ job \in [Jobs -> {"none", "submitting", "live", "counted"}]
    /\ dispatch # 0 <=> \E r \in Requests : req[r] = "dispatched"

RecordsTypeOK ==
    /\ helper \in [Requests -> {"none", "waiting", "checking", "accepting", "starting",
                                "undoing", "replied", "failed"}]
    /\ ack \in [Requests -> Ids]
    /\ file \in [Requests -> States] /\ latest \in [id : Ids, state : States]
    /\ saving \in [Writers -> [id : Ids, state : States]]

SystemTypeOK ==
    /\ unit \in {"inactive", "active", "stopping"}
    /\ worker \in [step : {"none", "begin", "sleeping", "installing", "ended", "finished"},
                   id : Ids]
    /\ restarts \in 0..MaxRestarts
    /\ unit = "inactive" <=> worker.step = "none"
    /\ unit = "stopping" <=> worker.step = "finished"

\* Every variable keeps its type; the service waits for a helper exactly when a
\* request waits for the service, and the unit has a process when it is active.
TypeOK == ServiceTypeOK /\ RecordsTypeOK /\ SystemTypeOK

\* While the service waits for the controller, and from then on until it
\* forgets the update, no background job is admitted, queued or running:
\* neither side's check can be overtaken by the other's awaits.
DispatchExcludesJobs ==
    accepted \/ (\E r \in Requests : req[r] \in {"dispatched", "recording"}) =>
        \A j \in Jobs : job[j] # "live"

\* Once an update is accepted, background jobs stay paused until it is over.
\* Before that the pause ends only with the process, by a status that was on its
\* way when the update was accepted, or for an update that was recorded as one
\* that failed to start although its worker had begun.
PauseEndsWithUpdate ==
    [][accepted /\ ~accepted' =>
          \/ heard = 0 \/ Reported(file[heard]) \notin Pending
          \/ asked.early \/ helper[heard] = "failed"
          \/ restarts' # restarts]_vars

\* A client that keeps asking for the latest update is told of its end, also
\* when the worker, its finalizer or the machine died on the way.
ReportedEnds == []<>(Reported(latest.state) \notin Pending)

=============================================================================
