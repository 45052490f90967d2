# Verification of CommandBridge

CommandBridge is a Node.js service that runs shell commands for MCP clients on
an administered host. This directory holds TLA+ models of its stateful core,
TLC configurations that check them, and TLAPS proofs of what matters most.

## The system

One Node process; its handlers interleave at every `await`. Paths are relative
to `src/services` unless they say otherwise.

| Component | State | Operations | Interacts with |
|---|---|---|---|
| Background jobs, `backgroundJobs.ts` | `records`, `active`, `submissions`, `stopping`, `fault`, `pumping` | `start`, `pump`, `run`, `finishQueued`, `cancel`, `output`, `shutdown`, `initialize` | store, executor, audit log |
| Job store, `jobStore.ts` | `queue`, `failed`, `lockId`; record files | `operation`, `acquire`, `read`, `save`, `remove`, `drain` | file system |
| Command executor, `commandExecutor.ts` | `activeCommands`, `reservedCommands`, `running`, `pending`, `stopping` | `execute`, `executeJob`, `reserveJobSlot`, `runProcess`, `readiness`, `shutdown` | every service below |
| Quarantine, `commandTermination.ts` | `entries` | `hold`, `refresh` | child processes |
| Bounded audit log, `boundedAuditLog.ts` | `queue`, `pending`, `unavailable` | `write`, `list`, `drain` | audit backends |
| Audit backends, `fileAuditLog.ts`, `auditLog.ts` | audit files, journald, Windows event log | `write`, `list` | file system, helper processes |
| Managed update, `managedUpdate.ts` | `pending`, `operations`, `accepted`, `stopping` | `start`, `status`, `shutdown` | root-owned controller, job service |
| Update controller, `scripts/managed-update` | update job records | `request`, `run`, `finish` | systemd or the Windows task scheduler |
| Temporary access, `temporaryAccess.ts` | `active`, `revoked`, `pending`, `generation` | `refresh`, `mode`, `stop` | lease file, audit log |
| Access CLI, `src/cli/access.ts` | lease file | open, close | temporary access |
| File transfer, `fileTransferService.ts` | operations in flight, temporary files | upload, download | audit log, file system |
| Diagnostics, readiness | one shared pending check, a short-lived result | `readiness`, diagnose | audit log |
| Policy, configuration, CLI, HTTP transport, MCP tools, installers | none, or state of the host | parsing, formatting, one-shot administration | |

What is hard here:

- *Interleaving at awaits.* Between a job's admission and its child there are
  two audit writes, two or three store operations and two lease reads. Any of
  cancel, shutdown, lease changes, other submissions and the pump timer can
  run in between.
- *Failure and timeout.* A store operation can fail, or time out and take
  effect later; an audit write can fail, or be reported failed and arrive.
  Both failures latch. Termination may stay unconfirmed.
- *Crash and restart.* Only the record files survive. Requests are retried with
  the same request ID.
- *Shared capacity.* Jobs reserve slots, convert them to active capacity, give
  them back, or leave them with the quarantine; synchronous commands take from
  the same pool.

- *Processes that need not obey.* A shell may leave descendants behind that hold
  its pipes, stay in its group, or belong to another user. What cannot be
  confirmed as gone keeps its slot.
- *Helpers of root.* An update outlives the service that asked for it. Its
  answer can be lost, its records are two files, and its worker and finalizer
  can be killed between them.

What makes each part correct: a job's command starts at most once and only
after its acceptance, attempt and running state are recorded; its result is
readable only when it is durable and audited; a retry recovers the job it
repeats; capacity is neither exceeded nor lost; a restart always opens the
store; shutdown and faults leave nobody waiting. A caller is told of an end only
when it is one, and what is on the audit trail is what happened. Rotation loses
only the oldest events. A file is published once, and reported as what it is.
Updates and background jobs exclude each other.

## Modules

| Module | Models |
|---|---|
| `BackgroundJobs` | job service, store queue, execution capacity, the audit events of a job, service life |
| `JobContract` | what a client may rely on about a job: the abstract specification |
| `MCBackgroundJobs` | the instance TLC checks |
| `BackgroundJobsProofs` | type correctness, single start and slot accounting, proved |
| `BackgroundJobsRecovery` | that the store always opens, a retry never runs twice and no limit is exceeded, proved |
| `BackgroundJobsContract` | the course of a job, its other safety properties, and the refinement of `JobContract`, proved |
| `TemporaryAccess` | the lease service with its callers, the access CLI and the lease file |
| `MCTemporaryAccess` | the instance TLC checks |
| `TemporaryAccessProofs` | its types and all its properties, proved |
| `CommandProcess` | `executeInternal`, `runProcess`, the termination of a process tree, the quarantine |
| `CommandProcessProofs` | its types and all its invariants, proved |
| `AuditTrail` | `BoundedAuditLog` over `FileAuditLog` or a helper of the host: a component without a next-state relation |
| `FileTransfer` | `FileTransferService`, composed with `AuditTrail` |
| `FileTransferProofs` | its types and those of its log, one transfer at a time, and that trail and answers tell the truth, proved |
| `FileTransferTrail` | what the audit log of `FileTransfer` keeps and what `list()` shows of it, proved |
| `ManagedUpdate` | `ManagedUpdateService`, the request helper, the unit with worker and finalizer, and their records |
| `ManagedUpdateProofs` | its types, that updates and jobs exclude each other, and what a pause ends with, proved |
| `MCCommandProcess`, `MCFileTransfer`, `MCManagedUpdate` | the instances TLC checks |

Where the modules meet:

- A lease changes the mode a job was admitted under, and `run` fails a job whose
  mode has changed. `BackgroundJobs` takes that change as an action of its
  environment; `TemporaryAccess` says when it happens.
- `BackgroundJobs` sees the executor as slots that are reserved, active, given
  back or left with the quarantine; `CommandProcess` has the processes behind
  them, and sees a job as a command whose slot was reserved before.
- `ManagedUpdate` has of the job service what `hasActive()` and
  `backgroundUpdatePending` exchange (`JobMoves`); `BackgroundJobs` lets the
  pending update refuse any job.
- `FileTransfer` writes its events through the whole of `AuditTrail`. The other
  modules have the log as its latch, which is what it is for them: an event is
  reported written or not, and after the first failure it is not.

### BackgroundJobs

A job ID stands for the UUID one submission draws. Each chain of awaits is a
program counter per job: `sub` for `startInternal`, `run` for `run()` with the
`executeInternal` it awaits, `fin` for `finishQueued` (one per caller: client,
pump or shutdown, since more than one can be in it), and `pumping` for the one
pass of `pump()`. An action is one turn of the event loop: everything from the
settling of an awaited promise to the next await.

| Code | Model |
|---|---|
| `start`, `startInternal` | `Submit`, `AttemptAudited`, `Admit`, `Refuse`, `RefusalAudited`, `AcceptSaved` |
| `pump` | `Pump`, `PumpResumes`, `PumpCleans`; a pass is `PumpPass` |
| `run` | `RunSaved` (its first two saves), `Spawn`, `ExecutorRefuses`, `ChildEnds`, `TerminationFails`, `CompletionAudited`, `FailureAudited`, `OrphanAudited`, `FinalSaved` |
| `finishQueued` | `FinishAudited`, `FinishSaved` |
| `cancel`, `shutdown` | `Cancel`, `Shutdown` |
| `initialize` | `BootReads`, `BootCompletes` |
| `JobStore.operation` | `StoreBegins`, `StoreCommits`, `StoreFails`, `StoreTimesOut`, `StoreEndsLate`, `StoreRefuses`; the settled operation resumes its caller through `Settle` |
| `execute` (synchronous) | `SyncStarts`, `SyncEnds` |

Abstractions:

- A record keeps its state, audit status, termination status and whether it
  has a result. Texts, sizes, timestamps and error codes are left out; the code
  behind `errorCode` is `outcome`.
- The policy checks (`validateJob`, `assertCommandAllowed`) may refuse any job
  when `Faults` holds `"refusal"`; so may a pending update and a timeout
  above the maximum. A disconnect or a lease changes nothing else.
- `save` serialises the record at some point between the start of its
  operation and its rename. The model writes the record as it was at the start
  or at the commit. Serialising and renaming are otherwise one step.
- Time appears as choice: a queued job may expire when `Faults` holds
  `"expiry"`; a record may be past its 24 hours when it holds `"aging"`, but
  only a terminal one with nothing in flight, and not after a storage failure,
  because no operation of this code lasts a day. Startup cleanup keeps a record
  that was interrupted just now.
- The audit log is its latch: the first failure makes every later write fail,
  and the event of the failing write may still arrive. The order in which
  pending writes settle is free.
- The store's timers fire in the order of the requests, so only the operation
  at the head can be the first to time out. After that, refused operations
  settle in any order.
- A failing operation latches `failed` two microtasks after its rejection,
  when the next operation in the queue has already passed its own check. The
  model lets that next operation start (`StoreFails`). The failing operation has
  left its file alone (`Rejected`), or had done its work when it looked at its
  deadline again (`Overran`, `jobStore.ts:26`).
- `Exit` covers an orderly drain and the 15-second deadline. `Crash` may happen
  at any point, also during startup. Children outlive the process in neither
  case as far as this model knows; what a restarted service knows of them is
  "interrupted".
- Operators named `X_Y` are slips of `X` that no action uses. Replacing `X`
  by one of them must break a property; that is how each property is shown to
  say something about the code.

`Faults` selects what the environment may do wrong, so each run explores one
family of faults deeply instead of all of them shallowly.

### JobContract

`durable` is what the record file says of a job (none, open, closed,
published, removed) and `started` the set of jobs whose command was started.
A file goes through one life; a command is started once, while its file is
open; output is published only for a started job. `ContractHolds` is the
refinement `Contract!Spec` under the mapping in `BackgroundJobs`: checked in
`JobsRestart`, and proved (`ServiceKeepsTheContract`).

### TemporaryAccess

A caller of `refresh` is a command (through `CommandExecutor`) or a run of the
access CLI (through `accessStatus`). `op` is the operation `pending` stands
for, with the record its current read has taken (`seen`), the lease being
opened (`text`) and whether its generation is gone (`stale`). The constant
`Faults` again selects what may go wrong.

| Code | Model |
|---|---|
| `refresh` | `Refresh`, `RefreshRejected`, `RefreshStopped`, `CallerDeadline` |
| `readWithinDeadline` | `ReadTakes`, `ReadDeadline` |
| `readAndApply`, first read | `FirstReadDiscarded`, `FirstReadRefused`, `FirstReadKeeps`, `FirstReadOverflows`, `FirstReadOpens` |
| its audit of the opening | `OpeningFails`, `OpeningAudited` |
| its second read | `SecondReadFails`, `SecondReadRefuses`, `RefusalSettles`, `Activate` |
| `mode`, and the timer that calls it | `Kept`, evaluated by `Decide`, `GrantTimer` and the status answers |
| `invalidate` | `Becomes`, `LifecycleSettles` |
| `stop` with the snapshot of what it waits for, end of the process | `Stop`, `Exit` (`awaited`), `Crash`, `Start` |
| `runAccess` | `CliWrites`, `CliUndoes`, `CliUnanswered`, `CliReplaced` |
| `writeAccessLease`, `readAccessLease` | `Publish`, `CliWriteFails`, `ReadTakes` |
| clocks and disk | `Tick`, `Adjust`, `Corrupt` |

Abstractions:

- Time passes in coarse ticks on two clocks. `Adjust` moves the wall clock
  alone. A timer may be late and is never early.
- Lease IDs are drawn in order. The ID of a closing record matters only for
  the limit on `revoked`. One ID never comes with two contents, because only
  the CLI writes the file.
- The content of a lease written by the CLI is computed in the turn of its
  rename, so `issuedAt` is the time of the rename.
- An audit write fails or not per event. The events of the commands
  themselves, and the policy, are left out.
- The CLI receives an answer and judges it in one step. What the status answer
  says beyond the mode and the ID is left out.
- A caller's own deadline (22 s at least) is longer than the read deadline
  (5 s), so `CallerDeadline` is possible only once the first read has ended.
- A labelling tool that fails after the rename, and an installation replaced
  while the CLI waits, are the faults `"label"` and `"replaced"`.
- The configured mode is never already unrestricted: no lease matters then.

### CommandProcess

Two things move on their own. The operating system owns `leader` (the shell),
`rest` (what it left behind: in the group, in the group without a pipe, outside
it with a pipe, or not to be signalled) and `ended` (both streams). The service
owns the rest; each of its actions is one handler. A settled termination
promise resumes its awaiters before the next handler (`Macrotask`).

| Code | Model |
|---|---|
| `reserveJobSlot`, `executeJob` | `Reserve`, `Release`, `ExecuteJob` |
| `executeInternal` | `Call`, `AttemptWritten` with `Admission`, `BlockedWritten`, `TerminalWritten` |
| `runProcess`: listeners of the child | `OutputLimit`, `DecodeFails`, `StreamsEnd`, `Close`, `CloseResumes` |
| its timer, `terminate`, `finishFailure` | `Timeout`, `Terminate`, `TerminationRejected`, `StreamDeadline` |
| `terminateProcessTree` | `FirstSignal`, `GroupChecked`, `SigKill`, `SigKillDenied`, `ToolEnds`, `ToolFails`, `Deadline` |
| `CommandQuarantine` | `FinishFailure` holds, `ReadsSize` and `Refresh` confirm |
| cancellation, `shutdown` | `ClientCancels`, `ShutdownBegins` |

Abstractions: clocks are left out; a timer may fire when it is armed and an
earlier one never after a later one. Output is whether it was cut short or could
not be decoded. A policy check may refuse any command (`"refusal"`). The audit log
is its latch. PIDs are not reused.

### AuditTrail and FileTransfer

`AuditTrail` has the queue of `BoundedAuditLog` (`Submit`, `OperationStarts`, `Ends`),
the callers' deadlines (`CallerDeadline`) and its latch; below it the steps of
`FileAuditLog.write` (`RemovesOldest`, one `Renames` for each generation, `Appends`, `Syncs`),
of which each may fail or be cut off, the helpers of the host
(`HelperWrites`, `HelperFails`), and `list()` of both (`Reads`). Its clients compose `Submit` and the
reply they get with steps of their own, as `FileTransfer` does.

| Code | Model |
|---|---|
| `perform` | `Call`, `Deadline`, the listener on the client's signal in `Interrupts` |
| `performInternal` | `Attempted`, `Root`, `Lock`, `Scan`, `Guarded`, `Release` with `Terminal`, `Closes`, `AttemptFails` |
| `upload` | `Create`, `Write`, `Link`, `Verify`, `Cleanup` |
| `download` | `Read` |
| `lockWindowsRoot` | `Lock`; its loss is an error of `Guarded` |
| `shutdown`, end of the process | `Shutdown`, `Restart` with `AuditRestarts` |

Abstractions:

- All transfers name one file. What may be wrong with a request is a choice made
  where the code looks.
- An event is its caller, its phase and `committed`. A line of a file is whole, or
  it cannot be parsed. One that was left without its end swallows the next.
- A helper's log keeps every event. Its reading helper sees at most
  `ReaderLines` of the newest lines, in either order; `same` says which neighbours
  share a millisecond, and `limitEvents` sorts as the code does. The IDs of the
  calls compare like their numbers.
- One `list()` is asked for while nothing else is pending. Shutdowns and restarts
  after the last transfer are left out.
- The order of an audit timer and of the storage is free, but a timer fires
  between handlers only.

### ManagedUpdate

The service, each run of the helper, systemd and the worker interleave at every
await, process step and rename. Job identifiers are those of the request that
made the helper run.

| Code | Model |
|---|---|
| `startInternal`, `dispatch` | `Start`, `Attempted`, `Acknowledged`, `DispatchFails`, `Answered` |
| `status`, `nativeUpdateAdapter.read` | `StatusReads` (the record), `ShowsUnit` (`systemctl show`), `StatusArrives`, with `Reported` and `Clears` |
| `busy`, `hasActive()` and the quarantine | `Busy`, `HasActive`; the jobs themselves are `JobMoves` |
| `update-request` under `flock`, `main("request")` | `TakesLock`, `SharesActive`, `Supersedes`, `Accepts`, `Starts`, `Undone` |
| `record()` | `Record` writes the job's file, `RenamesLatest` is the rename of `latest.json` |
| `main("run")`, `main("finish")`, the unit file | `ReadsLatest`, `Runs`, `Installed`, `Finishes`, `Stops`, `Killed` |
| restarts | `InstallerRestarts`, `StopsAndStarts`, `PowerLoss` |

Abstractions: one status request is on its way at a time, and only while it could
clear something. A job whose command is in the quarantine counts as one that has
not ended; the quarantine of other commands is among the refusals of `Attempted`.
A power loss keeps what was renamed. A restart of the service may end its helpers
with it (`HelpersEnd`: they are in its control group) or not. `systemctl` that fails
or is given up may have started the unit. A start that succeeds makes it active in
the same step: `--no-block` returns when the start is queued, and systemd takes it
up long before the next helper has started its own runtime and asks. The retention of old records, the logs and
what the installer installs are left out.

`PauseEndsWithUpdate` says when job admission may open again after an acceptance,
and names what the code does not guard against: a status request that was on its
way when the update was accepted (`asked.early`), an update recorded as one that
failed to start although its worker began, a worker of another update that was
shared without an identifier (`heard = 0`), and a restart of the service.

## Runs

The `Jobs` runs use `MaxParallel = 1`, and two jobs, or three where the limits
are the subject.

| Run | Faults | Shows |
|---|---|---|
| `JobsFaults` | store, shutdown, expiry, termination | `OneTerminalPerRun`, `SlotsAccounted`, `WithinCapacity`, `ClosedStaysClosed`: three submissions for one place in the active map and two records, and a synchronous command for the same slot |
| `JobsRestart` | crash, store, aging, audit, termination, expiry, refusal | `TypeOK`, `QuarantineReported`, `StartedOnce`, `RetriesRecover`, `StoreAlwaysOpens`, `OutputIsDurable`, `ContractHolds`: two submissions of one request, a synchronous command, a lease and one restart |
| `JobsLiveness` | store | `DurableBeforeSpawn`: two jobs in the queue of the store; `JobsSettle`, `CapacityReturns` under `FairSpec` |
| `JobsShutdownAudit` | shutdown | finding: two terminal events for one queued job |
| `JobsStorageFault` | store | finding: a failed acceptance does not stop running jobs |
| `JobsUnconfirmed` | termination, audit | finding: unconfirmed termination reported as confirmed |
| `AccessRaces` | slow, audit, corrupt | `CloseConfirmed`, `GrantStillPublished`, `CloseWinsOverOpening`, `LateNeverGrants`: two runs of the CLI, one command |
| `AccessLeases` | read, audit, crash, stop, label, replaced | `AccessType`, `NeverReactivated`, `AuditedFirst`, `GrantBounded`, `EndsSettledBeforeExit`: one run of the CLI, two commands, a clock adjustment, one restart |
| `AccessFailedOpen` | none | finding: a withdrawn open takes effect |
| `Commands` | all of the module | `TypeOK`, `ShellsWithinCapacity`, `HeldUntilGone`, `ToldOnlyWhenGone`, `AnswerOnRecord`, `ShutdownReachesAll`, and `ComesToRest` under `FairSpec` |
| `Transfers` | all of both modules | `TypeOK`, `TrailIsTail`, `ListingIsNewest`, `TerminalTellsTruth`, `OneAtATime`, and `AnsweredAnyway` under `FairSpec` |
| `Updates` | all of the module | `TypeOK`, `DispatchExcludesJobs`, `PauseEndsWithUpdate`, and `ReportedEnds` under `FairSpec` |

Two jobs are enough for what these properties compare: two submissions of one
request, one job holding the slot the other waits for, one operation behind
another in the store queue. One slot makes every reservation contended. The
constants `MaxSync` and `MaxRestarts` are bounds of the model; `MaxActive`
and `MaxRecords` are limits of the code (10 and 100 in the source). The proofs
below remove the bounds for the properties they cover. In `JobsFaults` each of the
limits can be exceeded by one more admission: three submissions pass the two
awaits before the check together, for one place in the active map and two
records, while a synchronous command and a quarantined child hold the slot.
Queue expiry makes the pump wait for an audit event and go on over a map that has
changed (`PumpResumes`). Symmetry over jobs, requests and modes is used in safety
runs only.

In the `Access` runs two runs of the CLI give every order of an open, a renewal
and a close around one operation of the service. A grant lasts one tick or two,
so that it can end by either clock and be read again after an adjustment. The
limit on `revoked` is 1024 in the source and two records here, so that
`FirstReadOverflows` is reached. `MaxTime`, `MaxJumps` and `MaxBoots` are
bounds of the model. `Spec` of `TemporaryAccess` states no fairness: every
property checked of it is a safety property.

`Commands` has two commands on one slot, so that every admission waits for the
end of the other command, on both platforms and with each kind of descendant
that makes a difference: one that keeps the group alive without a pipe
(`"quiet"`), one that keeps the pipes outside the group (`"escaped"`), and one
that refuses signals (`"privileged"`).

`Transfers` has two transfers, two pending operations (64 in the source), three
generations (five) of one event each, lists of two events and a reader of three
lines (1001). A generation is full after one event, so the four events of two
transfers rotate the oldest one out; a queue of two is full with two callers and
a list. Lists are asked for while no transfer is in the directory (`ListsDuring`;
no theorem depends on it): the steps there leave the log alone, so a list asked
for later would read the same generations, and events queue behind a list here
too. A restart before the first call is left out: it would only start over.

`Updates` has two requests, one job that is submitted again and again, and one
restart: enough for a second request to share, supersede or follow the update
of the first while a status of either is on its way.

Deadlock is not checked: the service really stops after an exit, and when every
request has been used.

Fairness of `BackgroundJobs` is weak fairness of one action, `Progress`: a turn that is due is
taken. It holds because Node's timers and microtasks drive every chain: the
250 ms pump, the store's 5 s timer, the audit deadlines, the command timeout
and its bounded termination, and the 15 s shutdown deadline. Nothing is assumed
of clients, leases, crashes or faults. One action is enough because no chain
of awaits goes on for ever. Liveness is checked with storage faults only;
unconfirmed termination may hold a slot for ever, as documented.

Fairness of `CommandProcess` is weak fairness of what the service does on its
own: audit writes settle, timers fire, a termination advances, the quarantine
timer runs, a reserved job goes on. No process has to exit and nobody has to
ask for a slot; `ComesToRest` holds all the same, because every wait for a
process has a timer.

Fairness of `FileTransfer` is weak fairness of the resumption of settled promises
(`Resumed`) and strong fairness of the timers (`SomeTimer`): a timer is disabled
while other handlers run, and the event loop comes back to it between them.
Storage, helpers and clients owe nothing, which is the point of `AnsweredAnyway`.

Fairness of `ManagedUpdate` is weak fairness of the unit alone: systemd ends the
worker after `TimeoutStartSec` and the finalizer after `TimeoutStopSec`. The service
and its helpers owe nothing.

## Findings

Where the run of a documented statement ends in a counterexample:

1. `UniqueTerminal`: `shutdown()` finishes a queued job that `cancel()` or the
   pump is already finishing; both write a terminal event.
2. `StorageFaultAborts`: a failed acceptance latches `fault` without `fail()`,
   so running jobs are not asked to stop.
3. `ConfirmedMeansGone`: when the audit event of a failed termination cannot be
   written, its error replaces the termination error, and the job reports
   confirmed termination while its slot is quarantined.
4. `FailedOpenStaysClosed`: the CLI withdraws an open whose status answer shows
   no grant. An operation that took its confirming read before the withdrawal
   still activates the lease, until the next refresh reads the close.

## Proofs

From `BackgroundJobsAssumption` alone (the limits are natural numbers, at least
one slot and one mode, finitely many jobs), for any number of jobs, requests,
restarts and any set of faults:

- `TypeCorrect`: `Spec => []TypeOK`. `TypeOK` is inductive: the store is busy
  only with an operation of its queue, so `Tail` and the head ticket are
  defined.
- `StartsAtMostOnce` and `CapacityAccounted` from the inductive invariant
  `StartInv` (`StartInvariant`). `StartedOnce` is not inductive: it needs that
  a job that can still start has not been started, which rests on the chain
  queued record, admission, submission, unused job ID. After a crash only
  `req` and `spawned` are left of that chain, so the invariant ties them
  together; the same parts say which program counters hold a slot.
- `CapacityInvariant`: `Bounded` is inductive with `StartInv`; the pump's pass
  reserves no more jobs than there are free slots, and a spawn uses the slot
  its own job gave back in the same turn.

- `StoreOpens` and `RetryNeverRunsTwice` from the inductive invariant `RecoveryInv`
  (`BackgroundJobsRecovery`). Both say that at most one job of a request leaves
  traces, and a trace may be in the file, in memory, or in an operation of
  the store that nobody waits for any more: an acceptance that timed out may
  create its file minutes later. So `Identity` ranges over all three (`InMemory`,
  `Touched`): of two jobs of one request at most one is present, and while no
  storage fault was reported, whatever left a trace is known, which is what the
  lookup of a retry relies on. `Kept`: the file of a job that was started stays
  until retention removes it. `QueueInv`: an operation in the queue that was not
  given up is awaited by its owner and is there once, hence a settlement answers
  exactly one caller. `Waking`: a crash leaves the store idle. Most steps are
  `Mild` to every job; the pump, the store and `initialize()` have lemmas of
  their own.

- `CapacityBounded` (`BackgroundJobsRecovery`) adds the retained records to
  `Bounded`. The number of files is not inductive: a file may still be written
  for a job that memory has forgotten. `RecordsInv` bounds what the files can
  become (`Reachable`): the files there are, and that of the operation that is in
  progress or that a failing store lets through (`Ahead`), within the limit. A job
  that is forgotten leaves the store failed, so no other file follows it.

- The course of a job (`BackgroundJobsContract`). `StepMoves` says once what a step
  may do to any job: one of the `Moves`, such as `Saves`, `Finishes` or
  `IsLost`. Most preservation lemmas argue over moves instead of over actions;
  what depends on the queue argues over the store's steps. One invariant each:
  - `QuarantineIsReported` from `CourseInv`: the three program counters and the
    record agree (`Orderly`), and a quarantined slot is evidenced in the record
    as soon as `run()` has settled.
  - `NothingRunsBeforeItIsDurable` from `DurableInv`. The pump may start a job
    whose acceptance is still being saved. `InOrder`: the acceptance is ahead of
    the start in the queue. When it fails, so has the store, which lets at
    most one more operation through, and that one is not enough to run.
    `Abandoned` and `Serialised` say what an operation in progress can still write.
  - `EndsAreToldOnce` from `EventsInv` (`Counted`): no terminal event before an end,
    and what has run has left `finishQueued` behind. Finding 1 is the other case: a
    job that never ran.
  - `FinishedStaysFinished` from `PlacesInv`, which also says that a removed job is
    over for good (`Over`).
  - `OutputOnlyIfDurable` from `OutputInv`: `Shown` relates the file and the record of
    each job, `Carried` says what the operation in progress will write. While the
    last save is pending the file still says running, afterwards it is the
    record; if the save fails or is given up, the result is withheld, and no
    later write brings it back.
  - `ServiceKeepsTheContract` from all of these: what a step does to a file is one turn
    of its life (`Turns`), and only `Spawn` starts a command (`OnlySpawnStarts`),
    while the file shows the job open.

From `TemporaryAccessAssumption`, for any number of commands and CLI runs, any
clocks and any faults:

- `CloseWins` and `LateGrantsNothing` from the inductive invariant `GrantInv`.
  That the opened lease was standing when its audit settled is known only
  through the confirming read, so the invariant says: in that phase, whatever
  equals the lease (the file, or what was read of it) was standing then. A
  lease taken back cannot come back, because a new record has a new ID; hence
  the parts on drawn IDs. `LateIsStale` ties an early answer to the
  generation that the later grant compares.

- `AccessTypeCorrect`, `NeverTwice`, `AuditedBeforeForce`, `FreeOnlyInTime`, `FreeOnlyUnderPublished`,
  `CloseLasts` and `ExitSettles` from `SafetyInv`. Its parts:
  `CliInv` counts the writes of the CLI (one write and at most one undoing write a
  run), so that the IDs suffice. `Quiet`: nothing is in force while a lease is
  being opened, after an operation was given up, or once the service stops.
  `Newest`: records are read in the order of their IDs, so a spent lease is never
  read while a newer one is in force; without it the branch of `readAndApply` that
  leaves the present grant alone on a spent record could answer with a replaced
  lease. `SpentOnce`: a lease that took effect is revoked, or its record is of
  an earlier boot; after a crash only the latter remains. `Held` and `SinceInv`: what the
  file held since an operation began is also on the account of every command
  that waits for it. `CloseInv`: after a confirmed close an operation in flight has
  been given up or has not read an open lease. `Settling`: a grant without a settled
  closing event is in force, or its event is pending. `Snapshotted`: once the
  service stops, everything pending is in the snapshot `stop()` waits for, because
  no grant comes into force behind it. Most parts need of a step only its kind
  (`Kinds`: ten ways to change the operation, the grant and the file), which
  `StepKinds` derives once. `ExitSettles` also uses `NoneIsNoGrant`.

From `CommandProcessAssumption`, for any finite number of commands, any
capacity, both platforms, any descendants and faults (`CommandProcessProofs`):

- `TypeCorrect`: `TypeOK` in its three parts is inductive. A settlement resets the
  variables of `runProcess`.
- `SlotHeldUntilGone`, `CallerToldOnlyWhenGone` and `ShutdownReaches` from `Sound`, which
  says of one command: a termination that is done leaves nobody in the group (on
  Windows no open stream), whatever ends a command requests a termination first,
  and a command leaves `running` gone or for the quarantine. The end of a
  command, once confirmed, stays so (`ConfirmedStays`), so the quarantine may
  forget it at any time.
- `CapacityKept`: the commands that run, are reserved, or are in the quarantine with
  an unconfirmed end (`Holding`) never exceed `MaxParallel`. Only an admission adds
  one, after it has counted them; the count is at least the cardinality of
  the union (`FiniteSlots`). A shell that is alive is in `Holding` by `Sound`.
- `AnswersAreRecorded` from `OnTrail`, which says for each place in `executeInternal` what
  is on record and which event comes next.

From `FileTransferAssumption` (`FileTransferProofs`):

- `OneTransfer`. `OneAtATime` counts transfers and is not inductive. `Acquired` says
  whose they are: who is at work in the directory holds `active`, and only its own
  last `finally` gives it back.
- `TypeCorrect` and `TrailTellsTruth` from the invariant of `SoundInvariant`.
  `QueueInv` says of the queue of the audit log that a caller waits exactly while its
  one operation that is not late is in it; without it an event could come from
  a caller that has moved on. `True` says of one transfer what its place in
  `performInternal` implies about the file (`Progress`), the events (`Recording`) and the
  answer (`Answered`), and every event the log holds, in a generation or in its
  queue, fits what became of its transfer. `FilesInv` bounds the generations
  under rotations and torn writes.

- `TrailStaysTail` (`FileTransferTrail`) from `LogInv` and `FreshInv`. `TrailIsTail` is
  about the past; what keeps it is about the events still to come. `FreshInv`: an
  event that was ever asked for belongs to a step its transfer has taken, so none is
  asked for twice, over restarts too. `OnceInv`: a pending event is on record only
  between its append and the end of its operation, and refused only when nothing will start
  it any more; without the latch a late operation could still write a refused event.
  `LinesInv`: lines and generations are in the order written, and a rename finds
  the next generation empty, so that a rotation cut off anywhere has overwritten
  nothing. `TearsInv` counts: an open line has its own tear still to its credit, which
  the next event uses up when it is appended to that line.
- `ListingStaysNewest` from the same invariants and `Listed`: while a list waits for its
  reader, nothing is written. The rest is about data. `ParsedPicks`: what is parsed of a
  file, of any length, is its readable events in their order. `CollectsNewest`: what is
  collected is all of the newest generations up to where there is more than asked for,
  newest first. `NewestFirstSorts`: the comparison of `limitEvents` is a strict order of
  all lines whatever the time stamps, so each line has a place of its own. `CutIsNewest`:
  the beginning of such a sequence is the newest there is to read.

  The library's induction theorems take an operator and cannot be used here.
  `Induct` says the same of a set of numbers, and follows from the well-foundedness
  of the strict subsets of an interval. With it `Iterates` shows that a function
  defined by recursion over numbers exists, so that `Parsed` and `Collected`, which
  are recursive functions, can be unfolded (`ParsedStarts`, `CollectedStarts`).

From `ManagedUpdateAssumption`: `TypeCorrect`, and `UpdatesExcludeJobs`.
`DispatchExcludesJobs` is inductive with `TypeOK`, whose last part ties the service's
wait for a helper to a request that is still waiting: without it an
acknowledgement could arrive when jobs have been admitted. `PauseHolds` proves
`PauseEndsWithUpdate` from `PauseInv`. `AskInv` is what it needs: a status asked for since
the acceptance shows an end only if the accepted update was over when it was read,
or the unit was down when it was asked for and still is; it is started again only
when every earlier update is over (`StartedAgain`).
That status read `latest.json`, so the rest (`Books`) says who may replace that file:
a helper accepts and starts only with the unit down and every other update over
(`Writing`), the worker and its finalizer write only of the job the file names
(`Working`), a pending record is either named there or its helper has failed or is
still starting, and what is over stays over (`OverStays`).

Only model-checked: liveness (`JobsSettle`, `CapacityReturns`, `ComesToRest`,
`AnsweredAnyway`, `ReportedEnds`), which TLAPS cannot handle. Every other property
of a passing run is a theorem.

## What is left

`JobOwner`: the owner record, `acquire` and `drain`, with two processes.

## Not modelled

The owner record of the job directory (the service unit and the installer run
one process for it), readiness and diagnostics (they read the host, share one
pending check, and affect nothing else), the Windows scripts of a managed
update, the retention of its old records, the redaction and validation of audit
events, command policy and profiles (pure text analysis; the model lets any check
refuse), configuration parsing, the HTTP transport and the MCP tools
(stateless), system information and text decoding, the management CLI and the
installers (one-shot scripts over the state of a host).
