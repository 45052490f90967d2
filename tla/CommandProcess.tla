--------------------------- MODULE CommandProcess ---------------------------
(***************************************************************************)
(* A command of CommandExecutor: executeInternal from its attempted audit   *)
(* event to its terminal one, runProcess with the events of its child       *)
(* process, terminateProcessTree on Linux and on Windows, and the           *)
(* CommandQuarantine that keeps the slot of a command whose end could not   *)
(* be confirmed.                                                            *)
(*                                                                         *)
(* Two things move on their own: the operating system (leader, rest, ended) *)
(* and the service, whose handlers run one at a time; the continuations of  *)
(* a settled termination promise run before the next handler (Macrotask).   *)
(* Clocks are left out: a timer may fire whenever it is armed, and an early *)
(* timer never fires after a later one (SIGKILL at 2 s, deadline at 5 s).   *)
(***************************************************************************)
EXTENDS Naturals, Sequences, FiniteSets

CONSTANTS
    Commands,     \* calls of execute() and executeJob(), numbered as they come
    MaxParallel,  \* COMMAND_BRIDGE_MAX_PARALLEL_COMMANDS
    Platforms,    \* process.platform, chosen once
    Kinds,        \* "sync" for execute(), "job" for executeJob()
    Descendants,  \* what a shell may leave running beside itself
    Faults        \* what the environment may do wrong

AllDescendants == {"none", "member", "quiet", "escaped", "privileged"}
FaultKinds     == {"audit", "spawn", "tool", "decode", "limit", "refusal"}

ASSUME CommandProcessAssumption ==
    /\ MaxParallel \in Nat \ {0}
    /\ Commands \subseteq Nat /\ IsFiniteSet(Commands)
    /\ Platforms \subseteq {"linux", "win32"} /\ Platforms # {}
    /\ Kinds \subseteq {"sync", "job"}
    /\ Descendants \subseteq AllDescendants /\ Descendants # {}
    /\ Faults \subseteq FaultKinds

VARIABLES
    platform,
    stopping,    \* shutdown() has been called
    auditUp,     \* BoundedAuditLog.available
    kind,        \* of each command
    step,        \* where executeInternal is
    outcome,     \* what its caller is told, or will be
    leader,      \* the shell: "none", "alive" or "exited" (seen by Node)
    rest,        \* what it left running, see Descendants
    ended,       \* both output streams have ended
    closed,      \* the close event came while the termination was pending
    term,        \* the termination promise
    cancelled,   \* by its client or by the shutdown
    timedOut, truncated, badOutput,  \* variables of runProcess
    quarantine,  \* CommandQuarantine.entries
    trail        \* the audit events of each command, in the order written

service == <<platform, stopping, auditUp>>
call    == <<kind, step, outcome>>
os      == <<leader, rest, ended>>
flags   == <<timedOut, truncated, cancelled, badOutput>>
vars    == <<service, call, os, closed, term, flags, quarantine, trail>>

Steps    == {"idle", "reserved", "attempting", "blocking", "running",
             "completing", "failing", "answered"}
Outcomes == {"none", "audit", "blocked", "start", "termination", "cancelled",
             "decode", "timeout", "truncated", "result", "released"}
Results  == {"timeout", "truncated", "result"}
Terms    == {"none", "signalled", "killed", "tool", "toolDone", "done", "denied"}
Phases   == {"attempted", "blocked", "completed", "failed"}

-----------------------------------------------------------------------------
(* The operating system's view of a command.                                *)

InGroup    == {"member", "quiet", "privileged"}
WithPipes  == {"member", "escaped", "privileged"}
GroupAlive(c) == leader[c] = "alive" \/ rest[c] \in InGroup
PipesHeld(c)  == leader[c] = "alive" \/ rest[c] \in WithPipes

\* kill(-pid) succeeds when one member may be signalled, EPERM when none may.
Signallable(c) == leader[c] = "alive" \/ rest[c] \in {"member", "quiet"}

ProcessAndPipesClosed(c) == leader[c] = "exited" /\ ended[c]

TerminationConfirmed_NoGroup(c) == ProcessAndPipesClosed(c)
TerminationConfirmed(c) ==
    ProcessAndPipesClosed(c) /\ (platform = "win32" \/ ~GroupAlive(c))

ShellExits(c) ==
    /\ leader[c] = "alive" /\ leader' = [leader EXCEPT ![c] = "exited"]
    /\ UNCHANGED <<service, call, rest, ended, closed, term, flags, quarantine, trail>>

DescendantExits(c) ==
    /\ rest[c] # "none" /\ rest' = [rest EXCEPT ![c] = "none"]
    /\ UNCHANGED <<service, call, leader, ended, closed, term, flags, quarantine, trail>>

-----------------------------------------------------------------------------
(* Capacity.                                                                *)

Active     == {c \in Commands : step[c] = "running"}
Reserved   == {c \in Commands : step[c] = "reserved"}
Unsettled  == {c \in quarantine : ~TerminationConfirmed(c)}

\* availableCommandSlots; reading the size of the quarantine refreshes it.
InUse(c)  == Cardinality(Active) + Cardinality(Reserved \ {c}) + Cardinality(Unsettled)
HasSlot_IgnoresQuarantine(c) ==
    /\ ~stopping /\ auditUp
    /\ Cardinality(Active) + Cardinality(Reserved \ {c}) < MaxParallel
HasSlot(c) == ~stopping /\ auditUp /\ InUse(c) < MaxParallel
ReadsSize == quarantine' = IF ~stopping /\ auditUp THEN Unsettled ELSE quarantine

\* A settled termination promise resumes its awaiters before anything else.
Resumes(c) == /\ step[c] = "running"
              /\ term[c] = "denied" \/ (closed[c] /\ term[c] = "done")
Macrotask  == \A c \in Commands : ~Resumes(c)

-----------------------------------------------------------------------------
(* Audit writes: the first failure latches the log; an event reported       *)
(* failed may still have been written.                                      *)

Written(c, p, ok) ==
    /\ IF ok THEN auditUp /\ UNCHANGED auditUp
       ELSE (auditUp => "audit" \in Faults) /\ auditUp' = FALSE
    /\ \/ (ok \/ auditUp) /\ trail' = [trail EXCEPT ![c] = Append(@, p)]
       \/ ~ok /\ UNCHANGED trail

Answers(c, told) == /\ step' = [step EXCEPT ![c] = "answered"]
                    /\ outcome' = [outcome EXCEPT ![c] = told]

-----------------------------------------------------------------------------
(* executeInternal: admission.                                              *)

Comes(c) == step[c] = "idle" /\ \A d \in Commands : d < c => step[d] # "idle"

Call(c) ==
    /\ Macrotask /\ "sync" \in Kinds
    /\ Comes(c)
    /\ step' = [step EXCEPT ![c] = "attempting"]
    /\ UNCHANGED <<service, kind, outcome, os, closed, term, flags,
                   quarantine, trail>>

\* reserveJobSlot(); the job's attempted event was written at submission.
Reserve(c) ==
    /\ Macrotask /\ "job" \in Kinds
    /\ Comes(c) /\ HasSlot(c)
    /\ step' = [step EXCEPT ![c] = "reserved"]
    /\ kind' = [kind EXCEPT ![c] = "job"]
    /\ trail' = [trail EXCEPT ![c] = <<"attempted">>]
    /\ ReadsSize
    /\ UNCHANGED <<service, outcome, os, closed, term, flags>>

\* A job that ends before it is executed gives its reservation back.
Release(c) ==
    /\ Macrotask /\ step[c] = "reserved"
    /\ Answers(c, "released")
    /\ UNCHANGED <<service, kind, os, closed, term, flags, quarantine, trail>>

Blocked(c) == /\ step' = [step EXCEPT ![c] = "blocking"]
              /\ outcome' = [outcome EXCEPT ![c] = "blocked"]
              /\ UNCHANGED os

Spawned(c) == /\ step' = [step EXCEPT ![c] = "running"]
              /\ leader' = [leader EXCEPT ![c] = "alive"]
              /\ \E d \in Descendants : rest' = [rest EXCEPT ![c] = d]
              /\ UNCHANGED <<outcome, ended>>

\* spawn() failed: the error event rejects before any other handler runs.
SpawnFails(c) == /\ "spawn" \in Faults
                 /\ step' = [step EXCEPT ![c] = "failing"]
                 /\ outcome' = [outcome EXCEPT ![c] = "start"]
                 /\ UNCHANGED os

\* Nothing is awaited between the checks and the spawn.
Admission_NoStopCheck(c) ==
    /\ ReadsSize
    /\ \/ ~stopping /\ ~HasSlot(c) /\ Blocked(c)
       \/ (HasSlot(c) \/ stopping) /\ (Spawned(c) \/ SpawnFails(c))
Admission(c) ==
    \/ (stopping \/ cancelled[c]) /\ Blocked(c) /\ UNCHANGED quarantine
    \/ /\ ~stopping /\ ~cancelled[c] /\ ReadsSize
       /\ \/ ~HasSlot(c) /\ Blocked(c)
          \/ HasSlot(c) /\ "refusal" \in Faults /\ Blocked(c)
          \/ HasSlot(c) /\ Spawned(c)
          \/ HasSlot(c) /\ SpawnFails(c)

AttemptWritten(c, ok) ==
    /\ Macrotask /\ step[c] = "attempting"
    /\ Written(c, "attempted", ok)
    /\ IF ok THEN Admission(c)
       ELSE Answers(c, "audit") /\ UNCHANGED <<os, quarantine>>
    /\ UNCHANGED <<platform, stopping, kind, closed, term, flags>>

ExecuteJob(c) ==
    /\ Macrotask /\ step[c] = "reserved"
    /\ Admission(c)
    /\ UNCHANGED <<service, kind, closed, term, flags, trail>>

BlockedWritten(c, ok) ==
    /\ Macrotask /\ step[c] = "blocking"
    /\ Written(c, "blocked", ok)
    /\ Answers(c, IF ok THEN "blocked" ELSE "audit")
    /\ UNCHANGED <<platform, stopping, kind, os, closed, term, flags, quarantine>>

-----------------------------------------------------------------------------
(* terminateProcessTree.                                                    *)

\* How the termination promise starts: signal the group, or run taskkill.
FirstSignal(c) ==
    IF platform = "win32" THEN IF ProcessAndPipesClosed(c) THEN "done" ELSE "tool"
    ELSE IF ~GroupAlive(c) THEN "done"
    ELSE IF Signallable(c) THEN "signalled" ELSE "denied"

\* terminate() of runProcess for every command of S: a termination is
\* requested once, whatever asks for it again.
Terminate(S) == term' = [c \in Commands |-> IF c \in S /\ term[c] = "none"
                                            THEN FirstSignal(c) ELSE term[c]]

Advances(c, t) ==
    /\ term' = [term EXCEPT ![c] = t]
    /\ UNCHANGED <<service, call, os, closed, flags, quarantine, trail>>

Terminating(c) == Macrotask /\ step[c] = "running"

\* The group is checked every 50 ms.
GroupChecked(c) ==
    /\ Terminating(c) /\ term[c] \in {"signalled", "killed"}
    /\ ~Signallable(c)
    /\ Advances(c, IF GroupAlive(c) THEN "denied" ELSE "done")

SigKill(c) ==
    /\ Terminating(c) /\ term[c] = "signalled"
    /\ Signallable(c) \/ ~GroupAlive(c)
    /\ Advances(c, "killed")

SigKillDenied(c) ==
    /\ Terminating(c) /\ term[c] = "signalled"
    /\ GroupAlive(c) /\ ~Signallable(c)
    /\ Advances(c, "denied")

\* taskkill ends, killed after 4 s if need be; its status is not read.
ToolEnds(c) ==
    /\ Terminating(c) /\ term[c] = "tool"
    /\ Advances(c, IF ProcessAndPipesClosed(c) THEN "done" ELSE "toolDone")

ToolFails(c) ==
    /\ Terminating(c) /\ term[c] = "tool" /\ "tool" \in Faults
    /\ Advances(c, "denied")

\* The five seconds are over.
Deadline(c) ==
    /\ Terminating(c) /\ term[c] \in {"killed", "toolDone"}
    /\ Advances(c, "denied")

-----------------------------------------------------------------------------
(* runProcess: the events of the child.                                     *)

Running(c) == Macrotask /\ step[c] = "running"

\* The first chunk past the output limit; a job goes on without its output.
OutputLimit(c) ==
    /\ Running(c) /\ "limit" \in Faults
    /\ ~ended[c] /\ ~truncated[c] /\ ~badOutput[c]
    /\ truncated' = [truncated EXCEPT ![c] = TRUE]
    /\ IF kind[c] = "sync" THEN Terminate({c}) ELSE UNCHANGED term
    /\ UNCHANGED <<service, call, os, closed, timedOut, cancelled, badOutput,
                   quarantine, trail>>

\* A chunk that is not text in the requested encoding.
DecodeFails(c) ==
    /\ Running(c) /\ "decode" \in Faults
    /\ ~ended[c] /\ ~badOutput[c]
    /\ badOutput' = [badOutput EXCEPT ![c] = TRUE]
    /\ Terminate({c})
    /\ UNCHANGED <<service, call, os, closed, timedOut, truncated, cancelled,
                   quarantine, trail>>

\* Both streams end.  An incomplete last character fails the decoding, unless
\* the output is known to be cut short, and requests no termination.
StreamsEnd(c) ==
    /\ leader[c] # "none" /\ ~ended[c] /\ ~PipesHeld(c)
    /\ ended' = [ended EXCEPT ![c] = TRUE]
    /\ \/ UNCHANGED badOutput
       \/ /\ Running(c) /\ "decode" \in Faults
          /\ ~(timedOut[c] \/ truncated[c] \/ cancelled[c])
          /\ badOutput' = [badOutput EXCEPT ![c] = TRUE]
    /\ UNCHANGED <<service, call, leader, rest, closed, term, timedOut, truncated,
                   cancelled, quarantine, trail>>

Timeout_NotCleared(c) ==
    /\ Macrotask /\ leader[c] # "none" /\ ~timedOut[c]
    /\ timedOut' = [timedOut EXCEPT ![c] = TRUE]
    /\ Terminate({c})
    /\ UNCHANGED <<service, call, os, closed, truncated, cancelled, badOutput,
                   quarantine, trail>>
Timeout(c) ==
    /\ Running(c) /\ ~timedOut[c]
    /\ timedOut' = [timedOut EXCEPT ![c] = TRUE]
    /\ Terminate({c})
    /\ UNCHANGED <<service, call, os, closed, truncated, cancelled, badOutput,
                   quarantine, trail>>

\* The client cancels its request, before its command starts or while it runs.
ClientCancels(c) ==
    /\ Macrotask /\ ~cancelled[c]
    /\ step[c] \in {"reserved", "attempting", "running"}
    /\ cancelled' = [cancelled EXCEPT ![c] = TRUE]
    /\ Terminate({c} \cap Active)
    /\ UNCHANGED <<service, call, os, closed, timedOut, truncated, badOutput,
                   quarantine, trail>>

-----------------------------------------------------------------------------
(* Settlement: one of the handlers below takes the command out of           *)
(* "running"; activeCommands goes down and the variables of runProcess go.  *)

Settles(c, o) ==
    /\ step' = [step EXCEPT ![c] = IF o \in Results THEN "completing" ELSE "failing"]
    /\ outcome' = [outcome EXCEPT ![c] = o]
    /\ closed' = [closed EXCEPT ![c] = FALSE]
    /\ timedOut' = [timedOut EXCEPT ![c] = FALSE]
    /\ truncated' = [truncated EXCEPT ![c] = FALSE]
    /\ cancelled' = [cancelled EXCEPT ![c] = FALSE]
    /\ badOutput' = [badOutput EXCEPT ![c] = FALSE]
    /\ UNCHANGED <<service, kind, os, term, trail>>

\* finishFailure(): the slot goes to the quarantine unless the end of the
\* process is certain by now.
FinishFailure_FreesSlot(c) ==
    Settles(c, "termination") /\ UNCHANGED quarantine
FinishFailure(c) ==
    /\ Settles(c, "termination")
    /\ quarantine' = IF TerminationConfirmed(c) THEN quarantine ELSE quarantine \cup {c}

ClosedOutcome(c) == CASE cancelled[c] -> "cancelled"
                      [] ~cancelled[c] /\ badOutput[c] -> "decode"
                      [] OTHER -> IF timedOut[c] THEN "timeout"
                                  ELSE IF truncated[c] THEN "truncated" ELSE "result"

\* The close event: at once, or when the pending termination settles.
Close_NoAwait(c) ==
    /\ Running(c) /\ ProcessAndPipesClosed(c) /\ ~closed[c]
    /\ Settles(c, ClosedOutcome(c)) /\ UNCHANGED quarantine
Close(c) ==
    /\ Running(c) /\ ProcessAndPipesClosed(c) /\ ~closed[c]
    /\ \/ /\ term[c] \in {"none", "done"}
          /\ Settles(c, ClosedOutcome(c)) /\ UNCHANGED quarantine
       \/ /\ term[c] \notin {"none", "done"}
          /\ closed' = [closed EXCEPT ![c] = TRUE]
          /\ term' = [term EXCEPT ![c] = IF @ = "toolDone" THEN "done" ELSE @]
          /\ UNCHANGED <<service, call, os, flags, quarantine, trail>>

CloseResumes(c) ==
    /\ Resumes(c) /\ term[c] = "done"
    /\ Settles(c, ClosedOutcome(c)) /\ UNCHANGED quarantine

TerminationRejected(c) ==
    /\ Resumes(c) /\ term[c] = "denied"
    /\ FinishFailure(c)

\* The group is gone, but the streams stay open for 500 ms more.
StreamDeadline(c) ==
    /\ Running(c) /\ term[c] = "done"
    /\ FinishFailure(c)

TerminalWritten_NotWithheld(c, ok) ==
    /\ Macrotask /\ step[c] \in {"completing", "failing"}
    /\ Written(c, IF step[c] = "completing" THEN "completed" ELSE "failed", ok)
    /\ Answers(c, outcome[c])
    /\ UNCHANGED <<platform, stopping, kind, os, closed, term, flags, quarantine>>
TerminalWritten(c, ok) ==
    /\ Macrotask /\ step[c] \in {"completing", "failing"}
    /\ Written(c, IF step[c] = "completing" THEN "completed" ELSE "failed", ok)
    /\ Answers(c, IF ok THEN outcome[c] ELSE "audit")
    /\ UNCHANGED <<platform, stopping, kind, os, closed, term, flags, quarantine>>

-----------------------------------------------------------------------------
(* The quarantine timer, once a second.                                     *)

Refresh_Never == /\ Macrotask /\ quarantine # {} /\ FALSE /\ UNCHANGED vars
Refresh ==
    /\ Macrotask /\ Unsettled # quarantine
    /\ quarantine' = Unsettled
    /\ UNCHANGED <<service, call, os, closed, term, flags, trail>>

-----------------------------------------------------------------------------
(* Shutdown.                                                                *)

ShutdownBegins_ForgetsRunning ==
    /\ Macrotask /\ ~stopping /\ stopping' = TRUE
    /\ UNCHANGED <<platform, auditUp, call, os, closed, term, flags, quarantine, trail>>
ShutdownBegins ==
    /\ Macrotask /\ ~stopping /\ stopping' = TRUE
    /\ cancelled' = [c \in Commands |-> cancelled[c] \/ c \in Active]
    /\ Terminate(Active)
    /\ UNCHANGED <<platform, auditUp, call, os, closed, timedOut, truncated,
                   badOutput, quarantine, trail>>

-----------------------------------------------------------------------------
Init ==
    /\ platform \in Platforms
    /\ stopping = FALSE /\ auditUp = TRUE
    /\ kind = [c \in Commands |-> "sync"]
    /\ step = [c \in Commands |-> "idle"]
    /\ outcome = [c \in Commands |-> "none"]
    /\ leader = [c \in Commands |-> "none"]
    /\ rest = [c \in Commands |-> "none"]
    /\ term = [c \in Commands |-> "none"]
    /\ trail = [c \in Commands |-> <<>>]
    /\ quarantine = {}
    /\ ended = [c \in Commands |-> FALSE] /\ closed = [c \in Commands |-> FALSE]
    /\ timedOut = [c \in Commands |-> FALSE] /\ truncated = [c \in Commands |-> FALSE]
    /\ cancelled = [c \in Commands |-> FALSE] /\ badOutput = [c \in Commands |-> FALSE]

Admit(c) == Call(c) \/ Reserve(c) \/ Release(c) \/ ExecuteJob(c)
Writes(c, ok) == AttemptWritten(c, ok) \/ BlockedWritten(c, ok) \/ TerminalWritten(c, ok)
System(c) == ShellExits(c) \/ DescendantExits(c) \/ StreamsEnd(c)
Child(c)  == \/ OutputLimit(c) \/ DecodeFails(c) \/ Timeout(c) \/ ClientCancels(c)
             \/ Close(c)
Kill(c)   == \/ GroupChecked(c) \/ SigKill(c) \/ SigKillDenied(c) \/ ToolEnds(c)
             \/ ToolFails(c) \/ Deadline(c)
Ends(c)   == CloseResumes(c) \/ TerminationRejected(c) \/ StreamDeadline(c)

Next ==
    \/ \E c \in Commands : \/ Admit(c) \/ System(c) \/ Child(c) \/ Kill(c) \/ Ends(c)
                           \/ \E ok \in BOOLEAN : Writes(c, ok)
    \/ Refresh \/ ShutdownBegins

Spec == Init /\ [][Next]_vars

\* Timers fire, awaited audit writes and promises settle, and a reserved job
\* goes on.  Nothing is assumed of the processes: no process has to exit.
Fairness ==
    /\ WF_vars(Refresh)
    /\ \A c \in Commands :
          /\ WF_vars(Release(c) \/ ExecuteJob(c))
          /\ WF_vars(\E ok \in BOOLEAN : Writes(c, ok))
          /\ WF_vars(Timeout(c)) /\ WF_vars(Close(c))
          /\ WF_vars(Kill(c)) /\ WF_vars(Ends(c))

FairSpec == Spec /\ Fairness

-----------------------------------------------------------------------------
(* Properties.                                                              *)

CallTypeOK ==
    /\ platform \in Platforms
    /\ stopping \in BOOLEAN /\ auditUp \in BOOLEAN
    /\ kind \in [Commands -> {"sync", "job"}]
    /\ step \in [Commands -> Steps] /\ outcome \in [Commands -> Outcomes]
    /\ quarantine \subseteq Commands
    /\ trail \in [Commands -> Seq(Phases)]

ProcessTypeOK ==
    /\ leader \in [Commands -> {"none", "alive", "exited"}]
    /\ rest \in [Commands -> AllDescendants]
    /\ term \in [Commands -> Terms]
    /\ ended \in [Commands -> BOOLEAN]

RunTypeOK ==
    /\ closed \in [Commands -> BOOLEAN] /\ timedOut \in [Commands -> BOOLEAN]
    /\ truncated \in [Commands -> BOOLEAN] /\ cancelled \in [Commands -> BOOLEAN]
    /\ badOutput \in [Commands -> BOOLEAN]
    /\ \A c \in Commands :
          timedOut[c] \/ truncated[c] \/ badOutput[c] \/ closed[c] => step[c] = "running"

\* The state of CommandExecutor and of its children has its types, and the
\* variables of runProcess are set only while it runs.
TypeOK == CallTypeOK /\ ProcessTypeOK /\ RunTypeOK

Settled(c) == leader[c] # "none" /\ step[c] \in {"completing", "failing", "answered"}

\* What an operator would call ended: no shell, no output to come and, where
\* the system has process groups, nobody left in the command's group.
Gone(c) == /\ leader[c] = "exited" /\ ended[c]
           /\ platform = "linux" => rest[c] \notin InGroup

\* No more shells run than MAX_PARALLEL_COMMANDS allows, those included whose
\* caller has long been told that the termination failed.
ShellsWithinCapacity ==
    Cardinality({c \in Commands : leader[c] = "alive"}) <= MaxParallel

\* A command whose termination was requested and that is no longer running
\* is either gone or still holds its slot in the quarantine.
HeldUntilGone ==
    \A c \in Commands :
       Settled(c) /\ term[c] # "none" => Gone(c) \/ c \in quarantine

\* The caller hears of a cancellation, or gets the result of a command that
\* was timed out or cut short by the service, only when the command is gone.
ToldOnlyWhenGone ==
    \A c \in Commands :
       /\ Settled(c)
       /\ \/ outcome[c] \in {"cancelled", "timeout"}
          \/ outcome[c] = "truncated" /\ kind[c] = "sync"
       => Gone(c)

\* An answer other than an audit failure is on record exactly once: the trail
\* of a command is its attempt and then the one event that matches its answer.
AnswerOnRecord ==
    \A c \in Commands :
       /\ leader[c] # "none" => trail[c] # <<>> /\ trail[c][1] = "attempted"
       /\ Len(trail[c]) <= 2
       /\ step[c] = "answered" /\ outcome[c] \notin {"audit", "released"} =>
             trail[c] = <<"attempted", CASE outcome[c] \in Results -> "completed"
                                         [] outcome[c] = "blocked" -> "blocked"
                                         [] OTHER -> "failed">>

\* Shutdown reaches every command: none runs on without a termination
\* request, and none starts behind the back of the loop over running.
ShutdownReachesAll ==
    stopping => \A c \in Commands : step[c] = "running" => term[c] # "none"

\* Whatever the processes do, the executor comes to rest again: every call is
\* answered, and no command that is gone still holds a slot, although nobody
\* may ask for one.
ComesToRest ==
    []<>(\A c \in Commands : /\ step[c] \in {"idle", "answered"}
                             /\ ~(c \in quarantine /\ Gone(c)))

=============================================================================
