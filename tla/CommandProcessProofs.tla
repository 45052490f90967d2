------------------------ MODULE CommandProcessProofs ------------------------
(***************************************************************************)
(* What CommandExecutor owes its callers and its host, for any number of    *)
(* commands, any capacity, either platform, any descendants and faults.     *)
(*                                                                         *)
(* The types come first, then what is true of each command on its own       *)
(* (Sound), then the trail of each command, then the slots (Holding), whose *)
(* number needs the facts on finite sets.                                   *)
(***************************************************************************)
EXTENDS CommandProcess, FiniteSetTheorems, TLAPS

USE DEF Steps, Outcomes, Results, Terms, Phases, AllDescendants

ByCommand(c) == \/ Admit(c) \/ System(c) \/ Child(c) \/ Kill(c) \/ Ends(c)
                \/ \E ok \in BOOLEAN : Writes(c, ok)

\* The types of the initial state.
LEMMA TypeInit == Init => TypeOK
  <1> SUFFICES ASSUME Init PROVE TypeOK
    OBVIOUS
  <1>1. <<>> \in Seq(Phases)
    OBVIOUS
  <1>2. CallTypeOK
    BY <1>1, CommandProcessAssumption DEF Init, CallTypeOK
  <1>3. ProcessTypeOK /\ RunTypeOK
    BY DEF Init, ProcessTypeOK, RunTypeOK
  <1> QED
    BY <1>2, <1>3 DEF TypeOK

\* What leaves a part's variables alone keeps its types.
LEMMA CallStays ==
  ASSUME CallTypeOK, UNCHANGED <<service, call, quarantine, trail>>
  PROVE  CallTypeOK'
  BY DEF CallTypeOK, service, call

LEMMA ProcessStays ==
  ASSUME ProcessTypeOK, UNCHANGED <<os, term>>
  PROVE  ProcessTypeOK'
  BY DEF ProcessTypeOK, os

\* A command that leaves "running" does so with its variables reset.
LEMMA RunStays ==
  ASSUME RunTypeOK, UNCHANGED <<closed, flags>>,
         \A c \in Commands : step[c] = "running" => step'[c] = "running"
  PROVE  RunTypeOK'
  BY DEF RunTypeOK, flags

\* terminate() starts a termination or leaves it as it is.
LEMMA TerminateType ==
  ASSUME ProcessTypeOK, NEW S, Terminate(S), UNCHANGED os
  PROVE  ProcessTypeOK'
  BY DEF ProcessTypeOK, Terminate, FirstSignal, os

LEMMA AdmissionType ==
  ASSUME TypeOK, NEW c \in Commands, Admission(c)
  PROVE  /\ step' \in [Commands -> Steps] /\ outcome' \in [Commands -> Outcomes]
         /\ leader' \in [Commands -> {"none", "alive", "exited"}]
         /\ rest' \in [Commands -> AllDescendants] /\ UNCHANGED ended
         /\ quarantine' \subseteq Commands
         /\ \A d \in Commands \ {c} : step'[d] = step[d]
  <1> USE DEF Admission, TypeOK, CallTypeOK, ProcessTypeOK, os
  <1>1. quarantine' \subseteq Commands
    BY DEF ReadsSize, Unsettled
  <1>2. CASE Blocked(c)
    BY <1>1, <1>2 DEF Blocked
  <1>3. CASE Spawned(c)
    BY <1>1, <1>3, CommandProcessAssumption DEF Spawned
  <1>4. CASE SpawnFails(c)
    BY <1>1, <1>4 DEF SpawnFails
  <1> QED
    BY <1>2, <1>3, <1>4

LEMMA WrittenType ==
  ASSUME TypeOK, NEW c \in Commands, NEW p \in Phases, NEW ok \in BOOLEAN,
         Written(c, p, ok)
  PROVE  auditUp' \in BOOLEAN /\ trail' \in [Commands -> Seq(Phases)]
  <1> USE DEF TypeOK, CallTypeOK
  <1>1. auditUp' \in BOOLEAN
    BY DEF Written
  <1>2. trail \in [Commands -> Seq(Phases)]
    OBVIOUS
  <1>3. Append(trail[c], p) \in Seq(Phases)
    BY <1>2
  <1> QED
    BY <1>1, <1>2, <1>3 DEF Written

\* Admission and the audit events of a command.
LEMMA AdmitType ==
  ASSUME TypeOK, NEW c \in Commands,
         Admit(c) \/ \E ok \in BOOLEAN : Writes(c, ok)
  PROVE  TypeOK'
  <1>1. CASE Call(c) \/ Reserve(c) \/ Release(c)
    <2>1. quarantine' \subseteq Commands /\ trail' \in [Commands -> Seq(Phases)]
      <3>1. <<"attempted">> \in Seq(Phases)
        OBVIOUS
      <3> QED
        BY <1>1, <3>1 DEF TypeOK, CallTypeOK, Call, Reserve, Release, ReadsSize, Unsettled
    <2>2. CallTypeOK'
      BY <1>1, <2>1 DEF TypeOK, CallTypeOK, Call, Reserve, Release, Answers, service
    <2>3. \A d \in Commands : step[d] = "running" => step'[d] = "running"
      BY <1>1 DEF TypeOK, CallTypeOK, Call, Reserve, Release, Comes, Answers
    <2> QED
      BY <1>1, <2>2, <2>3, ProcessStays, RunStays DEF TypeOK, Call, Reserve, Release
  <1>2. CASE ExecuteJob(c)
    <2>1. CallTypeOK'
      BY <1>2, AdmissionType DEF TypeOK, CallTypeOK, ExecuteJob, service
    <2>2. ProcessTypeOK'
      BY <1>2, AdmissionType DEF TypeOK, ProcessTypeOK, ExecuteJob
    <2>3. \A d \in Commands : step[d] = "running" => step'[d] = "running"
      BY <1>2, AdmissionType DEF ExecuteJob
    <2> QED
      BY <1>2, <2>1, <2>2, <2>3, RunStays DEF TypeOK, ExecuteJob
  <1>3. ASSUME NEW ok \in BOOLEAN, AttemptWritten(c, ok) PROVE TypeOK'
    <2>1. auditUp' \in BOOLEAN /\ trail' \in [Commands -> Seq(Phases)]
      BY <1>3, WrittenType DEF AttemptWritten
    <2>2. CASE ok
      <3>1. Admission(c)
        BY <1>3, <2>2 DEF AttemptWritten
      <3>2. CallTypeOK'
        BY <1>3, <2>1, <3>1, AdmissionType DEF TypeOK, CallTypeOK, AttemptWritten
      <3>3. ProcessTypeOK'
        BY <1>3, <3>1, AdmissionType DEF TypeOK, ProcessTypeOK, AttemptWritten
      <3>4. \A d \in Commands : step[d] = "running" => step'[d] = "running"
        BY <1>3, <3>1, AdmissionType DEF AttemptWritten
      <3> QED
        BY <1>3, <3>2, <3>3, <3>4, RunStays DEF TypeOK, AttemptWritten
    <2>3. CASE ~ok
      <3>1. CallTypeOK'
        BY <1>3, <2>1, <2>3 DEF TypeOK, CallTypeOK, AttemptWritten, Answers
      <3>2. \A d \in Commands : step[d] = "running" => step'[d] = "running"
        BY <1>3, <2>3 DEF TypeOK, CallTypeOK, AttemptWritten, Answers
      <3> QED
        BY <1>3, <2>3, <3>1, <3>2, ProcessStays, RunStays DEF TypeOK, AttemptWritten
    <2> QED
      BY <2>2, <2>3
  <1>4. ASSUME NEW ok \in BOOLEAN, BlockedWritten(c, ok) \/ TerminalWritten(c, ok)
        PROVE TypeOK'
    <2>1. auditUp' \in BOOLEAN /\ trail' \in [Commands -> Seq(Phases)]
      BY <1>4, WrittenType DEF BlockedWritten, TerminalWritten
    <2>2. CallTypeOK'
      BY <1>4, <2>1 DEF TypeOK, CallTypeOK, BlockedWritten, TerminalWritten, Answers
    <2>3. \A d \in Commands : step[d] = "running" => step'[d] = "running"
      BY <1>4 DEF TypeOK, CallTypeOK, BlockedWritten, TerminalWritten, Answers
    <2> QED
      BY <1>4, <2>2, <2>3, ProcessStays, RunStays DEF TypeOK, BlockedWritten, TerminalWritten
  <1> QED
    BY <1>1, <1>2, <1>3, <1>4 DEF Admit, Writes

\* The processes, the events of the child and the termination.
LEMMA ChildType ==
  ASSUME TypeOK, NEW c \in Commands, System(c) \/ Child(c) \/ Kill(c), ~Close(c)
  PROVE  TypeOK'
  <1>1. CallTypeOK'
    BY CallStays DEF TypeOK, System, Child, Kill, ShellExits, DescendantExits, StreamsEnd,
         OutputLimit, DecodeFails, Timeout, ClientCancels, GroupChecked, SigKill,
         SigKillDenied, ToolEnds, ToolFails, Deadline, Advances
  <1>2. UNCHANGED step
    BY DEF System, Child, Kill, ShellExits, DescendantExits, StreamsEnd,
         OutputLimit, DecodeFails, Timeout, ClientCancels, GroupChecked, SigKill,
         SigKillDenied, ToolEnds, ToolFails, Deadline, Advances, call
  <1>3. CASE System(c)
    <2>1. ProcessTypeOK'
      BY <1>3 DEF TypeOK, ProcessTypeOK, System, ShellExits, DescendantExits, StreamsEnd
    <2>2. RunTypeOK'
      BY <1>2, <1>3 DEF TypeOK, RunTypeOK, System, ShellExits, DescendantExits, StreamsEnd,
           Running, flags
    <2> QED
      BY <1>1, <2>1, <2>2 DEF TypeOK
  <1>4. CASE Child(c)
    <2>1. ProcessTypeOK'
      BY <1>4, TerminateType, ProcessStays DEF TypeOK, Child, OutputLimit, DecodeFails, Timeout,
           ClientCancels
    <2>2. RunTypeOK'
      BY <1>2, <1>4 DEF TypeOK, RunTypeOK, Child, OutputLimit, DecodeFails, Timeout,
           ClientCancels, Running
    <2> QED
      BY <1>1, <2>1, <2>2 DEF TypeOK
  <1>5. CASE Kill(c)
    <2>1. ProcessTypeOK'
      BY <1>5 DEF TypeOK, ProcessTypeOK, Kill, GroupChecked, SigKill, SigKillDenied,
           ToolEnds, ToolFails, Deadline, Advances, os
    <2>2. UNCHANGED <<closed, flags>>
      BY <1>5 DEF Kill, GroupChecked, SigKill, SigKillDenied, ToolEnds, ToolFails,
           Deadline, Advances
    <2> QED
      BY <1>1, <1>2, <2>1, <2>2, RunStays DEF TypeOK
  <1> QED
    BY <1>3, <1>4, <1>5

\* A settlement resets the variables of runProcess.
LEMMA SettlesType ==
  ASSUME TypeOK, NEW c \in Commands, NEW o \in Outcomes, Settles(c, o),
         quarantine' \subseteq Commands
  PROVE  TypeOK'
  <1>1. CallTypeOK'
    BY DEF TypeOK, CallTypeOK, Settles, service
  <1>2. RunTypeOK'
    BY DEF TypeOK, CallTypeOK, RunTypeOK, Settles
  <1> QED
    BY <1>1, <1>2, ProcessStays DEF TypeOK, Settles

LEMMA EndsType ==
  ASSUME TypeOK, NEW c \in Commands, Close(c) \/ Ends(c)
  PROVE  TypeOK'
  <1>1. ClosedOutcome(c) \in Outcomes
    BY DEF ClosedOutcome
  <1>2. CASE Settles(c, ClosedOutcome(c)) /\ UNCHANGED quarantine
    BY <1>1, <1>2, SettlesType DEF TypeOK, CallTypeOK
  <1>3. CASE FinishFailure(c)
    BY <1>3, SettlesType DEF FinishFailure, TypeOK, CallTypeOK
  <1>4. CASE /\ Running(c) /\ closed' = [closed EXCEPT ![c] = TRUE]
             /\ term' = [term EXCEPT ![c] = IF @ = "toolDone" THEN "done" ELSE @]
             /\ UNCHANGED <<service, call, os, flags, quarantine, trail>>
    <2>1. ProcessTypeOK'
      BY <1>4 DEF TypeOK, ProcessTypeOK, os
    <2>2. RunTypeOK'
      BY <1>4 DEF TypeOK, RunTypeOK, Running, call, flags
    <2> QED
      BY <1>4, <2>1, <2>2, CallStays DEF TypeOK
  <1> QED
    BY <1>2, <1>3, <1>4 DEF Close, Ends, CloseResumes, TerminationRejected, StreamDeadline

\* Every step keeps the types.
LEMMA TypeStep == TypeOK /\ [Next]_vars => TypeOK'
  <1> SUFFICES ASSUME TypeOK, [Next]_vars PROVE TypeOK'
    OBVIOUS
  <1>1. CASE \E c \in Commands : ByCommand(c)
    BY <1>1, AdmitType, ChildType, EndsType DEF ByCommand, Child
  <1>2. CASE Refresh
    <2>1. CallTypeOK'
      BY <1>2 DEF TypeOK, CallTypeOK, Refresh, Unsettled, service, call
    <2> QED
      BY <1>2, <2>1, ProcessStays, RunStays DEF TypeOK, Refresh, call
  <1>3. CASE ShutdownBegins
    <2>1. CallTypeOK' /\ RunTypeOK'
      BY <1>3 DEF TypeOK, CallTypeOK, RunTypeOK, ShutdownBegins, call
    <2> QED
      BY <1>3, <2>1, TerminateType DEF TypeOK, ShutdownBegins
  <1>4. CASE UNCHANGED vars
    BY <1>4, CallStays, ProcessStays, RunStays DEF TypeOK, vars, call
  <1> QED
    BY <1>1, <1>2, <1>3, <1>4 DEF Next, ByCommand

\* The executor, its children and its quarantine keep their types in every
\* behaviour (CommandProcess.TypeOK).
THEOREM TypeCorrect == Spec => []TypeOK
  BY TypeInit, TypeStep, PTL DEF Spec

-----------------------------------------------------------------------------
(* Each command on its own. A termination that is done leaves nobody in the *)
(* group, and on Windows no open stream; whatever ends a command requests a *)
(* termination first; and a command with a requested termination leaves     *)
(* "running" gone or for the quarantine.                                    *)

Told(c) == \/ outcome[c] \in {"cancelled", "timeout"}
           \/ outcome[c] = "truncated" /\ kind[c] = "sync"
Ordered(c) == \/ stopping \/ cancelled[c] \/ timedOut[c]
              \/ truncated[c] /\ kind[c] = "sync"

Lived(c) ==
    /\ leader[c] = "none" =>
          step[c] \notin {"running", "completing"} /\ ~ended[c] /\ term[c] = "none"
    /\ step[c] \in {"idle", "reserved", "attempting", "blocking"} => leader[c] = "none"
    /\ ended[c] => leader[c] = "exited"
    /\ closed[c] => ProcessAndPipesClosed(c)
    /\ term[c] = "done" => IF platform = "linux" THEN ~GroupAlive(c)
                                                 ELSE ProcessAndPipesClosed(c)
    /\ term[c] \in {"signalled", "killed"} => platform = "linux"
    /\ term[c] \in {"tool", "toolDone"} => platform = "win32"
    /\ step[c] = "running" /\ Ordered(c) => term[c] # "none"

Left(c) ==
    Settled(c) =>
        /\ term[c] = "none" => ProcessAndPipesClosed(c)
        /\ term[c] # "none" => Gone(c) \/ c \in quarantine
        /\ Told(c) => Gone(c)

Sound(c) == Lived(c) /\ Left(c)

\* The executor's notion of an end is the operator's.
LEMMA ConfirmedIsGone ==
  ASSUME TypeOK, NEW c \in Commands, TerminationConfirmed(c)
  PROVE  Gone(c)
  BY CommandProcessAssumption DEF TypeOK, CallTypeOK, TerminationConfirmed,
     ProcessAndPipesClosed, GroupAlive, Gone

\* What does not touch a command, and does not take it out of the quarantine
\* before its end is confirmed, keeps it sound.
LEMMA SoundStays ==
  ASSUME TypeOK, NEW d \in Commands, Sound(d), UNCHANGED <<platform, stopping>>,
         UNCHANGED <<step[d], outcome[d], kind[d], leader[d], rest[d], ended[d], closed[d],
                     term[d], timedOut[d], truncated[d], cancelled[d]>>,
         d \in quarantine => d \in quarantine' \/ TerminationConfirmed(d)
  PROVE  Sound(d)'
  <1>1. Lived(d)'
    BY DEF Sound, Lived, Ordered, ProcessAndPipesClosed, GroupAlive
  <1>2. Left(d)'
    BY ConfirmedIsGone DEF Sound, Left, Told, Settled, Gone, ProcessAndPipesClosed
  <1> QED
    BY <1>1, <1>2 DEF Sound

\* What terminate() makes of a command it is called for.
LEMMA TerminateSound ==
  ASSUME TypeOK, NEW S \in SUBSET Commands, Terminate(S), NEW d \in Commands, Sound(d),
         step[d] = "running" \/ d \notin S,
         UNCHANGED <<platform, step[d], outcome[d], kind[d], leader[d], rest[d], ended[d],
                     closed[d], quarantine>>,
         Ordered(d)' /\ step[d] = "running" => d \in S \/ Ordered(d)
  PROVE  Sound(d)'
  <1> USE DEF Sound
  <1>1. term'[d] = IF d \in S /\ term[d] = "none" THEN FirstSignal(d) ELSE term[d]
    BY DEF Terminate
  <1>2. CASE d \in S /\ term[d] = "none"
    <2>1. term'[d] # "none" /\ step[d] = "running"
      BY <1>1, <1>2 DEF FirstSignal
    <2>2. term'[d] = "done" => IF platform = "linux" THEN ~GroupAlive(d)
                                                     ELSE ProcessAndPipesClosed(d)
      BY <1>1, <1>2, CommandProcessAssumption DEF FirstSignal, TypeOK, CallTypeOK
    <2>3. /\ term'[d] \in {"signalled", "killed"} => platform = "linux"
          /\ term'[d] \in {"tool", "toolDone"} => platform = "win32"
      BY <1>1, <1>2, CommandProcessAssumption DEF FirstSignal, TypeOK, CallTypeOK
    <2>4. Lived(d)'
      BY <2>1, <2>2, <2>3 DEF Lived, ProcessAndPipesClosed, GroupAlive
    <2> QED
      BY <2>1, <2>4 DEF Left, Settled
  <1>3. CASE ~(d \in S /\ term[d] = "none")
    <2>1. Lived(d)'
      BY <1>1, <1>3 DEF Lived, ProcessAndPipesClosed, GroupAlive
    <2>2. Left(d)'
      BY <1>1, <1>3 DEF Left, Settled, Told, Gone, ProcessAndPipesClosed
    <2> QED
      BY <2>1, <2>2
  <1> QED
    BY <1>2, <1>3

\* A step of the termination: what it becomes is none of its starts.
LEMMA AdvancesSound ==
  ASSUME TypeOK, NEW c \in Commands, NEW t \in Terms \ {"none"}, Advances(c, t),
         Terminating(c), term[c] # "none",
         t = "done" => IF platform = "linux" THEN ~GroupAlive(c) ELSE ProcessAndPipesClosed(c),
         t \in {"signalled", "killed"} => platform = "linux",
         t \in {"tool", "toolDone"} => platform = "win32",
         NEW d \in Commands, Sound(d)
  PROVE  Sound(d)'
  <1>1. CASE d # c
    BY <1>1, SoundStays DEF Advances, service, call, os, flags, TypeOK, ProcessTypeOK
  <1>2. CASE d = c
    <2>1. term'[c] = t /\ step'[c] = "running"
      BY DEF Advances, Terminating, TypeOK, ProcessTypeOK, call
    <2>2. Lived(c)'
      BY <1>2, <2>1 DEF Sound, Lived, Advances, Terminating, service, call, os, flags, Ordered,
           ProcessAndPipesClosed, GroupAlive
    <2> QED
      BY <1>2, <2>1, <2>2 DEF Sound, Left, Settled
  <1> QED
    BY <1>1, <1>2

\* The operating system.
LEMMA SystemSound ==
  ASSUME TypeOK, NEW c \in Commands, System(c), NEW d \in Commands, Sound(d)
  PROVE  Sound(d)'
  <1> USE DEF TypeOK, ProcessTypeOK, RunTypeOK, System, ShellExits, DescendantExits, StreamsEnd,
              service, call, flags
  <1>1. CASE d # c
    BY <1>1, SoundStays
  <1>2. CASE d = c
    <2>1. Lived(c)'
      BY <1>2 DEF Sound, Lived, Ordered, ProcessAndPipesClosed, GroupAlive, PipesHeld,
                  InGroup
    <2>2. Left(c)'
      BY <1>2 DEF Sound, Left, Told, Settled, Gone, ProcessAndPipesClosed, PipesHeld, InGroup
    <2> QED
      BY <1>2, <2>1, <2>2 DEF Sound
  <1> QED
    BY <1>1, <1>2

\* The child's events and the steps of its termination.
LEMMA ChildSound ==
  ASSUME TypeOK, NEW c \in Commands,
         \/ OutputLimit(c) \/ DecodeFails(c) \/ Timeout(c) \/ ClientCancels(c)
         \/ Kill(c),
         Sound(c), NEW d \in Commands, Sound(d)
  PROVE  Sound(d)'
  <1> USE DEF TypeOK, RunTypeOK, service, call, os
  <1>1. CASE OutputLimit(c)
    <2>1. CASE kind[c] = "sync"
      BY <1>1, <2>1, TerminateSound DEF OutputLimit, Running, Ordered
    <2>2. CASE kind[c] # "sync" /\ d # c
      BY <1>1, <2>2, SoundStays DEF OutputLimit
    <2>3. CASE kind[c] # "sync" /\ d = c
      <3>1. Lived(c)'
        BY <1>1, <2>3 DEF OutputLimit, Running, Sound, Lived, Ordered, ProcessAndPipesClosed,
             GroupAlive
      <3> QED
        BY <1>1, <2>3, <3>1 DEF OutputLimit, Running, Sound, Left, Settled
    <2> QED
      BY <2>1, <2>2, <2>3
  <1>2. CASE DecodeFails(c)
    BY <1>2, TerminateSound DEF DecodeFails, Running, Ordered
  <1>3. CASE Timeout(c)
    BY <1>3, TerminateSound DEF Timeout, Running, Ordered
  <1>4. CASE ClientCancels(c)
    BY <1>4, TerminateSound DEF ClientCancels, Active, Ordered
  <1>5. CASE GroupChecked(c) \/ SigKill(c) \/ SigKillDenied(c)
    <2>1. platform = "linux" /\ term[c] # "none" /\ Terminating(c)
      BY <1>5 DEF GroupChecked, SigKill, SigKillDenied, Sound, Lived
    <2>2. \E t \in {"killed", "denied", "done"} :
             Advances(c, t) /\ (t = "done" => ~GroupAlive(c))
      BY <1>5 DEF GroupChecked, SigKill, SigKillDenied
    <2> QED
      BY <2>1, <2>2, AdvancesSound
  <1>6. CASE ToolEnds(c) \/ ToolFails(c) \/ Deadline(c)
    <2>1. /\ term[c] # "none" /\ Terminating(c)
          /\ term[c] = "tool" => platform = "win32"
      BY <1>6 DEF ToolEnds, ToolFails, Deadline, Sound, Lived
    <2>2. \E t \in {"toolDone", "denied", "done"} :
             /\ Advances(c, t) /\ (t = "done" => ProcessAndPipesClosed(c))
             /\ t # "denied" => platform = "win32"
      BY <1>6, <2>1 DEF ToolEnds, ToolFails, Deadline
    <2> QED
      BY <2>1, <2>2, AdvancesSound
  <1> QED
    BY <1>1, <1>2, <1>3, <1>4, <1>5, <1>6 DEF Kill

\* Admission and the audit events. A command starts with nothing asked of it.
LEMMA AdmitSound ==
  ASSUME TypeOK, NEW c \in Commands,
         Admit(c) \/ \E ok \in BOOLEAN : Writes(c, ok),
         Sound(c), NEW d \in Commands, Sound(d)
  PROVE  Sound(d)'
  <1> USE DEF TypeOK, CallTypeOK
  <1>1. /\ UNCHANGED <<platform, stopping, closed, term, flags, ended>>
        /\ \A e \in quarantine : e \in quarantine' \/ TerminationConfirmed(e)
    BY DEF Admit, Call, Reserve, Release, ExecuteJob, Writes, AttemptWritten, BlockedWritten,
         TerminalWritten, Admission, Blocked, Spawned, SpawnFails, ReadsSize, Unsettled, service, os
  <1>2. CASE Call(c) \/ Reserve(c) \/ Release(c)
    <2>1. CASE d # c
      BY <1>1, <1>2, <2>1, SoundStays DEF Call, Reserve, Release, Answers, service, call, os, flags
    <2>2. CASE d = c
      <3>1. leader'[c] = "none" /\ step'[c] \in {"attempting", "reserved", "answered"}
        BY <1>2 DEF Call, Reserve, Release, Comes, Answers, os, Sound, Lived
      <3> QED
        BY <1>1, <1>2, <2>2, <3>1 DEF Call, Reserve, Release, Comes, Sound, Lived, Left, Settled,
           os, ProcessAndPipesClosed, GroupAlive, Ordered
    <2> QED
      BY <2>1, <2>2
  <1>3. CASE /\ Admission(c) /\ step[c] \in {"reserved", "attempting"} /\ UNCHANGED kind
    <2>1. CASE d # c
      <3>1. UNCHANGED <<step[d], outcome[d], leader[d], rest[d]>>
        BY <1>3, <2>1 DEF Admission, Blocked, Spawned, SpawnFails, os, ProcessTypeOK
      <3> QED
        BY <1>1, <1>3, <2>1, <3>1, SoundStays DEF flags
    <2>2. CASE d = c
      <3>1. CASE Blocked(c) \/ SpawnFails(c)
        <4>1. leader'[c] = "none" /\ step'[c] \in {"blocking", "failing"}
          BY <1>3, <3>1 DEF Blocked, SpawnFails, os, Sound, Lived
        <4> QED
          BY <1>1, <1>3, <2>2, <3>1, <4>1 DEF Sound, Lived, Left, Settled,
             ProcessAndPipesClosed, GroupAlive, Ordered
      <3>2. CASE Spawned(c) /\ ~stopping /\ ~cancelled[c]
        <4>1. leader'[c] = "alive" /\ step'[c] = "running" /\ term'[c] = "none" /\ ~ended'[c]
          BY <1>1, <1>3, <3>2 DEF Spawned, Sound, Lived, ProcessTypeOK
        <4>2. ~closed'[c] /\ ~timedOut'[c] /\ ~truncated'[c] /\ ~cancelled'[c] /\ ~stopping'
          BY <1>1, <1>3, <3>2 DEF RunTypeOK, flags
        <4> QED
          BY <2>2, <4>1, <4>2 DEF Sound, Lived, Left, Settled, Ordered
      <3> QED
        BY <1>3, <3>1, <3>2 DEF Admission
    <2> QED
      BY <2>1, <2>2
  <1>4. CASE /\ \E told \in {"audit", "blocked", outcome[c]} : Answers(c, told)
             /\ step[c] \in {"attempting", "blocking", "completing", "failing"}
             /\ UNCHANGED <<os, kind, quarantine>>
    <2>1. CASE d # c
      BY <1>1, <1>4, <2>1, SoundStays DEF Answers, os, flags
    <2>2. CASE d = c
      <3>1. step'[c] = "answered" /\ (Told(c)' => Told(c))
        BY <1>4 DEF Answers, Told
      <3>2. Lived(c)'
        BY <1>1, <1>4, <2>2, <3>1 DEF Sound, Lived, os, ProcessAndPipesClosed, GroupAlive, Ordered
      <3>3. CASE leader[c] = "none"
        BY <1>4, <2>2, <3>2, <3>3 DEF Sound, Left, Settled, os
      <3>4. CASE leader[c] # "none"
        <4>1. Settled(c)
          BY <1>4, <3>4 DEF Sound, Lived, Settled
        <4> QED
          BY <1>1, <1>4, <2>2, <3>1, <3>2, <4>1 DEF Sound, Left, Gone, os, ProcessAndPipesClosed
      <3> QED
        BY <3>3, <3>4
    <2> QED
      BY <2>1, <2>2
  <1>5. ASSUME NEW ok \in BOOLEAN, Writes(c, ok) PROVE Sound(d)'
    <2>1. CASE AttemptWritten(c, ok) /\ ok
      BY <1>3, <2>1 DEF AttemptWritten
    <2>2. CASE AttemptWritten(c, ok) /\ ~ok
      <3>1. Answers(c, "audit") /\ step[c] = "attempting" /\ UNCHANGED <<os, kind, quarantine>>
        BY <2>2 DEF AttemptWritten
      <3> QED
        BY <1>4, <3>1
    <2>3. CASE BlockedWritten(c, ok)
      <3>1. /\ Answers(c, "audit") \/ Answers(c, "blocked")
            /\ step[c] = "blocking" /\ UNCHANGED <<os, kind, quarantine>>
        BY <2>3 DEF BlockedWritten
      <3> QED
        BY <1>4, <3>1
    <2>4. CASE TerminalWritten(c, ok)
      <3>1. /\ Answers(c, "audit") \/ Answers(c, outcome[c])
            /\ step[c] \in {"completing", "failing"} /\ UNCHANGED <<os, kind, quarantine>>
        BY <2>4 DEF TerminalWritten
      <3> QED
        BY <1>4, <3>1
    <2> QED
      BY <1>5, <2>1, <2>2, <2>3, <2>4 DEF Writes
  <1> QED
    BY <1>2, <1>3, <1>5 DEF Admit, ExecuteJob, service

\* The ways out of "running".
LEMMA SettlesSound ==
  ASSUME TypeOK, NEW c \in Commands, NEW o \in Outcomes, Settles(c, o), step[c] = "running",
         Sound(c),
         term[c] = "none" => ProcessAndPipesClosed(c),
         term[c] # "none" => Gone(c) \/ c \in quarantine',
         o \in {"cancelled", "timeout"} \/ (o = "truncated" /\ kind[c] = "sync") => Gone(c),
         quarantine \subseteq quarantine',
         NEW d \in Commands, Sound(d)
  PROVE  Sound(d)'
  <1> USE DEF TypeOK, Settles, service, os
  <1>1. CASE d # c
    BY <1>1, SoundStays DEF RunTypeOK, CallTypeOK
  <1>2. CASE d = c
    <2>1. /\ step'[c] \in {"completing", "failing"} /\ outcome'[c] = o
          /\ ~closed'[c] /\ leader[c] # "none"
      BY DEF CallTypeOK, RunTypeOK, Sound, Lived
    <2>2. Lived(c)'
      BY <2>1 DEF Sound, Lived, ProcessAndPipesClosed, GroupAlive
    <2>3. Left(c)'
      BY <2>1 DEF Left, Told, Gone, ProcessAndPipesClosed
    <2> QED
      BY <1>2, <2>2, <2>3 DEF Sound
  <1> QED
    BY <1>1, <1>2

LEMMA EndsSound ==
  ASSUME TypeOK, NEW c \in Commands, Close(c) \/ Ends(c),
         Sound(c), NEW d \in Commands, Sound(d)
  PROVE  Sound(d)'
  <1>1. CASE /\ Settles(c, ClosedOutcome(c)) /\ UNCHANGED quarantine /\ step[c] = "running"
             /\ ProcessAndPipesClosed(c) /\ term[c] \in {"none", "done"}
    <2>1. ClosedOutcome(c) \in Outcomes
      BY DEF ClosedOutcome
    <2>2. term[c] = "done" => Gone(c)
      BY <1>1, CommandProcessAssumption DEF Sound, Lived, Gone, ProcessAndPipesClosed, GroupAlive,
         TypeOK, CallTypeOK
    <2>3. term[c] = "none" =>
             ClosedOutcome(c) \notin {"cancelled", "timeout"} /\
             ~(ClosedOutcome(c) = "truncated" /\ kind[c] = "sync")
      BY <1>1 DEF Sound, Lived, Ordered, ClosedOutcome
    <2> QED
      BY <1>1, <2>1, <2>2, <2>3, SettlesSound
  <1>2. CASE FinishFailure(c) /\ step[c] = "running" /\ term[c] # "none"
    BY <1>2, SettlesSound, ConfirmedIsGone DEF FinishFailure
  <1>3. CASE /\ Running(c) /\ closed' = [closed EXCEPT ![c] = TRUE]
             /\ ProcessAndPipesClosed(c) /\ term[c] # "none"
             /\ term' = [term EXCEPT ![c] = IF @ = "toolDone" THEN "done" ELSE @]
             /\ UNCHANGED <<service, call, os, flags, quarantine, trail>>
    <2> USE DEF TypeOK, ProcessTypeOK, RunTypeOK, service, call, os, flags
    <2>1. CASE d # c
      BY <1>3, <2>1, SoundStays
    <2>2. CASE d = c
      <3>1. Lived(c)'
        BY <1>3 DEF Running, Sound, Lived, Ordered, ProcessAndPipesClosed, GroupAlive
      <3> QED
        BY <1>3, <2>2, <3>1 DEF Running, Sound, Left, Settled
    <2> QED
      BY <2>1, <2>2
  <1> QED
    BY <1>1, <1>2, <1>3 DEF Close, Ends, CloseResumes, TerminationRejected, StreamDeadline,
       Resumes, Running, Sound, Lived

SoundAll == \A c \in Commands : Sound(c)

\* Every step keeps every command sound.
LEMMA SoundStep == TypeOK /\ SoundAll /\ [Next]_vars => SoundAll'
  <1> SUFFICES ASSUME TypeOK, SoundAll, [Next]_vars, NEW d \in Commands PROVE Sound(d)'
    BY DEF SoundAll
  <1> USE DEF SoundAll
  <1>1. CASE \E c \in Commands : ByCommand(c)
    BY <1>1, SystemSound, ChildSound, AdmitSound, EndsSound DEF ByCommand, Child
  <1>2. CASE Refresh
    BY <1>2, SoundStays DEF Refresh, Unsettled, service, call, os, flags
  <1>3. CASE ShutdownBegins
    BY <1>3, TerminateSound DEF ShutdownBegins, Active, Ordered, call, os
  <1>4. CASE UNCHANGED vars
    BY <1>4, SoundStays DEF vars, service, call, os, flags
  <1> QED
    BY <1>1, <1>2, <1>3, <1>4 DEF Next, ByCommand

LEMMA SoundCorrect == Spec => []SoundAll
  <1>1. Init => SoundAll
    BY DEF Init, SoundAll, Sound, Lived, Left, Settled
  <1>2. TypeOK /\ TypeOK' /\ SoundAll /\ [Next]_vars => SoundAll'
    BY SoundStep
  <1> QED
    BY <1>1, <1>2, TypeCorrect, PTL DEF Spec

\* A command whose termination was requested is gone when it is no longer
\* running, or its slot is held (CommandProcess.HeldUntilGone).
THEOREM SlotHeldUntilGone == Spec => []HeldUntilGone
  <1>1. SoundAll => HeldUntilGone
    BY DEF SoundAll, Sound, Left, HeldUntilGone
  <1> QED
    BY <1>1, SoundCorrect, PTL

\* A caller is told of a cancellation, a timeout or a cut of the service only
\* when the command is gone (CommandProcess.ToldOnlyWhenGone).
THEOREM CallerToldOnlyWhenGone == Spec => []ToldOnlyWhenGone
  <1>1. SoundAll => ToldOnlyWhenGone
    BY DEF SoundAll, Sound, Left, Told, ToldOnlyWhenGone
  <1> QED
    BY <1>1, SoundCorrect, PTL

\* A shutdown leaves no command without a termination request
\* (CommandProcess.ShutdownReachesAll).
THEOREM ShutdownReaches == Spec => []ShutdownReachesAll
  <1>1. SoundAll => ShutdownReachesAll
    BY DEF SoundAll, Sound, Lived, Ordered, ShutdownReachesAll
  <1> QED
    BY <1>1, SoundCorrect, PTL

-----------------------------------------------------------------------------
(* The slots. What holds one is running, reserved or in the quarantine with *)
(* an end nobody has confirmed; only an admission adds to it, and it counts *)
(* before. A shell that is alive holds one.                                 *)

Holding == Active \cup Reserved \cup Unsettled

\* The end of a command, once certain, stays so.
LEMMA ConfirmedStays ==
  ASSUME TypeOK, SoundAll, [Next]_vars, NEW d \in Commands, TerminationConfirmed(d)
  PROVE  TerminationConfirmed(d)'
  <1> USE DEF TerminationConfirmed, ProcessAndPipesClosed, GroupAlive
  <1>1. leader[d] = "exited" /\ ended[d] /\ step[d] \notin {"idle", "reserved", "attempting", "blocking"}
    BY DEF SoundAll, Sound, Lived
  <1>2. CASE UNCHANGED <<platform, os>>
    BY <1>2 DEF os
  <1>3. CASE \E c \in Commands : System(c)
    BY <1>1, <1>3 DEF TypeOK, ProcessTypeOK, System, ShellExits, DescendantExits, StreamsEnd,
       service, InGroup
  <1>4. CASE \E c \in Commands : ExecuteJob(c) \/ \E ok \in BOOLEAN : AttemptWritten(c, ok)
    <2>1. PICK c \in Commands : /\ step[c] \in {"reserved", "attempting"} /\ UNCHANGED platform
                                /\ Admission(c) \/ UNCHANGED os
      BY <1>4 DEF ExecuteJob, AttemptWritten, service
    <2>2. c # d
      BY <1>1, <2>1
    <2> QED
      BY <2>1, <2>2 DEF TypeOK, ProcessTypeOK, Admission, Blocked, Spawned, SpawnFails, os
  <1> QED
    BY <1>2, <1>3, <1>4 DEF Next, Admit, Call, Reserve, Release, Child, OutputLimit, DecodeFails,
       Timeout, ClientCancels, Close, Kill, GroupChecked, SigKill, SigKillDenied, ToolEnds,
       ToolFails, Deadline, Advances, Ends, CloseResumes, TerminationRejected, StreamDeadline,
       FinishFailure, Settles, Writes, BlockedWritten, TerminalWritten, Refresh, ShutdownBegins,
       vars, service

\* What a step adds to the slots in use is what it admits.
LEMMA HoldingGrows ==
  ASSUME TypeOK, SoundAll, [Next]_vars, NEW E,
         \A d \in Commands : step'[d] \in {"running", "reserved"} =>
                                step[d] \in {"running", "reserved"} \/ d \in E,
         quarantine' \subseteq quarantine \cup Active
  PROVE  Holding' \subseteq Holding \cup E
  <1> SUFFICES ASSUME NEW d \in Holding' PROVE d \in Holding \cup E
    OBVIOUS
  <1>1. d \in Commands
    BY TypeStep DEF Holding, Active, Reserved, Unsettled, TypeOK, CallTypeOK
  <1>2. CASE step'[d] \in {"running", "reserved"}
    BY <1>1, <1>2 DEF Holding, Active, Reserved
  <1>3. CASE d \in Unsettled'
    BY <1>1, <1>3, ConfirmedStays DEF Holding, Unsettled
  <1> QED
    BY <1>2, <1>3 DEF Holding, Active, Reserved

\* An admission finds a free slot before it takes one.
LEMMA HoldingStep ==
  ASSUME TypeOK, SoundAll, [Next]_vars
  PROVE  \/ Holding' \subseteq Holding
         \/ \E c \in Commands : /\ HasSlot(c) /\ c \notin Reserved
                                /\ Holding' \subseteq Holding \cup {c}
  <1> USE DEF TypeOK, CallTypeOK
  <1>1. ASSUME UNCHANGED step, quarantine' \subseteq quarantine
        PROVE  Holding' \subseteq Holding
    BY <1>1, HoldingGrows
  <1>2. ASSUME NEW c \in Commands, NEW s \in Steps \ {"running", "reserved"},
               step' = [step EXCEPT ![c] = s], quarantine' \subseteq quarantine \cup Active
        PROVE  Holding' \subseteq Holding
    BY <1>2, HoldingGrows
  <1>3. ASSUME NEW c \in Commands, NEW s \in Steps,
               step' = [step EXCEPT ![c] = s], HasSlot(c), quarantine' \subseteq quarantine
        PROVE  Holding' \subseteq Holding \cup {c}
    BY <1>3, HoldingGrows
  <1>4. ASSUME NEW c \in Commands, Admission(c), step[c] \in {"reserved", "attempting"}
        PROVE  \/ Holding' \subseteq Holding
               \/ HasSlot(c) /\ c \notin Reserved /\ Holding' \subseteq Holding \cup {c}
    <2>1. quarantine' \subseteq quarantine
      BY <1>4 DEF Admission, ReadsSize, Unsettled
    <2>2. CASE Blocked(c) \/ SpawnFails(c)
      BY <1>2, <2>1, <2>2 DEF Blocked, SpawnFails
    <2>3. CASE Spawned(c) /\ HasSlot(c)
      <3>1. Holding' \subseteq Holding \cup {c}
        BY <1>3, <2>1, <2>3 DEF Spawned
      <3>2. CASE c \in Reserved
        BY <3>1, <3>2 DEF Holding
      <3> QED
        BY <2>3, <3>1, <3>2
    <2> QED
      BY <1>4, <2>2, <2>3 DEF Admission
  <1>5. ASSUME NEW c \in Commands, Admit(c)
        PROVE  \/ Holding' \subseteq Holding
               \/ HasSlot(c) /\ c \notin Reserved /\ Holding' \subseteq Holding \cup {c}
    <2>1. CASE Call(c)
      BY <1>2, <2>1 DEF Call
    <2>2. CASE Reserve(c)
      <3>1. quarantine' \subseteq quarantine /\ c \notin Reserved
        BY <2>2 DEF Reserve, ReadsSize, Unsettled, Comes, Reserved
      <3> QED
        BY <1>3, <2>2, <3>1 DEF Reserve
    <2>3. CASE Release(c)
      BY <1>2, <2>3 DEF Release, Answers
    <2>4. CASE ExecuteJob(c)
      BY <1>4, <2>4 DEF ExecuteJob
    <2> QED
      BY <1>5, <2>1, <2>2, <2>3, <2>4 DEF Admit
  <1>6. ASSUME NEW c \in Commands, NEW ok \in BOOLEAN, Writes(c, ok)
        PROVE  \/ Holding' \subseteq Holding
               \/ HasSlot(c) /\ c \notin Reserved /\ Holding' \subseteq Holding \cup {c}
    <2>1. CASE AttemptWritten(c, ok) /\ ok
      BY <1>4, <2>1 DEF AttemptWritten
    <2>2. CASE ~(AttemptWritten(c, ok) /\ ok)
      BY <1>2, <1>6, <2>2 DEF Writes, AttemptWritten, BlockedWritten, TerminalWritten, Answers
    <2> QED
      BY <2>1, <2>2
  <1>7. ASSUME NEW c \in Commands, System(c) \/ Child(c) \/ Kill(c) \/ Ends(c)
        PROVE  Holding' \subseteq Holding
    <2>1. CASE UNCHANGED <<step, quarantine>>
      BY <1>1, <2>1
    <2>2. CASE /\ \E o \in Outcomes : Settles(c, o)
               /\ step[c] = "running" /\ quarantine' \subseteq quarantine \cup {c}
      <3>1. quarantine' \subseteq quarantine \cup Active
        BY <2>2 DEF Active
      <3> QED
        BY <1>2, <2>2, <3>1 DEF Settles
    <2>3. ClosedOutcome(c) \in Outcomes
      BY DEF ClosedOutcome
    <2>4. CASE Close(c) \/ Ends(c)
      BY <2>1, <2>2, <2>3, <2>4 DEF Close, Ends, CloseResumes, TerminationRejected,
         StreamDeadline, FinishFailure, Resumes, Running, call
    <2>5. CASE System(c) \/ Kill(c) \/ (Child(c) /\ ~Close(c))
      BY <2>1, <2>5 DEF System, ShellExits, DescendantExits, StreamsEnd, Kill, GroupChecked,
         SigKill, SigKillDenied, ToolEnds, ToolFails, Deadline, Advances, Child, OutputLimit,
         DecodeFails, Timeout, ClientCancels, call
    <2> QED
      BY <1>7, <2>4, <2>5 DEF Child
  <1>8. CASE Refresh \/ ShutdownBegins \/ UNCHANGED vars
    BY <1>1, <1>8 DEF Refresh, ShutdownBegins, Unsettled, vars, call
  <1> QED
    BY <1>5, <1>6, <1>7, <1>8 DEF Next

\* There are as many slots in use as MaxParallel allows.
Within == Cardinality(Holding) <= MaxParallel

LEMMA FiniteSlots ==
  ASSUME TypeOK
  PROVE  /\ IsFiniteSet(Active) /\ IsFiniteSet(Reserved) /\ IsFiniteSet(Unsettled)
         /\ Cardinality(Active) \in Nat /\ Cardinality(Reserved) \in Nat
         /\ Cardinality(Unsettled) \in Nat
         /\ IsFiniteSet(Holding) /\ Cardinality(Holding) \in Nat
         /\ Cardinality(Holding) <=
               Cardinality(Active) + Cardinality(Reserved) + Cardinality(Unsettled)
  <1>1. IsFiniteSet(Active) /\ IsFiniteSet(Reserved) /\ IsFiniteSet(Unsettled)
    BY CommandProcessAssumption, FS_Subset
       DEF Active, Reserved, Unsettled, TypeOK, CallTypeOK
  <1>2. /\ Cardinality(Active) \in Nat /\ Cardinality(Reserved) \in Nat
        /\ Cardinality(Unsettled) \in Nat
    BY <1>1, FS_CardinalityType
  <1>3. /\ IsFiniteSet(Active \cup Reserved) /\ Cardinality(Active \cup Reserved) \in Nat
        /\ Cardinality(Active \cup Reserved) <= Cardinality(Active) + Cardinality(Reserved)
    <2>1. Cardinality(Active \cap Reserved) \in Nat
      BY <1>1, FS_Intersection, FS_CardinalityType
    <2>2. /\ IsFiniteSet(Active \cup Reserved)
          /\ Cardinality(Active \cup Reserved) =
                Cardinality(Active) + Cardinality(Reserved) - Cardinality(Active \cap Reserved)
      BY <1>1, FS_Union
    <2>3. Cardinality(Active \cup Reserved) \in Nat
      BY <2>2, FS_CardinalityType
    <2> QED
      BY <1>2, <2>1, <2>2, <2>3
  <1>4. Cardinality((Active \cup Reserved) \cap Unsettled) \in Nat
    BY <1>1, <1>3, FS_Intersection, FS_CardinalityType
  <1>5. /\ IsFiniteSet(Holding) /\ Cardinality(Holding) \in Nat
        /\ Cardinality(Holding) = Cardinality(Active \cup Reserved) + Cardinality(Unsettled)
              - Cardinality((Active \cup Reserved) \cap Unsettled)
    BY <1>1, <1>3, FS_Union, FS_CardinalityType DEF Holding
  <1> QED
    BY <1>1, <1>2, <1>3, <1>4, <1>5

LEMMA WithinStep == TypeOK /\ SoundAll /\ Within /\ [Next]_vars => Within'
  <1> SUFFICES ASSUME TypeOK, SoundAll, Within, [Next]_vars PROVE Within'
    OBVIOUS
  <1>1. MaxParallel \in Nat
    BY CommandProcessAssumption
  <1>2. CASE Holding' \subseteq Holding
    <2>1. Cardinality(Holding') <= Cardinality(Holding) /\ Cardinality(Holding') \in Nat
      BY <1>2, FiniteSlots, FS_Subset, FS_CardinalityType
    <2> QED
      BY <1>1, <2>1, FiniteSlots DEF Within
  <1>3. ASSUME NEW c \in Commands, HasSlot(c), c \notin Reserved,
               Holding' \subseteq Holding \cup {c}
        PROVE  Within'
    <2>1. Reserved \ {c} = Reserved
      BY <1>3
    <2>2. Cardinality(Active) + Cardinality(Reserved) + Cardinality(Unsettled) < MaxParallel
      BY <1>3, <2>1 DEF HasSlot, InUse
    <2>3. IsFiniteSet(Holding \cup {c}) /\ Cardinality(Holding \cup {c}) <= Cardinality(Holding) + 1
      <3>1. IsFiniteSet(Holding) /\ Cardinality(Holding) \in Nat
        BY FiniteSlots
      <3>2. /\ IsFiniteSet(Holding \cup {c})
            /\ Cardinality(Holding \cup {c}) = Cardinality(Holding)
               \/ Cardinality(Holding \cup {c}) = Cardinality(Holding) + 1
        BY <3>1, FS_AddElement
      <3> QED
        BY <3>1, <3>2
    <2>4. Cardinality(Holding') <= Cardinality(Holding \cup {c}) /\ Cardinality(Holding') \in Nat
      BY <1>3, <2>3, FS_Subset, FS_CardinalityType
    <2>5. Cardinality(Holding \cup {c}) \in Nat
      BY <2>3, FS_CardinalityType
    <2> QED
      BY <1>1, <2>2, <2>3, <2>4, <2>5, FiniteSlots DEF Within
  <1> QED
    BY <1>2, <1>3, HoldingStep

LEMMA AliveHolds ==
  ASSUME TypeOK, SoundAll
  PROVE  {c \in Commands : leader[c] = "alive"} \subseteq Holding
  <1> SUFFICES ASSUME NEW c \in Commands, leader[c] = "alive", step[c] # "running"
               PROVE  c \in Unsettled
    BY DEF Holding, Active
  <1>1. Settled(c)
    BY DEF SoundAll, Sound, Lived, Settled, TypeOK, CallTypeOK
  <1>2. c \in quarantine
    BY <1>1 DEF SoundAll, Sound, Left, Gone, ProcessAndPipesClosed
  <1> QED
    BY <1>2 DEF Unsettled, TerminationConfirmed, ProcessAndPipesClosed

\* No more shells are alive than MAX_PARALLEL_COMMANDS allows, those of
\* commands already answered included (CommandProcess.ShellsWithinCapacity).
THEOREM CapacityKept == Spec => []ShellsWithinCapacity
  <1>1. Init => Within
    <2> SUFFICES ASSUME Init PROVE Within
      OBVIOUS
    <2>1. Holding = {}
      BY DEF Init, Holding, Active, Reserved, Unsettled
    <2> QED
      BY <2>1, FS_EmptySet, CommandProcessAssumption DEF Within
  <1>2. TypeOK /\ SoundAll /\ Within => ShellsWithinCapacity
    <2> SUFFICES ASSUME TypeOK, SoundAll, Within PROVE ShellsWithinCapacity
      OBVIOUS
    <2>1. /\ Cardinality({c \in Commands : leader[c] = "alive"}) <= Cardinality(Holding)
          /\ Cardinality({c \in Commands : leader[c] = "alive"}) \in Nat
      BY AliveHolds, FiniteSlots, FS_Subset, FS_CardinalityType
    <2> QED
      BY <2>1, FiniteSlots, CommandProcessAssumption DEF Within, ShellsWithinCapacity
  <1> QED
    BY <1>1, <1>2, WithinStep, TypeCorrect, SoundCorrect, PTL DEF Spec

-----------------------------------------------------------------------------
(* The trail. A command that has passed its attempted event has that event  *)
(* alone on record until it is answered, and where it is decides which      *)
(* event comes next.                                                        *)

Failures == {"start", "termination", "cancelled", "decode"}
EndEvent(c) == CASE outcome[c] \in Results -> "completed"
              [] outcome[c] = "blocked" -> "blocked"
              [] OTHER -> "failed"

OnTrail(c) ==
    /\ step[c] \in {"idle", "attempting"} => trail[c] = <<>>
    /\ step[c] \in {"reserved", "blocking", "running", "completing", "failing"} =>
          trail[c] = <<"attempted">>
    /\ step[c] = "blocking" => outcome[c] = "blocked"
    /\ step[c] = "completing" => outcome[c] \in Results
    /\ step[c] = "failing" => outcome[c] \in Failures
    /\ step[c] = "answered" =>
          /\ \/ trail[c] = <<"attempted">>
             \/ \E p \in Phases : trail[c] = <<"attempted", p>>
             \/ trail[c] = <<>> /\ leader[c] = "none"
          /\ outcome[c] \notin {"audit", "released"} => trail[c] = <<"attempted", EndEvent(c)>>

LEMMA OnTrailStays ==
  ASSUME NEW d \in Commands, OnTrail(d),
         UNCHANGED <<step[d], outcome[d], trail[d]>>,
         leader[d] = "none" /\ trail[d] = <<>> /\ step[d] = "answered" => leader'[d] = "none"
  PROVE  OnTrail(d)'
  BY DEF OnTrail, EndEvent

\* What a step leaves alone.
LEMMA OnTrailFrame ==
  ASSUME NEW d \in Commands, OnTrail(d), UNCHANGED <<call, trail>>,
         leader[d] = "none" => leader'[d] = "none"
  PROVE  OnTrail(d)'
  BY OnTrailStays DEF call

\* Admission comes after the attempted event and before any other.
LEMMA AdmissionOnTrail ==
  ASSUME TypeOK, NEW c \in Commands, Admission(c), step[c] \in {"reserved", "attempting"},
         trail'[c] = <<"attempted">>, \A d \in Commands \ {c} : trail'[d] = trail[d],
         NEW d \in Commands, OnTrail(d)
  PROVE  OnTrail(d)'
  <1> USE DEF Admission, Blocked, Spawned, SpawnFails, os, TypeOK, CallTypeOK, ProcessTypeOK
  <1>1. CASE d # c
    <2>1. UNCHANGED <<step[d], outcome[d], leader[d]>>
      BY <1>1
    <2> QED
      BY <1>1, <2>1, OnTrailStays
  <1>2. CASE d = c
    <2>1. \/ step'[c] = "blocking" /\ outcome'[c] = "blocked"
          \/ step'[c] = "running"
          \/ step'[c] = "failing" /\ outcome'[c] = "start"
      OBVIOUS
    <2> QED
      BY <1>2, <2>1 DEF OnTrail, Failures
  <1> QED
    BY <1>1, <1>2

\* The event that goes with an answer is written, or may be, before it.
LEMMA AnswersOnTrail ==
  ASSUME TypeOK, NEW c \in Commands, NEW p \in Phases, NEW ok \in BOOLEAN, Written(c, p, ok),
         Answers(c, IF ok THEN outcome[c] ELSE "audit"), UNCHANGED leader,
         trail[c] = <<"attempted">>, outcome[c] \notin {"audit", "released"}, p = EndEvent(c),
         NEW d \in Commands, OnTrail(d)
  PROVE  OnTrail(d)'
  <1> USE DEF Written, Answers, TypeOK, CallTypeOK
  <1>1. CASE d # c
    BY <1>1, OnTrailStays
  <1>2. CASE d = c
    <2>1. trail'[c] = <<"attempted">> \/ trail'[c] = <<"attempted", p>>
      OBVIOUS
    <2>2. step'[c] = "answered"
      OBVIOUS
    <2>3. CASE ok
      <3>1. trail'[c] = <<"attempted", p>> /\ outcome'[c] = outcome[c]
        BY <2>3
      <3> QED
        BY <1>2, <2>2, <3>1 DEF OnTrail, EndEvent
    <2>4. CASE ~ok
      <3>1. outcome'[c] = "audit"
        BY <2>4
      <3> QED
        BY <1>2, <2>1, <2>2, <3>1 DEF OnTrail
    <2> QED
      BY <2>3, <2>4
  <1> QED
    BY <1>1, <1>2

\* Admission and the audit events.
LEMMA AdmitOnTrail ==
  ASSUME TypeOK, NEW c \in Commands, Sound(c), OnTrail(c),
         Admit(c) \/ \E ok \in BOOLEAN : Writes(c, ok),
         NEW d \in Commands, OnTrail(d)
  PROVE  OnTrail(d)'
  <1> USE DEF TypeOK, CallTypeOK
  <1>1. CASE Call(c)
    <2>1. CASE d # c
      BY <1>1, <2>1, OnTrailStays DEF Call, os
    <2>2. CASE d = c
      BY <1>1, <2>2 DEF Call, Comes, OnTrail
    <2> QED
      BY <2>1, <2>2
  <1>2. CASE Reserve(c)
    <2>1. CASE d # c
      BY <1>2, <2>1, OnTrailStays DEF Reserve, os
    <2>2. CASE d = c
      BY <1>2, <2>2 DEF Reserve, OnTrail
    <2> QED
      BY <2>1, <2>2
  <1>3. CASE Release(c)
    <2>1. CASE d # c
      BY <1>3, <2>1, OnTrailStays DEF Release, Answers, os
    <2>2. CASE d = c
      BY <1>3, <2>2 DEF Release, Answers, OnTrail
    <2> QED
      BY <2>1, <2>2
  <1>4. CASE ExecuteJob(c)
    BY <1>4, AdmissionOnTrail DEF ExecuteJob, OnTrail
  <1>5. ASSUME NEW ok \in BOOLEAN, AttemptWritten(c, ok) PROVE OnTrail(d)'
    <2>1. trail[c] = <<>> /\ \A e \in Commands \ {c} : trail'[e] = trail[e]
      BY <1>5 DEF AttemptWritten, Written, OnTrail
    <2>2. trail'[c] = <<"attempted">> \/ (trail'[c] = <<>> /\ ~ok)
      BY <1>5, <2>1 DEF AttemptWritten, Written
    <2>3. CASE ok
      BY <1>5, <2>1, <2>2, <2>3, AdmissionOnTrail DEF AttemptWritten
    <2>4. CASE ~ok /\ d # c
      BY <1>5, <2>1, <2>4, OnTrailStays DEF AttemptWritten, Answers, os
    <2>5. CASE ~ok /\ d = c
      <3>1. leader'[c] = "none" /\ step'[c] = "answered" /\ outcome'[c] = "audit"
        BY <1>5, <2>5 DEF AttemptWritten, Answers, os, Sound, Lived
      <3> QED
        BY <2>2, <2>5, <3>1 DEF OnTrail
    <2> QED
      BY <2>3, <2>4, <2>5
  <1>6. ASSUME NEW ok \in BOOLEAN, BlockedWritten(c, ok) PROVE OnTrail(d)'
    <2>1. /\ trail[c] = <<"attempted">> /\ outcome[c] = "blocked" /\ EndEvent(c) = "blocked"
          /\ Written(c, "blocked", ok) /\ UNCHANGED leader
          /\ Answers(c, IF ok THEN outcome[c] ELSE "audit")
      BY <1>6 DEF BlockedWritten, OnTrail, os, EndEvent
    <2> QED
      BY <2>1, AnswersOnTrail
  <1>7. ASSUME NEW ok \in BOOLEAN, TerminalWritten(c, ok) PROVE OnTrail(d)'
    <2>1. /\ trail[c] = <<"attempted">> /\ outcome[c] \in Results \cup Failures
          /\ EndEvent(c) = IF step[c] = "completing" THEN "completed" ELSE "failed"
          /\ Written(c, EndEvent(c), ok) /\ UNCHANGED leader
          /\ Answers(c, IF ok THEN outcome[c] ELSE "audit")
      BY <1>7 DEF TerminalWritten, OnTrail, os, EndEvent, Failures
    <2>2. EndEvent(c) \in Phases /\ outcome[c] \notin {"audit", "released"}
      BY <2>1 DEF Failures
    <2> QED
      BY <2>1, <2>2, AnswersOnTrail
  <1> QED
    BY <1>1, <1>2, <1>3, <1>4, <1>5, <1>6, <1>7 DEF Admit, Writes

\* Every other step writes nothing, and a settlement decides the event to come.
LEMMA EndsOnTrail ==
  ASSUME TypeOK, NEW c \in Commands, Close(c) \/ Ends(c), OnTrail(c),
         NEW d \in Commands, OnTrail(d)
  PROVE  OnTrail(d)'
  <1>1. ASSUME NEW o \in Results \cup Failures, Settles(c, o), step[c] = "running"
        PROVE  OnTrail(d)'
    <2>1. CASE d # c
      BY <1>1, <2>1, OnTrailStays DEF Settles, os, TypeOK, CallTypeOK
    <2>2. CASE d = c
      <3>1. /\ step'[c] = IF o \in Results THEN "completing" ELSE "failing"
            /\ outcome'[c] = o /\ trail'[c] = <<"attempted">>
        BY <1>1 DEF Settles, TypeOK, CallTypeOK, OnTrail
      <3> QED
        BY <2>2, <3>1 DEF OnTrail
    <2> QED
      BY <2>1, <2>2
  <1>2. ClosedOutcome(c) \in Results \cup Failures /\ "termination" \in Failures
    BY DEF ClosedOutcome, Failures
  <1>3. CASE UNCHANGED <<call, os, trail>>
    BY <1>3, OnTrailFrame DEF os
  <1> QED
    BY <1>1, <1>2, <1>3 DEF Close, Ends, CloseResumes, TerminationRejected, StreamDeadline,
       FinishFailure, Resumes, Running

OnTrailAll == \A c \in Commands : OnTrail(c)

LEMMA OnTrailStep == TypeOK /\ SoundAll /\ OnTrailAll /\ [Next]_vars => OnTrailAll'
  <1> SUFFICES ASSUME TypeOK, SoundAll, OnTrailAll, [Next]_vars, NEW d \in Commands
               PROVE  OnTrail(d)'
    BY DEF OnTrailAll
  <1> USE DEF SoundAll, OnTrailAll
  <1>1. CASE \E c \in Commands :
                \/ Admit(c) \/ (\E ok \in BOOLEAN : Writes(c, ok)) \/ Close(c) \/ Ends(c)
    BY <1>1, AdmitOnTrail, EndsOnTrail
  <1>2. CASE UNCHANGED <<call, trail>> /\ (leader[d] = "none" => leader'[d] = "none")
    BY <1>2, OnTrailFrame
  <1>3. ASSUME NEW c \in Commands, System(c) \/ Kill(c) \/ (Child(c) /\ ~Close(c))
        PROVE  UNCHANGED <<call, trail>> /\ (leader[d] = "none" => leader'[d] = "none")
    BY <1>3 DEF System, ShellExits, DescendantExits, StreamsEnd, Kill, GroupChecked,
         SigKill, SigKillDenied, ToolEnds, ToolFails, Deadline, Advances, Child, OutputLimit,
         DecodeFails, Timeout, ClientCancels, os, TypeOK, ProcessTypeOK
  <1>4. CASE Refresh \/ ShutdownBegins \/ UNCHANGED vars
    BY <1>2, <1>4 DEF Refresh, ShutdownBegins, vars, os
  <1> QED
    BY <1>1, <1>2, <1>3, <1>4 DEF Next, Child

\* The answer a caller gets is on record exactly once, after the attempt
\* (CommandProcess.AnswerOnRecord).
THEOREM AnswersAreRecorded == Spec => []AnswerOnRecord
  <1>1. Init => OnTrailAll
    BY DEF Init, OnTrailAll, OnTrail
  <1>2. TypeOK /\ SoundAll /\ OnTrailAll => AnswerOnRecord
    <2> SUFFICES ASSUME TypeOK, SoundAll, OnTrailAll, NEW c \in Commands
                 PROVE  /\ leader[c] # "none" => trail[c] # <<>> /\ trail[c][1] = "attempted"
                        /\ Len(trail[c]) <= 2
                        /\ step[c] = "answered" /\ outcome[c] \notin {"audit", "released"} =>
                              trail[c] = <<"attempted", EndEvent(c)>>
      BY DEF AnswerOnRecord, EndEvent
    <2>1. step[c] \in Steps /\ OnTrail(c) /\ Sound(c)
      BY DEF TypeOK, CallTypeOK, SoundAll, OnTrailAll
    <2>2. \/ trail[c] = <<"attempted">>
          \/ \E p \in Phases : trail[c] = <<"attempted", p>>
          \/ trail[c] = <<>> /\ leader[c] = "none"
      BY <2>1 DEF OnTrail, Sound, Lived
    <2>3. /\ Len(trail[c]) <= 2
          /\ leader[c] # "none" => trail[c] # <<>> /\ trail[c][1] = "attempted"
      <3>1. CASE trail[c] = <<"attempted">>
        BY <3>1
      <3>2. ASSUME NEW p \in Phases, trail[c] = <<"attempted", p>>
            PROVE  Len(trail[c]) <= 2 /\ trail[c] # <<>> /\ trail[c][1] = "attempted"
        <4>1. Len(<<"attempted", p>>) = 2 /\ <<"attempted", p>>[1] = "attempted"
          OBVIOUS
        <4> QED
          BY <3>2, <4>1
      <3>3. CASE trail[c] = <<>> /\ leader[c] = "none"
        BY <3>3
      <3> QED
        BY <2>2, <3>1, <3>2, <3>3
    <2> QED
      BY <2>1, <2>3 DEF OnTrail
  <1> QED
    BY <1>1, <1>2, OnTrailStep, TypeCorrect, SoundCorrect, PTL DEF Spec

=============================================================================
