------------------------ MODULE ManagedUpdateProofs -------------------------
(***************************************************************************)
(* Updates and background jobs exclude each other, for any number of        *)
(* requests, jobs and restarts and any set of faults. The types are proved  *)
(* in three parts, which the actions of the service, of the helpers and of  *)
(* the unit mostly leave alone in turn. Last comes the pause: it ends with  *)
(* the update, which needs an invariant of the records and their writers.   *)
(***************************************************************************)
EXTENDS ManagedUpdate, TLAPS

USE DEF Worker, Ids, Writers, Pending, Ended, States, NoRecord, NoStatus, Idle, Answers

\* The types of the initial state.
LEMMA TypeInit == Init => TypeOK
  <1> SUFFICES ASSUME Init PROVE TypeOK
    OBVIOUS
  <1>1. ServiceTypeOK
    BY ManagedUpdateAssumption DEF Init, ServiceTypeOK
  <1>2. RecordsTypeOK
    BY DEF Init, RecordsTypeOK
  <1>3. SystemTypeOK
    BY ManagedUpdateAssumption DEF Init, SystemTypeOK
  <1> QED
    BY <1>1, <1>2, <1>3 DEF TypeOK

\* What leaves a part's variables alone keeps its types.
LEMMA ServiceStays ==
  ASSUME ServiceTypeOK, UNCHANGED service
  PROVE  ServiceTypeOK'
  BY DEF ServiceTypeOK, service

LEMMA RecordsStay ==
  ASSUME RecordsTypeOK, UNCHANGED <<helper, ack, records>>
  PROVE  RecordsTypeOK'
  BY DEF RecordsTypeOK, records

LEMMA SystemStays ==
  ASSUME SystemTypeOK, UNCHANGED <<system, restarts>>
  PROVE  SystemTypeOK'
  BY DEF SystemTypeOK, system

\* record() writes a record of its writer.
LEMMA RecordKeepsType ==
  ASSUME RecordsTypeOK, NEW w \in Writers, NEW i \in Ids, NEW s \in States,
         Record(w, i, s),
         helper' \in [Requests -> {"none", "waiting", "checking", "accepting",
                                   "starting", "undoing", "replied", "failed"}],
         ack' \in [Requests -> Ids]
  PROVE  RecordsTypeOK'
  BY DEF RecordsTypeOK, Record

\* The steps of startInternal keep the types of the service.
LEMMA RequestsKeepType ==
  ASSUME TypeOK, NEW r \in Requests, Start(r) \/ Attempted(r) \/ Answered(r)
  PROVE  TypeOK'
  <1> USE ManagedUpdateAssumption
  <1>1. CASE Start(r)
    <2>1. ServiceTypeOK'
      BY <1>1 DEF TypeOK, ServiceTypeOK, Start
    <2> QED
      BY <1>1, <2>1, RecordsStay, SystemStays DEF TypeOK, Start
  <1>2. CASE Attempted(r)
    <2>1. ServiceTypeOK'
      BY <1>2 DEF TypeOK, ServiceTypeOK, Attempted
    <2>2. RecordsTypeOK'
      BY <1>2 DEF TypeOK, RecordsTypeOK, Attempted, records
    <2> QED
      BY <1>2, <2>1, <2>2, SystemStays DEF TypeOK, Attempted
  <1>3. CASE Answered(r)
    <2>1. ServiceTypeOK'
      BY <1>3 DEF TypeOK, ServiceTypeOK, Answered
    <2> QED
      BY <1>3, <2>1, RecordsStay, SystemStays DEF TypeOK, Answered
  <1> QED
    BY <1>1, <1>2, <1>3

\* The answers of the controller and of status() do.
LEMMA AnswersKeepType ==
  ASSUME TypeOK, Acknowledged \/ DispatchFails \/ StatusReads \/ ShowsUnit \/ StatusArrives
  PROVE  TypeOK'
  <1> USE ManagedUpdateAssumption
  <1>1. CASE Acknowledged
    <2>1. ServiceTypeOK'
      BY <1>1 DEF TypeOK, ServiceTypeOK, RecordsTypeOK, Acknowledged, Resume
    <2> QED
      BY <1>1, <2>1, RecordsStay, SystemStays DEF TypeOK, Acknowledged
  <1>2. CASE DispatchFails
    <2>1. ServiceTypeOK'
      BY <1>2 DEF TypeOK, ServiceTypeOK, DispatchFails, Resume
    <2> QED
      BY <1>2, <2>1, RecordsStay, SystemStays DEF TypeOK, DispatchFails
  <1>3. CASE StatusReads
    <2>1. \E s \in States, b \in BOOLEAN : asked' = [state |-> s, named |-> b, early |-> FALSE]
      BY <1>3 DEF TypeOK, RecordsTypeOK, StatusReads, States
    <2>2. ServiceTypeOK'
      BY <1>3, <2>1 DEF TypeOK, ServiceTypeOK, StatusReads
    <2> QED
      BY <1>3, <2>2, RecordsStay, SystemStays DEF TypeOK, StatusReads
  <1>4. CASE StatusArrives
    <2>1. ServiceTypeOK'
      BY <1>4 DEF TypeOK, ServiceTypeOK, StatusArrives
    <2> QED
      BY <1>4, <2>1, RecordsStay, SystemStays DEF TypeOK, StatusArrives
  <1>5. CASE ShowsUnit
    <2>1. ServiceTypeOK'
      BY <1>5 DEF TypeOK, ServiceTypeOK, ShowsUnit, Reported, NoStatus, States, Ended
    <2> QED
      BY <1>5, <2>1, RecordsStay, SystemStays DEF TypeOK, ShowsUnit
  <1> QED
    BY <1>1, <1>2, <1>3, <1>4, <1>5

\* Jobs come and go.
LEMMA JobsKeepType ==
  ASSUME TypeOK, NEW j \in Jobs, JobMoves(j)
  PROVE  TypeOK'
  <1>1. ServiceTypeOK'
    BY DEF TypeOK, ServiceTypeOK, JobMoves, Submits, Admits, Leaves, Quarantines
  <1> QED
    BY <1>1, RecordsStay, SystemStays DEF TypeOK, JobMoves

\* A rename of latest.json, by any of its writers.
LEMMA RenamesKeepType ==
  ASSUME TypeOK, NEW w \in Writers, RenamesLatest(w)
  PROVE  TypeOK'
  <1>1. RecordsTypeOK'
    BY DEF TypeOK, RecordsTypeOK, RenamesLatest
  <1> QED
    BY <1>1, ServiceStays, SystemStays DEF TypeOK, RenamesLatest

\* The request helper.
LEMMA HelperKeepsType ==
  ASSUME TypeOK, NEW c \in Requests, HelperMoves(c)
  PROVE  TypeOK'
  <1> USE ManagedUpdateAssumption
  <1>1. CASE TakesLock(c)
    <2>1. RecordsTypeOK'
      BY <1>1 DEF TypeOK, RecordsTypeOK, TakesLock, Helper, records
    <2> QED
      BY <1>1, <2>1, ServiceStays, SystemStays DEF TypeOK, TakesLock
  <1>2. CASE SharesActive(c)
    <2>1. RecordsTypeOK'
      BY <1>2 DEF TypeOK, RecordsTypeOK, SharesActive, Helper, records
    <2> QED
      BY <1>2, <2>1, ServiceStays, SystemStays DEF TypeOK, SharesActive
  <1>3. CASE Supersedes(c)
    <2>1. RecordsTypeOK'
      <3>1. helper' \in [Requests -> {"none", "waiting", "checking", "accepting",
                                      "starting", "undoing", "replied", "failed"}]
            /\ ack' \in [Requests -> Ids]
        BY <1>3 DEF TypeOK, RecordsTypeOK, Supersedes, Helper
      <3>2. CASE Record(c, latest.id, "interrupted")
        BY <3>1, <3>2, RecordKeepsType DEF TypeOK, RecordsTypeOK
      <3>3. CASE UNCHANGED records
        BY <3>1, <3>3 DEF TypeOK, RecordsTypeOK, records
      <3> QED
        BY <1>3, <3>2, <3>3 DEF Supersedes
    <2> QED
      BY <1>3, <2>1, ServiceStays, SystemStays DEF TypeOK, Supersedes
  <1>4. CASE Accepts(c)
    <2>1. helper' \in [Requests -> {"none", "waiting", "checking", "accepting",
                                    "starting", "undoing", "replied", "failed"}]
          /\ ack' \in [Requests -> Ids]
      BY <1>4 DEF TypeOK, RecordsTypeOK, Accepts, Helper
    <2>2. RecordsTypeOK'
      BY <1>4, <2>1, RecordKeepsType DEF TypeOK, Accepts
    <2> QED
      BY <1>4, <2>2, ServiceStays, SystemStays DEF TypeOK, Accepts
  <1>5. CASE Starts(c)
    <2>1. helper' \in [Requests -> {"none", "waiting", "checking", "accepting",
                                    "starting", "undoing", "replied", "failed"}]
          /\ ack' \in [Requests -> Ids]
      BY <1>5 DEF TypeOK, RecordsTypeOK, Starts, Helper
    <2>2. RecordsTypeOK'
      <3>1. CASE Record(c, c, "failed")
        BY <2>1, <3>1, RecordKeepsType DEF TypeOK
      <3>2. CASE UNCHANGED records
        BY <2>1, <3>2 DEF TypeOK, RecordsTypeOK, records
      <3> QED
        BY <1>5, <3>1, <3>2 DEF Starts
    <2>3. SystemTypeOK'
      BY <1>5 DEF TypeOK, SystemTypeOK, Starts, Begins, system
    <2> QED
      BY <1>5, <2>2, <2>3, ServiceStays DEF TypeOK, Starts
  <1>6. CASE Undone(c)
    <2>1. RecordsTypeOK'
      BY <1>6 DEF TypeOK, RecordsTypeOK, Undone, Helper, records
    <2> QED
      BY <1>6, <2>1, ServiceStays, SystemStays DEF TypeOK, Undone
  <1> QED
    BY <1>1, <1>2, <1>3, <1>4, <1>5, <1>6 DEF HelperMoves

\* The worker, its finalizer and systemd.
LEMMA UnitKeepsType ==
  ASSUME TypeOK, UnitMoves \/ Killed
  PROVE  TypeOK'
  <1> USE ManagedUpdateAssumption
  <1>1. CASE ReadsLatest
    <2>1. SystemTypeOK'
      BY <1>1 DEF TypeOK, SystemTypeOK, RecordsTypeOK, ReadsLatest, Goes, At
    <2> QED
      BY <1>1, <2>1, ServiceStays, RecordsStay DEF TypeOK, ReadsLatest
  <1>2. CASE Runs
    <2>1. SystemTypeOK'
      BY <1>2 DEF TypeOK, SystemTypeOK, Runs, Goes, At
    <2>2. RecordsTypeOK'
      <3>1. CASE Record(Worker, worker.id, "running")
        BY <1>2, <3>1, RecordKeepsType DEF TypeOK, RecordsTypeOK, SystemTypeOK, Runs
      <3>2. CASE UNCHANGED records
        BY <1>2, <3>2, RecordsStay DEF TypeOK, Runs
      <3> QED
        BY <1>2, <3>1, <3>2 DEF Runs
    <2> QED
      BY <1>2, <2>1, <2>2, ServiceStays DEF TypeOK, Runs
  <1>3. CASE Installed
    <2>1. SystemTypeOK'
      BY <1>3 DEF TypeOK, SystemTypeOK, Installed, Goes, At
    <2>2. RecordsTypeOK'
      <3>1. PICK s \in {"succeeded", "failed"} : Record(Worker, worker.id, s)
        BY <1>3 DEF Installed
      <3> QED
        BY <1>3, <3>1, RecordKeepsType DEF TypeOK, RecordsTypeOK, SystemTypeOK, Installed
    <2> QED
      BY <1>3, <2>1, <2>2, ServiceStays DEF TypeOK, Installed
  <1>4. CASE Finishes
    <2>1. SystemTypeOK'
      BY <1>4 DEF TypeOK, SystemTypeOK, Finishes, Goes, At
    <2>2. RecordsTypeOK'
      <3>1. CASE Record(Worker, latest.id, "interrupted")
        BY <1>4, <3>1, RecordKeepsType DEF TypeOK, RecordsTypeOK, Finishes
      <3>2. CASE UNCHANGED records
        BY <1>4, <3>2, RecordsStay DEF TypeOK, Finishes
      <3> QED
        BY <1>4, <3>1, <3>2 DEF Finishes
    <2> QED
      BY <1>4, <2>1, <2>2, ServiceStays DEF TypeOK, Finishes
  <1>5. CASE Stops
    <2>1. SystemTypeOK'
      BY <1>5 DEF TypeOK, SystemTypeOK, Stops
    <2>2. RecordsTypeOK'
      BY <1>5 DEF TypeOK, RecordsTypeOK, Stops
    <2> QED
      BY <1>5, <2>1, <2>2, ServiceStays DEF TypeOK, Stops
  <1>6. CASE RenamesLatest(Worker)
    BY <1>6, RenamesKeepType
  <1>7. CASE Killed
    <2>1. SystemTypeOK'
      BY <1>7 DEF TypeOK, SystemTypeOK, Killed, Goes
    <2>2. RecordsTypeOK'
      BY <1>7 DEF TypeOK, RecordsTypeOK, Killed
    <2> QED
      BY <1>7, <2>1, <2>2, ServiceStays DEF TypeOK, Killed
  <1> QED
    BY <1>1, <1>2, <1>3, <1>4, <1>5, <1>6, <1>7 DEF UnitMoves

\* A restart forgets what the service knew.
LEMMA RestartKeepsType ==
  ASSUME TypeOK, InstallerRestarts \/ StopsAndStarts \/ PowerLoss
  PROVE  TypeOK'
  <1> USE ManagedUpdateAssumption
  <1>1. ServiceTypeOK'
    <2>1. ServiceRestarts
      BY DEF InstallerRestarts, StopsAndStarts, PowerLoss
    <2>2. /\ req' \in [Requests -> Answers \cup {"idle", "attempting", "dispatched",
                                                 "recording", "failing"}]
          /\ \A r \in Requests : req'[r] # "dispatched"
      BY <2>1 DEF TypeOK, ServiceTypeOK, ServiceRestarts, Operations
    <2>3. asked' \in [state : States, named : BOOLEAN, early : BOOLEAN]
      BY <2>1 DEF ServiceRestarts, NoStatus, States
    <2>4. job' \in [Jobs -> {"none", "submitting", "live", "counted"}]
      BY <2>1 DEF ServiceRestarts
    <2> QED
      BY <2>1, <2>2, <2>3, <2>4 DEF ServiceTypeOK, ServiceRestarts
  <1>2. restarts' \in 0..MaxRestarts
    BY DEF TypeOK, SystemTypeOK, InstallerRestarts, StopsAndStarts, PowerLoss,
           ServiceRestarts
  <1>3. CASE PowerLoss
    <2>1. RecordsTypeOK'
      BY <1>3 DEF TypeOK, RecordsTypeOK, PowerLoss
    <2>2. SystemTypeOK'
      BY <1>2, <1>3 DEF TypeOK, SystemTypeOK, PowerLoss
    <2> QED
      BY <1>1, <2>1, <2>2 DEF TypeOK
  <1>4. CASE InstallerRestarts \/ StopsAndStarts
    <2>1. SystemTypeOK'
      BY <1>2, <1>4 DEF TypeOK, SystemTypeOK, InstallerRestarts, StopsAndStarts, system
    <2>2. RecordsTypeOK'
      BY <1>4 DEF TypeOK, RecordsTypeOK, InstallerRestarts, StopsAndStarts, HelpersEnd
    <2> QED
      BY <1>1, <2>1, <2>2 DEF TypeOK
  <1> QED
    BY <1>3, <1>4

\* Every step keeps the types.
LEMMA TypeStep == TypeOK /\ [Next]_vars => TypeOK'
  <1> SUFFICES ASSUME TypeOK, [Next]_vars PROVE TypeOK'
    OBVIOUS
  <1>1. CASE UNCHANGED vars
    BY <1>1, ServiceStays, RecordsStay, SystemStays DEF TypeOK, vars
  <1>2. CASE \E r \in Requests :
                Start(r) \/ Attempted(r) \/ Answered(r) \/ HelperMoves(r) \/ RenamesLatest(r)
    BY <1>2, RequestsKeepType, HelperKeepsType, RenamesKeepType
  <1>3. CASE Acknowledged \/ DispatchFails \/ StatusReads \/ ShowsUnit \/ StatusArrives
    BY <1>3, AnswersKeepType
  <1>4. CASE \E j \in Jobs : JobMoves(j)
    BY <1>4, JobsKeepType
  <1>5. CASE UnitMoves \/ Killed
    BY <1>5, UnitKeepsType
  <1>6. CASE InstallerRestarts \/ StopsAndStarts \/ PowerLoss
    BY <1>6, RestartKeepsType
  <1> QED
    BY <1>1, <1>2, <1>3, <1>4, <1>5, <1>6 DEF Next

\* Every variable of the service, the helpers, the records and the unit keeps
\* its type in every behaviour (ManagedUpdate.TypeOK).
THEOREM TypeCorrect == Spec => []TypeOK
  BY TypeInit, TypeStep, PTL DEF Spec

-----------------------------------------------------------------------------
(* DispatchExcludesJobs. Its two sides check each other in one handler: the *)
(* request before it dispatches, the job when it is admitted. TypeOK ties   *)
(* the acknowledgement to a request that is still waiting for it.           *)

\* No step lets a job in while an update is under way, or an update in while a
\* job is.
LEMMA ExclusionStep == TypeOK /\ DispatchExcludesJobs /\ [Next]_vars => DispatchExcludesJobs'
  <1> SUFFICES ASSUME TypeOK, DispatchExcludesJobs, [Next]_vars
               PROVE  DispatchExcludesJobs'
    OBVIOUS
  <1> USE DEF DispatchExcludesJobs, TypeOK, ServiceTypeOK
  <1>1. CASE UNCHANGED <<req, accepted, job>>
    BY <1>1
  <1>2. CASE \E r \in Requests : Start(r) \/ Answered(r)
    BY <1>2 DEF Start, Answered
  <1>3. CASE \E r \in Requests : Attempted(r)
    <2>1. PICK r \in Requests : Attempted(r)
      BY <1>3
    <2>2. CASE HasActive
      BY <2>1, <2>2 DEF Attempted
    <2>3. CASE ~HasActive
      <3>1. \A j \in Jobs : job'[j] # "live"
        BY <2>1, <2>3 DEF Attempted, HasActive
      <3> QED
        BY <3>1
    <2> QED
      BY <2>2, <2>3
  <1>4. CASE Acknowledged
    <2>1. \A j \in Jobs : job[j] # "live"
      BY <1>4 DEF Acknowledged
    <2> QED
      BY <1>4, <2>1 DEF Acknowledged
  <1>5. CASE DispatchFails \/ StatusReads \/ ShowsUnit \/ StatusArrives
    BY <1>5 DEF DispatchFails, Resume, StatusReads, ShowsUnit, StatusArrives
  <1>6. CASE \E j \in Jobs : JobMoves(j)
    <2>1. PICK j \in Jobs : JobMoves(j)
      BY <1>6
    <2>2. CASE Admits(j) /\ ~Busy
      BY <2>1, <2>2 DEF Admits, Busy, Operations, JobMoves
    <2>3. CASE Submits(j) \/ Leaves(j) \/ Quarantines(j) \/ (Admits(j) /\ Busy)
      BY <2>1, <2>3 DEF JobMoves, Submits, Leaves, Quarantines, Admits
    <2> QED
      BY <2>1, <2>2, <2>3 DEF JobMoves
  <1>7. CASE InstallerRestarts \/ StopsAndStarts \/ PowerLoss
    BY <1>7 DEF InstallerRestarts, StopsAndStarts, PowerLoss, ServiceRestarts
  <1>8. CASE UnitMoves \/ Killed \/ \E r \in Requests : HelperMoves(r) \/ RenamesLatest(r)
    BY <1>1, <1>8 DEF UnitMoves, ReadsLatest, Runs, Installed, Finishes, Stops,
         RenamesLatest, Killed, HelperMoves, TakesLock, SharesActive, Supersedes,
         Accepts, Starts, Undone, service
  <1> QED
    BY <1>1, <1>2, <1>3, <1>4, <1>5, <1>6, <1>7, <1>8 DEF Next, vars, service

\* While an update is being requested or is known to be under way, no
\* background job is admitted, queued or running
\* (ManagedUpdate.DispatchExcludesJobs).
THEOREM UpdatesExcludeJobs == Spec => []DispatchExcludesJobs
  <1>1. Init => DispatchExcludesJobs
    BY DEF Init, DispatchExcludesJobs
  <1>2. TypeOK /\ TypeOK' /\ DispatchExcludesJobs /\ [Next]_vars => DispatchExcludesJobs'
    BY ExclusionStep
  <1> QED
    BY <1>1, <1>2, TypeCorrect, PTL DEF Spec

-----------------------------------------------------------------------------
(* PauseEndsWithUpdate.  A status that was asked for since the acceptance    *)
(* ends the pause only when it shows an end.  It shows latest.json, so what  *)
(* is needed is that the record of an accepted update cannot be replaced     *)
(* there before the update is over, and does not start again afterwards.  If *)
(* the end it shows is that of the unit, the unit is down still, or has been *)
(* started again, and that is done only when every earlier update is over.   *)

Locking == {"checking", "accepting", "starting", "undoing"}
Early   == {"none", "waiting", "checking", "accepting"}
\* The update i is over, or was recorded as one that could not be started.
Off(i)  == file[i] \notin Pending \/ helper[i] = "failed"
Over(i) == file[i] \notin Pending \/ helper[i] \in {"undoing", "failed"}

\* Nothing is known of a request whose helper has not accepted it.
Unknown(c) == /\ file[c] = "none" /\ latest.id # c /\ worker.id # c /\ heard # c
              /\ \A w \in Writers : saving[w].id # c
              /\ \A d \in Requests : ack[d] # c

\* Where the helper is in its writes.  It replaces latest.json only while the
\* unit is down and every earlier update is over.
Writing(c) ==
    /\ helper[c] \in Early => Unknown(c)
    /\ ~Saved(c) => helper[c] \in {"accepting", "starting", "undoing"}
    /\ helper[c] = "accepting" =>
          /\ unit = "inactive" /\ \A i \in Requests : Off(i)
          /\ ~Saved(c) => saving[c] = [id |-> latest.id, state |-> "interrupted"]
    /\ helper[c] = "starting" =>
          /\ unit = "inactive" /\ file[c] = "accepted"
          /\ \A i \in Requests \ {c} : Off(i)
          /\ IF Saved(c) THEN latest = [id |-> c, state |-> "accepted"]
                         ELSE saving[c] = [id |-> c, state |-> "accepted"]
    /\ helper[c] = "undoing" =>
          /\ latest.id = c
          /\ ~Saved(c) => saving[c] = [id |-> c, state |-> "failed"]
    /\ ack[c] # 0 => helper[ack[c]] \in {"replied", "failed"}

\* The worker writes of the update that latest.json names.
Working ==
    /\ unit = "inactive" => Saved(Worker)
    /\ saving[Worker].id \in {0, latest.id} /\ saving[Worker].state # "accepted"
    /\ worker.step \in {"sleeping", "installing"} => worker.id = latest.id /\ worker.id # 0
    /\ worker.step = "sleeping" =>
          file[worker.id] = "accepted" \/ helper[worker.id] \in {"undoing", "failed"}
    /\ worker.step = "begin" /\ latest.state = "accepted" =>
          file[latest.id] = "accepted" \/ helper[latest.id] \in {"undoing", "failed"}

RecordsInv ==
    /\ latest.id = 0 <=> latest.state = "none"
    /\ \A w \in Writers : /\ saving[w].id = 0 <=> saving[w].state = "none"
                          /\ saving[w].state \in Ended => Over(saving[w].id)
    /\ latest.state \in Ended => Over(latest.id)
    /\ \A i \in Requests : file[i] \in Pending => latest.id = i \/ helper[i] \in {"starting", "failed"}
    /\ \A c, d \in Requests : helper[c] \in Locking /\ helper[d] \in Locking => c = d
    /\ \A r \in Requests : req[r] \in {"idle", "attempting"} => helper[r] = "none"
    /\ heard # 0 => helper[heard] \in {"replied", "failed"}

\* A status asked for since the acceptance.
AskInv == ~asked.named /\ ~asked.early /\ accepted /\ heard # 0
             /\ asked.state \in Ended => Off(heard) \/ unit = "inactive"

Books    == RecordsInv /\ Working /\ \A c \in Requests : Writing(c)
PauseInv == Books /\ AskInv

\* Nothing is recorded at first.
LEMMA PauseInit == Init => PauseInv
  BY ManagedUpdateAssumption
  DEF Init, PauseInv, Books, RecordsInv, Working, AskInv, Writing, Unknown, Saved, Locking, Early

\* What was over stays over, and a helper that has ended stays so, or is lost
\* with the machine.
OverStays == \A i \in Requests : helper[i] \in {"replied", "failed"} =>
                 /\ Off(i) => Off(i)'
                 /\ helper'[i] \in {helper[i], "failed"}

\* What the books rest on.
Kept == Books' /\ OverStays

\* A step that leaves the records, the helpers and the unit alone.
LEMMA BooksRest ==
  ASSUME TypeOK, Books, UNCHANGED <<helper, ack, records, system>>,
         \A r \in Requests : req'[r] \in {"idle", "attempting"} => req[r] \in {"idle", "attempting"},
         heard' = heard \/ heard' = 0 \/ (\E c \in Requests : helper[c] = "replied" /\ heard' = ack[c])
  PROVE  Kept
<1>1. heard' # 0 => heard' \in Requests /\ helper[heard'] \in {"replied", "failed"}
  BY DEF Books, RecordsInv, Writing, TypeOK, ServiceTypeOK, RecordsTypeOK
<1>2. RecordsInv'
  BY <1>1 DEF Books, RecordsInv, records, Over
<1>3. Working'
  BY DEF Books, Working, records, system, Saved
<1>4. ASSUME NEW c \in Requests PROVE Writing(c)'
  <2>1. helper[c] \in Early => heard' # c
    BY <1>1, ManagedUpdateAssumption DEF Early
  <2> QED
    BY <2>1 DEF Books, Writing, Unknown, records, system, Saved, Off
<1> QED
  BY <1>2, <1>3, <1>4 DEF Books, OverStays, Off, records, Kept

\* The service.
LEMMA ServiceKeeps ==
  ASSUME TypeOK, Books,
         \/ \E r \in Requests : Start(r) \/ Attempted(r) \/ Answered(r)
         \/ Acknowledged \/ DispatchFails \/ StatusReads \/ ShowsUnit \/ StatusArrives
         \/ \E j \in Jobs : JobMoves(j)
  PROVE  Kept
<1>1. CASE \E r \in Requests : Attempted(r) /\ helper' # helper
  <2>1. PICK r \in Requests : Attempted(r) /\ helper' # helper
    BY <1>1
  <2>2. /\ req[r] = "attempting" /\ req' = [req EXCEPT ![r] = "dispatched"]
        /\ helper[r] = "none" /\ helper' = [helper EXCEPT ![r] = "waiting"]
        /\ UNCHANGED <<heard, ack, records, system>>
    BY <2>1 DEF Attempted, Books, RecordsInv
  <2>3. helper'[r] = "waiting" /\ \A c \in Requests : c # r => helper'[c] = helper[c]
    BY <2>2 DEF TypeOK, RecordsTypeOK
  <2>4. Unknown(r) /\ Saved(r)
    BY <2>2 DEF Books, Writing, Early
  <2>5. RecordsInv'
    BY <2>2, <2>3, <2>4 DEF Books, RecordsInv, Over, Unknown, Locking, TypeOK, ServiceTypeOK,
       RecordsTypeOK, records
  <2>6. Working'
    BY <2>2, <2>3, <2>4 DEF Books, Working, Unknown, Saved, records, system
  <2>7. ASSUME NEW c \in Requests PROVE Writing(c)'
    BY <2>2, <2>3, <2>4, <2>7 DEF Books, Writing, Unknown, Saved, Off, Early, records, system
  <2> QED
    BY <2>2, <2>3, <2>5, <2>6, <2>7 DEF Kept, Books, OverStays, Off, records
<1>2. CASE \E r \in Requests : Attempted(r) /\ helper' = helper
  BY <1>2, BooksRest DEF Attempted, TypeOK, ServiceTypeOK
<1>3. CASE \E r \in Requests : Start(r) \/ Answered(r)
  BY <1>3, BooksRest DEF Start, Answered, TypeOK, ServiceTypeOK
<1>4. CASE Acknowledged
  BY <1>4, BooksRest DEF Acknowledged, Resume, TypeOK, ServiceTypeOK
<1>5. CASE DispatchFails
  BY <1>5, BooksRest DEF DispatchFails, Resume, TypeOK, ServiceTypeOK
<1>6. CASE StatusReads \/ ShowsUnit \/ StatusArrives \/ \E j \in Jobs : JobMoves(j)
  BY <1>6, BooksRest DEF StatusReads, ShowsUnit, StatusArrives, JobMoves
<1> QED
  BY <1>1, <1>2, <1>3, <1>4, <1>5, <1>6

\* The types the books are read with.
LEMMA Typed ==
  ASSUME TypeOK
  PROVE  /\ 0 \notin Requests /\ Worker \notin Requests
         /\ latest.id \in Ids /\ latest.state \in States
         /\ worker.id \in Ids /\ heard \in Ids
         /\ \A w \in Writers : saving[w].id \in Ids /\ saving[w].state \in States
         /\ \A c \in Requests : /\ ack[c] \in Ids /\ file[c] \in States
                                /\ helper[c] \in Early \cup {"starting", "undoing", "replied", "failed"}
  BY ManagedUpdateAssumption
  DEF TypeOK, ServiceTypeOK, RecordsTypeOK, SystemTypeOK, Early

\* The helper takes the lock, and shares an update that is under way: the one
\* latest.json names then, whose helper has ended.
LEMMA LockKeeps ==
  ASSUME TypeOK, Books, NEW c \in Requests, TakesLock(c) \/ SharesActive(c) \/ Undone(c)
  PROVE  Kept
<1>1. CASE TakesLock(c)
  <2>1. /\ helper[c] = "waiting" /\ helper'[c] \in {"checking", "failed"}
        /\ \A d \in Requests : d # c => helper'[d] = helper[d]
        /\ helper'[c] = "checking" => \A d \in Requests : helper[d] \notin Locking
        /\ UNCHANGED <<service, ack, records, system>>
    BY <1>1 DEF TakesLock, Helper, Locked, Locking, TypeOK, RecordsTypeOK
  <2>2. Unknown(c) /\ Saved(c)
    BY <2>1 DEF Books, Writing, Early
  <2>3. RecordsInv'
    BY <2>1, <2>2, Typed DEF Books, RecordsInv, Over, Unknown, Locking, records, service
  <2>4. Working'
    BY <2>1, <2>2, Typed DEF Books, RecordsInv, Working, Unknown, Saved, records, system
  <2>5. ASSUME NEW d \in Requests PROVE Writing(d)'
    <3>1. Writing(d) /\ (helper[d] \in Early => Unknown(d))
      BY DEF Books, Writing
    <3>2. helper'[d] \in Early => Unknown(d)'
      BY <2>1, <2>2, <3>1 DEF Unknown, Early, records, system, service
    <3>3. \A i \in Requests : Off(i) => Off(i)'
      BY <2>1 DEF Off, records
    <3>4. ack[d] # 0 => ack[d] # c /\ ack[d] \in Requests
      BY <2>2, Typed DEF Unknown
    <3> QED
      BY <2>1, <2>2, <3>1, <3>2, <3>3, <3>4 DEF Writing, Saved, Early, records, system
  <2> QED
    BY <2>1, <2>3, <2>4, <2>5 DEF Kept, Books, OverStays, Off, records
<1>2. CASE SharesActive(c)
  <2>1. /\ helper[c] = "checking" /\ helper'[c] = "replied"
        /\ \A d \in Requests : d # c => helper'[d] = helper[d]
        /\ ack'[c] = latest.id /\ \A d \in Requests : d # c => ack'[d] = ack[d]
        /\ unit # "inactive"
        /\ UNCHANGED <<service, records, system>>
    BY <1>2 DEF SharesActive, Helper, UnitActive, TypeOK, RecordsTypeOK
  <2>2. Unknown(c) /\ Saved(c)
    BY <2>1 DEF Books, Writing, Early
  <2>3. latest.id # 0 => latest.id \in Requests /\ helper[latest.id] \in {"replied", "failed"}
    <3> SUFFICES ASSUME latest.id # 0
                 PROVE  latest.id \in Requests /\ helper[latest.id] \in {"replied", "failed"}
      OBVIOUS
    <3>1. latest.id \in Requests /\ latest.id # c
      BY <2>2 DEF Unknown, TypeOK, RecordsTypeOK
    <3>2. helper[latest.id] \notin Early
      BY <3>1 DEF Books, Writing, Unknown
    <3>3. helper[latest.id] \notin Locking
      BY <2>1, <3>1 DEF Books, RecordsInv, Locking
    <3> QED
      BY <3>1, <3>2, <3>3 DEF Early, Locking, TypeOK, RecordsTypeOK
  <2>4. RecordsInv'
    BY <2>1, <2>2, Typed DEF Books, RecordsInv, Over, Unknown, Locking, records, service
  <2>5. Working'
    BY <2>1, <2>2, Typed DEF Books, RecordsInv, Working, Unknown, Saved, records, system
  <2>6. ASSUME NEW d \in Requests PROVE Writing(d)'
    <3>1. (helper[d] \in Early => Unknown(d))'
      <4>1. d # c /\ helper[d] \in Early => Unknown(d)
        BY DEF Books, Writing
      <4> QED
        BY <2>1, <4>1 DEF Unknown, Early, records, system, service
    <3>2. (ack[d] # 0 => helper[ack[d]] \in {"replied", "failed"})'
      <4>1. ack[d] # 0 => ack[d] # c /\ ack[d] \in Requests
        BY <2>2 DEF Unknown, TypeOK, RecordsTypeOK
      <4>2. ack[d] # 0 => helper[ack[d]] \in {"replied", "failed"}
        BY DEF Books, Writing
      <4> QED
        BY <2>1, <2>2, <2>3, <4>1, <4>2 DEF Unknown
    <3> QED
      BY <2>1, <2>2, <3>1, <3>2 DEF Books, Writing, Saved, Off, Early, Locking, records, system
  <2> QED
    BY <2>1, <2>4, <2>5, <2>6 DEF Kept, Books, OverStays, Off, records
<1>3. CASE Undone(c)
  <2>1. /\ helper[c] = "undoing" /\ helper'[c] = "failed" /\ Saved(c)
        /\ \A d \in Requests : d # c => helper'[d] = helper[d]
        /\ UNCHANGED <<service, ack, records, system>>
    BY <1>3 DEF Undone, Helper, TypeOK, RecordsTypeOK
  <2>2. RecordsInv'
    BY <2>1, Typed DEF Books, RecordsInv, Over, Locking, records, service
  <2>3. Working'
    BY <2>1, Typed DEF Books, RecordsInv, Working, Saved, records, system
  <2>4. ASSUME NEW d \in Requests PROVE Writing(d)'
    BY <2>1, Typed DEF Books, Writing, Unknown, Saved, Off, Early, Locking, records, system, service
  <2> QED
    BY <2>1, <2>2, <2>3, <2>4 DEF Kept, Books, OverStays, Off, records
<1> QED
  BY <1>1, <1>2, <1>3

\* With the unit down and the lock held before it accepts, a helper finds every
\* earlier update over, but for the one latest.json may still call pending.
LEMMA SupersedesKeeps ==
  ASSUME TypeOK, Books, NEW c \in Requests, Supersedes(c)
  PROVE  Kept
<1>1. /\ helper[c] = "checking" /\ helper'[c] = "accepting" /\ unit = "inactive"
      /\ \A d \in Requests : d # c => helper'[d] = helper[d]
      /\ \A d \in Requests : d # c => helper[d] \notin Locking
      /\ UNCHANGED <<service, ack, latest, system>>
  BY DEF Supersedes, Record, records, Helper, UnitActive, Books, RecordsInv, Locking, TypeOK,
         RecordsTypeOK, SystemTypeOK
<1>2. Unknown(c) /\ Saved(c) /\ Saved(Worker)
  BY <1>1 DEF Books, Writing, Working, Early
<1>3. \/ /\ latest.state \in Pending /\ latest.id \in Requests \ {c}
         /\ file' = [file EXCEPT ![latest.id] = "interrupted"]
         /\ saving' = [saving EXCEPT ![c] = [id |-> latest.id, state |-> "interrupted"]]
      \/ latest.state \notin Pending /\ UNCHANGED <<file, saving>>
  BY <1>2 DEF Supersedes, Record, records, Books, RecordsInv, Unknown, TypeOK, RecordsTypeOK
<1>4. \A i \in Requests : Off(i)'
  <2> SUFFICES ASSUME NEW i \in Requests, file'[i] \in Pending PROVE helper'[i] = "failed"
    BY DEF Off
  <2>1. file[i] \in Pending /\ (latest.state \notin Pending \/ latest.id # i)
    BY <1>3 DEF TypeOK, RecordsTypeOK
  <2>2. i # c
    BY <1>2, <2>1 DEF Unknown
  <2>3. CASE latest.id = i
    <3>1. latest.state \in Ended
      BY <2>1, <2>3, Typed DEF Books, RecordsInv
    <3> QED
      BY <1>1, <2>1, <2>2, <2>3, <3>1 DEF Books, RecordsInv, Over, Locking
  <2>4. CASE latest.id # i
    BY <1>1, <2>1, <2>2, <2>4 DEF Books, RecordsInv, Locking
  <2> QED
    BY <2>3, <2>4
<1>5. \A i \in Requests : file'[i] = file[i] \/ (i = latest.id /\ file'[i] = "interrupted")
  BY <1>3 DEF TypeOK, RecordsTypeOK
<1>6. \A w \in Writers : saving'[w] = saving[w]
         \/ (w = c /\ latest.id \in Requests \ {c} /\ file'[latest.id] = "interrupted"
                   /\ saving'[w] = [id |-> latest.id, state |-> "interrupted"])
  BY <1>3 DEF TypeOK, RecordsTypeOK
<1>7. RecordsInv'
  BY <1>1, <1>2, <1>4, <1>5, <1>6, Typed DEF Books, RecordsInv, Over, Off, Unknown, Locking, service
<1>8. Working'
  <2>1. c # Worker /\ saving'[Worker] = saving[Worker]
    BY <1>6, ManagedUpdateAssumption
  <2> QED
    BY <1>1, <1>2, <2>1, Typed DEF Books, Working, Saved, system, TypeOK, SystemTypeOK
<1>9. ASSUME NEW d \in Requests PROVE Writing(d)'
  <2>1. (helper[d] \in Early => Unknown(d))'
    <3>1. helper'[d] \in Early => Unknown(d)
      <4>1. helper[d] \in Early => Unknown(d)
        BY DEF Books, Writing
      <4> QED
        BY <1>1, <1>2, <4>1 DEF Early
    <3> QED
      BY <1>1, <1>5, <1>6, <3>1 DEF Unknown, system, service
  <2>2. d # c => saving'[d] = saving[d]
    BY <1>6
  <2>3. CASE d = c
    <3>1. ~Saved(c)' => saving'[c] = [id |-> latest'.id, state |-> "interrupted"]
      BY <1>1, <1>2, <1>3 DEF Saved, TypeOK, RecordsTypeOK
    <3>2. (ack[c] # 0 => helper[ack[c]] \in {"replied", "failed"})'
      <4>1. ack[c] # 0 => ack[c] \in Requests \ {c} /\ helper[ack[c]] \in {"replied", "failed"}
        BY <1>2, Typed DEF Books, Writing, Unknown
      <4> QED
        BY <1>1, <4>1 DEF service
    <3> QED
      BY <1>1, <1>4, <2>1, <2>3, <3>1, <3>2 DEF Writing, system
  <2>4. CASE d # c
    <3>1. Writing(d)
      BY DEF Books
    <3>2. ack[d] # 0 => ack[d] # c /\ ack[d] \in Requests
      BY <1>2, Typed DEF Unknown
    <3> QED
      BY <1>1, <2>1, <2>2, <2>4, <3>1, <3>2 DEF Writing, Saved, Early, Locking, service
  <2> QED
    BY <2>3, <2>4
<1> QED
  BY <1>1, <1>4, <1>7, <1>8, <1>9 DEF Kept, Books, OverStays

\* Nobody knows of the job a helper is about to accept, and the worker is down.
LEMMA AcceptsKeeps ==
  ASSUME TypeOK, Books, NEW c \in Requests, Accepts(c)
  PROVE  Kept
<1>1. /\ helper[c] = "accepting" /\ helper'[c] = "starting" /\ unit = "inactive"
      /\ \A d \in Requests : d # c => helper'[d] = helper[d] /\ helper[d] \notin Locking
      /\ file'[c] = "accepted" /\ \A i \in Requests : i # c => file'[i] = file[i]
      /\ saving'[c] = [id |-> c, state |-> "accepted"]
      /\ \A w \in Writers : w # c => saving'[w] = saving[w]
      /\ \A i \in Requests : Off(i)
      /\ UNCHANGED <<service, ack, latest, system>>
  BY DEF Accepts, Record, Helper, Books, RecordsInv, Writing, Locking, TypeOK, RecordsTypeOK
<1>2. Unknown(c) /\ Saved(c) /\ Saved(Worker)
  BY <1>1 DEF Books, Writing, Working, Early, Accepts
<1>3. RecordsInv'
  BY <1>1, <1>2, Typed DEF Books, RecordsInv, Over, Off, Unknown, Locking, service
<1>4. Working'
  BY <1>1, <1>2, Typed DEF Books, Working, Saved, system, TypeOK, SystemTypeOK
<1>5. ASSUME NEW d \in Requests PROVE Writing(d)'
  <2>1. Writing(d)
    BY DEF Books
  <2>2. (helper[d] \in Early => Unknown(d))'
    <3>1. helper'[d] \in Early => d # c /\ Unknown(d)
      BY <1>1, <2>1 DEF Writing, Early
    <3> QED
      BY <1>1, <3>1 DEF Unknown, system, service
  <2>3. ack[d] # 0 => ack[d] \in Requests \ {c}
    BY <1>2, Typed DEF Unknown
  <2>4. CASE d = c
    <3>1. \A i \in Requests \ {c} : Off(i)'
      BY <1>1 DEF Off
    <3>2. (ack[c] # 0 => helper[ack[c]] \in {"replied", "failed"})'
      BY <1>1, <2>1, <2>3, <2>4 DEF Writing, service
    <3> QED
      BY <1>1, <2>2, <2>4, <3>1, <3>2, ManagedUpdateAssumption DEF Writing, Saved, system
  <2>5. CASE d # c
    BY <1>1, <2>1, <2>2, <2>3, <2>5 DEF Writing, Saved, Early, Locking
  <2> QED
    BY <2>4, <2>5
<1> QED
  BY <1>1, <1>3, <1>4, <1>5 DEF Kept, Books, OverStays, Off

\* The unit is started, or given up although it may have been started: its
\* worker finds the record of a helper that is undoing it.
LEMMA StartsKeeps ==
  ASSUME TypeOK, Books, NEW c \in Requests, Starts(c)
  PROVE  Kept
<1>1. /\ helper[c] = "starting" /\ unit = "inactive" /\ worker.step = "none"
      /\ Saved(c) /\ Saved(Worker) /\ latest = [id |-> c, state |-> "accepted"]
      /\ file[c] = "accepted" /\ \A i \in Requests \ {c} : Off(i)
  BY DEF Starts, Books, Writing, Working, TypeOK, SystemTypeOK
<1>2. /\ \A d \in Requests : d # c => /\ helper'[d] = helper[d] /\ helper[d] \notin Locking
                                      /\ ack'[d] = ack[d] /\ file'[d] = file[d]
      /\ \A w \in Writers : w # c => saving'[w] = saving[w]
      /\ UNCHANGED <<service, latest>>
      /\ \/ /\ helper'[c] = "replied" /\ ack'[c] = c /\ UNCHANGED <<file, saving>>
         \/ /\ helper'[c] = "undoing" /\ ack'[c] = ack[c] /\ file'[c] = "failed"
            /\ saving'[c] = [id |-> c, state |-> "failed"]
      /\ \/ unit' # "inactive" /\ worker' = [step |-> "begin", id |-> 0]
         \/ UNCHANGED system
  <2>1. \A d \in Requests : d # c => helper[d] \notin Locking
    BY <1>1 DEF Books, RecordsInv, Locking
  <2>2. \/ unit' # "inactive" /\ worker' = [step |-> "begin", id |-> 0]
        \/ UNCHANGED system
    BY DEF Starts, Begins
  <2>3. CASE Helper(c, "replied") /\ ack' = [ack EXCEPT ![c] = c] /\ UNCHANGED records
    BY <2>1, <2>2, <2>3 DEF Starts, Helper, records, TypeOK, RecordsTypeOK
  <2>4. CASE Record(c, c, "failed") /\ Helper(c, "undoing") /\ UNCHANGED ack
    BY <2>1, <2>2, <2>4 DEF Starts, Helper, Record, TypeOK, RecordsTypeOK
  <2> QED
    BY <2>3, <2>4 DEF Starts
<1>3. \A i \in Requests : Off(i) => Off(i)'
  BY <1>1, <1>2 DEF Off
<1>4. \A i \in Requests : i # c => (Over(i) => Over(i)')
  BY <1>2 DEF Over
<1>5. RecordsInv'
  <2>1. latest' = latest /\ heard' = heard /\ req' = req
    BY <1>2 DEF service
  <2>2. (latest.id = 0 <=> latest.state = "none")' /\ (latest.state \in Ended => Over(latest.id))'
    BY <1>1, <2>1, Typed
  <2>3. ASSUME NEW w \in Writers
        PROVE  /\ (saving[w].id = 0 <=> saving[w].state = "none")'
               /\ (saving[w].state \in Ended => Over(saving[w].id))'
    <3>1. CASE w = c
      BY <1>1, <1>2, <3>1, Typed DEF Over, Saved
    <3>2. CASE w # c
      <4>1. saving'[w] = saving[w]
        BY <1>2, <3>2
      <4>2. saving[w].state \in Ended => saving[w].id \in Requests /\ Over(saving[w].id)
        BY Typed DEF Books, RecordsInv
      <4>3. (saving[w].id = c /\ Over(c)) => Over(c)'
        BY <1>1 DEF Over
      <4> QED
        BY <1>4, <4>1, <4>2, <4>3 DEF Books, RecordsInv
    <3> QED
      BY <3>1, <3>2
  <2>4. \A i \in Requests : (file[i] \in Pending => latest.id = i \/ helper[i] \in {"starting", "failed"})'
    BY <1>1, <1>2 DEF Off
  <2>5. (\A d, e \in Requests : helper[d] \in Locking /\ helper[e] \in Locking => d = e)'
    BY <1>2
  <2>6. (\A r \in Requests : req[r] \in {"idle", "attempting"} => helper[r] = "none")'
    BY <1>1, <1>2, <2>1 DEF Books, RecordsInv
  <2>7. (heard # 0 => helper[heard] \in {"replied", "failed"})'
    BY <1>1, <1>2, <2>1, Typed DEF Books, RecordsInv
  <2> QED
    BY <2>2, <2>3, <2>4, <2>5, <2>6, <2>7 DEF RecordsInv
<1>6. Working'
  BY <1>1, <1>2, Typed DEF Books, Working, Saved, system
<1>7. ASSUME NEW d \in Requests PROVE Writing(d)'
  <2>1. Writing(d)
    BY DEF Books
  <2>2. (helper[d] \in Early => Unknown(d))'
    <3>1. helper'[d] \in Early => d # c /\ Unknown(d)
      BY <1>2, <2>1 DEF Writing, Early
    <3> QED
      BY <1>1, <1>2, <3>1, Typed DEF Unknown, system, service, Saved
  <2>3. (ack[d] # 0 => helper[ack[d]] \in {"replied", "failed"})'
    BY <1>1, <1>2, <2>1, Typed DEF Writing
  <2>4. CASE d = c
    BY <1>1, <1>2, <2>2, <2>3, <2>4 DEF Writing, Saved
  <2>5. CASE d # c
    BY <1>2, <2>1, <2>2, <2>3, <2>5 DEF Writing, Saved, Early, Locking
  <2> QED
    BY <2>4, <2>5
<1> QED
  BY <1>1, <1>2, <1>3, <1>5, <1>6, <1>7 DEF Kept, Books, OverStays

\* A rename of latest.json by a helper: every other update is over then, or it
\* names the job it named before.
LEMMA HelperRenames ==
  ASSUME TypeOK, Books, NEW c \in Requests, RenamesLatest(c)
  PROVE  Kept
<1>1. /\ ~Saved(c) /\ latest' = saving[c] /\ saving'[c] = NoRecord
      /\ \A w \in Writers : w # c => saving'[w] = saving[w]
      /\ UNCHANGED <<service, helper, ack, file, system, restarts>>
      /\ helper[c] \in {"accepting", "starting", "undoing"}
  BY DEF RenamesLatest, TypeOK, RecordsTypeOK, Books, Writing
<1>2. \A d \in Requests : d # c => helper[d] \notin Locking
  BY <1>1 DEF Books, RecordsInv, Locking
<1>3. Writing(c)
  BY DEF Books
<1>4. latest'.id = latest.id \/ (helper[c] = "starting" /\ latest' = [id |-> c, state |-> "accepted"])
  BY <1>1, <1>3 DEF Writing
<1>5. unit = "inactive" \/ (latest' = [id |-> c, state |-> "failed"] /\ latest.id = c)
  BY <1>1, <1>3 DEF Writing
<1>6. RecordsInv'
  <2>1. (\A i \in Requests : file[i] \in Pending => latest.id = i \/ helper[i] \in {"starting", "failed"})'
    BY <1>1, <1>3, <1>4 DEF Books, RecordsInv, Writing, Off
  <2>2. (latest.id = 0 <=> latest.state = "none")' /\ (latest.state \in Ended => Over(latest.id))'
    BY <1>1 DEF Books, RecordsInv, Over
  <2>3. \A w \in Writers : /\ (saving[w].id = 0 <=> saving[w].state = "none")'
                           /\ (saving[w].state \in Ended => Over(saving[w].id))'
    BY <1>1 DEF Books, RecordsInv, Over
  <2> QED
    BY <1>1, <2>1, <2>2, <2>3 DEF Books, RecordsInv, service
<1>7. Working'
  BY <1>1, <1>4, <1>5, ManagedUpdateAssumption DEF Books, Working, Saved, system, TypeOK, SystemTypeOK
<1>8. ASSUME NEW d \in Requests PROVE Writing(d)'
  <2>1. Writing(d)
    BY DEF Books
  <2>2. (helper[d] \in Early => Unknown(d))'
    <3>1. helper[d] \in Early => Unknown(d)
      BY <2>1 DEF Writing
    <3> QED
      BY <1>1, <1>4, <3>1, ManagedUpdateAssumption DEF Unknown, system, service, Early
  <2>3. CASE d = c
    <3>1. Saved(c)'
      BY <1>1 DEF Saved
    <3>2. helper[c] = "starting" => latest' = [id |-> c, state |-> "accepted"]
      BY <1>1, <1>3 DEF Writing
    <3>3. helper[c] = "undoing" => latest'.id = c
      BY <1>3, <1>4 DEF Writing
    <3> QED
      BY <1>1, <1>3, <2>2, <2>3, <3>1, <3>2, <3>3 DEF Writing, Off, system
  <2>4. CASE d # c
    BY <1>1, <1>2, <2>1, <2>2, <2>4 DEF Writing, Saved, Off, Early, Locking
  <2> QED
    BY <2>3, <2>4
<1> QED
  BY <1>1, <1>6, <1>7, <1>8 DEF Kept, Books, OverStays, Off

\* The worker and the finalizer rename it to the job it names.
LEMMA WorkerRenames ==
  ASSUME TypeOK, Books, RenamesLatest(Worker)
  PROVE  Kept
<1>1. /\ ~Saved(Worker) /\ latest' = saving[Worker] /\ saving'[Worker] = NoRecord
      /\ \A w \in Writers : w # Worker => saving'[w] = saving[w]
      /\ UNCHANGED <<service, helper, ack, file, system, restarts>>
  BY DEF RenamesLatest, TypeOK, RecordsTypeOK
<1>2. /\ latest'.id = latest.id /\ latest'.id # 0 /\ latest'.state \notin {"none", "accepted"}
      /\ unit # "inactive"
  <2>1. saving[Worker].id # 0 /\ saving[Worker].state # "none"
    BY <1>1 DEF Saved, Books, RecordsInv, TypeOK, RecordsTypeOK
  <2> QED
    BY <1>1, <2>1 DEF Books, Working
<1>3. RecordsInv'
  <2>1. \A w \in Writers : /\ (saving[w].id = 0 <=> saving[w].state = "none")'
                           /\ (saving[w].state \in Ended => Over(saving[w].id))'
    BY <1>1 DEF Books, RecordsInv, Over
  <2> QED
    BY <1>1, <1>2, <2>1 DEF Books, RecordsInv, Over, service
<1>4. Working'
  BY <1>1, <1>2 DEF Books, Working, Saved, system
<1>5. ASSUME NEW d \in Requests PROVE Writing(d)'
  <2>1. Writing(d)
    BY DEF Books
  <2>2. (helper[d] \in Early => Unknown(d))'
    BY <1>1, <1>2, <2>1 DEF Writing, Unknown, system, service
  <2>3. saving'[d] = saving[d]
    BY <1>1, ManagedUpdateAssumption
  <2> QED
    BY <1>1, <1>2, <2>1, <2>2, <2>3 DEF Writing, Saved, Off, system
<1> QED
  BY <1>1, <1>3, <1>4, <1>5 DEF Kept, Books, OverStays, Off

\* What the unit does to the records: at most that of the update latest.json
\* names is rewritten, and never from an end to a pending state unless its
\* helper gave it up.
UnitWrites ==
  /\ UNCHANGED <<service, helper, ack, latest>>
  /\ unit # "inactive"
  /\ worker'.id \in {0, latest.id}
  /\ \A d \in Requests : saving'[d] = saving[d]
  /\ \A i \in Requests : file'[i] = file[i]
        \/ /\ i = latest.id
           /\ file'[i] \in Pending => file[i] \in Pending \/ helper[i] \in {"undoing", "failed"}
  /\ \/ saving'[Worker] \in {saving[Worker], NoRecord}
     \/ /\ saving'[Worker] = [id |-> latest.id, state |-> file'[latest.id]]
        /\ latest.id \in Requests /\ file'[latest.id] \notin {"none", "accepted"}

\* Such a step keeps the books if it keeps the worker's own.
LEMMA UnitKeeps ==
  ASSUME TypeOK, Books, UnitWrites, Working', SystemTypeOK'
  PROVE  Kept
<1> USE DEF UnitWrites
<1>1. /\ \A i \in Requests : helper[i] \notin {"accepting", "starting"}
      /\ \A i \in Requests : Over(i) => Over(i)'
      /\ \A i \in Requests : helper[i] # "undoing" /\ Off(i) => Off(i)'
  BY DEF Books, Writing, Off, Over
<1>2. RecordsInv'
  <2>1. (\A i \in Requests : file[i] \in Pending => latest.id = i \/ helper[i] \in {"starting", "failed"})'
    BY DEF Books, RecordsInv
  <2>2. \A w \in Writers : /\ (saving[w].id = 0 <=> saving[w].state = "none")'
                           /\ (saving[w].state \in Ended => Over(saving[w].id))'
    <3> SUFFICES ASSUME NEW w \in Writers
                 PROVE  /\ (saving[w].id = 0 <=> saving[w].state = "none")'
                        /\ (saving[w].state \in Ended => Over(saving[w].id))'
      OBVIOUS
    <3>1. CASE saving'[w] = saving[w]
      BY <1>1, <3>1, Typed DEF Books, RecordsInv
    <3>2. CASE w = Worker /\ saving'[w] = NoRecord
      BY <3>2
    <3>3. CASE w = Worker /\ saving'[w] = [id |-> latest.id, state |-> file'[latest.id]]
                          /\ latest.id \in Requests /\ file'[latest.id] \notin {"none", "accepted"}
      BY <3>3, Typed DEF Over
    <3> QED
      BY <3>1, <3>2, <3>3
  <2> QED
    BY <1>1, <2>1, <2>2, Typed DEF Books, RecordsInv, service
<1>3. ASSUME NEW d \in Requests PROVE Writing(d)'
  <2>1. Writing(d)
    BY DEF Books
  <2>2. (helper[d] \in Early => Unknown(d))'
    <3>1. helper[d] \in Early => Unknown(d)
      BY <2>1 DEF Writing
    <3>2. Unknown(d) => /\ file'[d] = "none" /\ worker'.id # d /\ saving'[Worker].id # d
      BY Typed DEF Unknown
    <3> QED
      BY <3>1, <3>2 DEF Unknown, service
  <2> QED
    BY <1>1, <2>1, <2>2 DEF Writing, Saved
<1> QED
  BY <1>1, <1>2, <1>3 DEF Kept, Books, OverStays

\* The worker, its finalizer and systemd.
LEMMA UnitMovesKeep ==
  ASSUME TypeOK, Books, UnitMoves \/ Killed
  PROVE  Kept
<1> USE ManagedUpdateAssumption
<1>1. SystemTypeOK'
  BY UnitKeepsType DEF TypeOK
<1>2. CASE ReadsLatest
  <2>1. UnitWrites
    BY <1>2, Typed DEF UnitWrites, ReadsLatest, At, Goes, TypeOK, SystemTypeOK, records
  <2>2. Working'
    BY <1>2, Typed DEF Books, RecordsInv, Working, ReadsLatest, At, Goes, Saved, records
  <2> QED
    BY <1>1, <2>1, <2>2, UnitKeeps
<1>3. CASE Runs
  <2>1. /\ worker.step = "sleeping" /\ unit # "inactive" /\ Saved(Worker)
        /\ worker.id = latest.id /\ latest.id \in Requests
        /\ file[latest.id] = "accepted" \/ helper[latest.id] \in {"undoing", "failed"}
        /\ UNCHANGED <<service, helper, ack, latest, unit>>
    BY <1>3, Typed DEF Runs, At, Record, records, Books, Working, TypeOK, SystemTypeOK
  <2>2. CASE Record(Worker, worker.id, "running") /\ Goes("installing", worker.id)
    <3>1. /\ file'[latest.id] = "running"
          /\ \A i \in Requests : i # latest.id => file'[i] = file[i]
          /\ saving'[Worker] = [id |-> latest.id, state |-> "running"]
          /\ \A d \in Requests : saving'[d] = saving[d]
          /\ worker' = [step |-> "installing", id |-> latest.id]
      BY <2>1, <2>2 DEF Record, Goes, TypeOK, RecordsTypeOK
    <3>2. UnitWrites
      BY <2>1, <3>1 DEF UnitWrites
    <3>3. Working'
      BY <2>1, <3>1, Typed DEF Working, Saved
    <3> QED
      BY <1>1, <3>2, <3>3, UnitKeeps
  <2>3. CASE Goes("ended", 0) /\ UNCHANGED records
    <3>1. UnitWrites
      BY <2>1, <2>3 DEF UnitWrites, Goes, records
    <3>2. Working'
      BY <2>1, <2>3 DEF Books, Working, Goes, Saved, records
    <3> QED
      BY <1>1, <3>1, <3>2, UnitKeeps
  <2> QED
    BY <1>3, <2>2, <2>3 DEF Runs
<1>4. CASE Installed
  <2>1. PICK s \in {"succeeded", "failed"} : Record(Worker, worker.id, s)
    BY <1>4 DEF Installed
  <2>2. /\ unit # "inactive" /\ latest.id \in Requests
        /\ UNCHANGED <<service, helper, ack, latest, unit>>
        /\ file'[latest.id] = s /\ \A i \in Requests : i # latest.id => file'[i] = file[i]
        /\ saving'[Worker] = [id |-> latest.id, state |-> s]
        /\ \A d \in Requests : saving'[d] = saving[d]
        /\ worker' = [step |-> "ended", id |-> 0]
    BY <1>4, <2>1, Typed DEF Installed, At, Goes, Record, Books, Working, TypeOK, RecordsTypeOK, SystemTypeOK
  <2>3. UnitWrites
    BY <2>2 DEF UnitWrites
  <2>4. Working'
    BY <2>2 DEF Working, Saved
  <2> QED
    BY <1>1, <2>3, <2>4, UnitKeeps
<1>5. CASE Killed
  <2>1. /\ unit # "inactive" /\ worker' = [step |-> "ended", id |-> 0]
        /\ UNCHANGED <<service, helper, ack, file, latest, unit>>
        /\ saving'[Worker] = NoRecord /\ \A d \in Requests : saving'[d] = saving[d]
    BY <1>5 DEF Killed, Goes, TypeOK, RecordsTypeOK, SystemTypeOK
  <2>2. UnitWrites
    BY <2>1 DEF UnitWrites
  <2>3. Working'
    BY <2>1 DEF Working, Saved
  <2> QED
    BY <1>1, <2>2, <2>3, UnitKeeps
<1>6. CASE Finishes
  <2>1. /\ unit # "inactive" /\ unit' # "inactive" /\ worker' = [step |-> "finished", id |-> 0]
        /\ UNCHANGED <<service, helper, ack, latest>> /\ Saved(Worker)
    BY <1>6 DEF Finishes, At, Goes, Record, records, TypeOK, SystemTypeOK
  <2>2. CASE Record(Worker, latest.id, "interrupted") /\ latest.state \in Pending
    <3>1. /\ latest.id \in Requests /\ file'[latest.id] = "interrupted"
          /\ \A i \in Requests : i # latest.id => file'[i] = file[i]
          /\ saving'[Worker] = [id |-> latest.id, state |-> "interrupted"]
          /\ \A d \in Requests : saving'[d] = saving[d]
      BY <2>2, Typed DEF Record, Books, RecordsInv, TypeOK, RecordsTypeOK
    <3>2. UnitWrites
      BY <2>1, <3>1 DEF UnitWrites
    <3>3. Working'
      BY <2>1, <3>1 DEF Working, Saved
    <3> QED
      BY <1>1, <3>2, <3>3, UnitKeeps
  <2>3. CASE UNCHANGED records
    <3>1. UnitWrites
      BY <2>1, <2>3 DEF UnitWrites, records
    <3>2. Working'
      BY <2>1, <2>3 DEF Books, Working, Saved, records
    <3> QED
      BY <1>1, <3>1, <3>2, UnitKeeps
  <2> QED
    BY <1>6, <2>2, <2>3 DEF Finishes
<1>7. CASE Stops
  <2>1. /\ unit # "inactive" /\ worker' = Idle
        /\ UNCHANGED <<service, helper, ack, file, latest>>
        /\ saving'[Worker] = NoRecord /\ \A d \in Requests : saving'[d] = saving[d]
    BY <1>7 DEF Stops, TypeOK, RecordsTypeOK, SystemTypeOK
  <2>2. UnitWrites
    BY <2>1 DEF UnitWrites
  <2>3. Working'
    BY <2>1 DEF Working, Saved
  <2> QED
    BY <1>1, <2>2, <2>3, UnitKeeps
<1> QED
  BY <1>2, <1>3, <1>4, <1>5, <1>6, <1>7, WorkerRenames DEF UnitMoves

\* A restart of the service may end the helpers, and leaves the unit alone.
LEMMA RestartKeeps ==
  ASSUME TypeOK, Books, InstallerRestarts \/ StopsAndStarts
  PROVE  Kept
<1>1. /\ heard' = 0 /\ UNCHANGED <<ack, file, latest, system>>
      /\ \A r \in Requests : req'[r] \in {"idle", "attempting"} => req[r] \in {"idle", "attempting"}
  BY DEF InstallerRestarts, StopsAndStarts, ServiceRestarts, Operations, TypeOK, ServiceTypeOK
<1>2. CASE UNCHANGED <<helper, saving>>
  BY <1>1, <1>2, BooksRest DEF records
<1>3. CASE ~UNCHANGED <<helper, saving>>
  <2>1. /\ \A c \in Requests : helper'[c] = IF helper[c] \in {"none", "replied"} THEN helper[c]
                                            ELSE "failed"
        /\ \A w \in Writers : saving'[w] = IF w = Worker THEN saving[w] ELSE NoRecord
    BY <1>3 DEF InstallerRestarts, StopsAndStarts, HelpersEnd
  <2>2. \A i \in Requests : Over(i) => Over(i)'
    BY <1>1, <2>1 DEF Over
  <2>3. \A c \in Requests : Unknown(c) => Unknown(c)'
    BY <1>1, <2>1, ManagedUpdateAssumption DEF Unknown, system
  <2>4. RecordsInv'
    <3>1. \A w \in Writers : /\ saving'[w].id = 0 <=> saving'[w].state = "none"
                             /\ (saving[w].state \in Ended => Over(saving[w].id))'
      BY <1>1, <2>1, Typed DEF Books, RecordsInv, Over, NoRecord, Ended
    <3>2. (latest.state \in Ended => Over(latest.id))'
      BY <1>1, <2>1, Typed DEF Books, RecordsInv, Over
    <3>3. \A i \in Requests : file[i] \in Pending =>
             latest.id = i \/ helper'[i] \in {"starting", "failed"}
      BY <2>1 DEF Books, RecordsInv
    <3> QED
      BY <1>1, <2>1, <3>1, <3>2, <3>3 DEF Books, RecordsInv, Locking
  <2>5. Working'
    <3>1. \A i \in Requests : helper[i] \in {"undoing", "failed"} => helper'[i] = "failed"
      BY <2>1
    <3>2. saving'[Worker] = saving[Worker]
      BY <2>1 DEF Writers
    <3>3. /\ worker.step \in {"sleeping", "installing"} => worker.id \in Requests
          /\ latest.state = "accepted" => latest.id \in Requests
      BY Typed DEF Books, Working, RecordsInv, Ids
    <3> QED
      BY <1>1, <3>1, <3>2, <3>3 DEF Books, Working, Saved, system
  <2>6. ASSUME NEW d \in Requests PROVE Writing(d)'
    <3>1. Writing(d)
      BY DEF Books
    <3>2. (ack[d] # 0 => helper[ack[d]] \in {"replied", "failed"})'
      BY <1>1, <2>1, <3>1, Typed DEF Writing
    <3> QED
      BY <1>1, <2>1, <2>3, <3>1, <3>2, Typed DEF Writing, Saved, Early
  <2> QED
    BY <1>1, <2>1, <2>4, <2>5, <2>6 DEF Kept, Books, OverStays, Off
<1> QED
  BY <1>2, <1>3

\* A power loss ends every helper and the unit, and leaves the records.
LEMMA PowerLossKeeps ==
  ASSUME TypeOK, Books, PowerLoss
  PROVE  Kept
<1>1. /\ \A c \in Requests : helper'[c] = IF helper[c] = "none" THEN "none" ELSE "failed"
      /\ \A w \in Writers : saving'[w] = NoRecord
      /\ worker' = Idle /\ heard' = 0 /\ UNCHANGED <<ack, file, latest>>
      /\ \A r \in Requests : req'[r] \in {"idle", "attempting"} => req[r] \in {"idle", "attempting"}
  BY DEF PowerLoss, ServiceRestarts, Operations, TypeOK, ServiceTypeOK
<1>2. \A c \in Requests : (helper[c] = "none" => Unknown(c)) /\ (Unknown(c) => Unknown(c)')
  <2> SUFFICES ASSUME NEW c \in Requests
               PROVE  (helper[c] = "none" => Unknown(c)) /\ (Unknown(c) => Unknown(c)')
    OBVIOUS
  <2>1. helper[c] = "none" => Unknown(c)
    BY DEF Books, Writing, Early
  <2>2. c # 0
    BY ManagedUpdateAssumption
  <2> QED
    BY <1>1, <2>1, <2>2 DEF Unknown
<1>3. RecordsInv'
  <2>1. \A c \in Requests : (helper[c] = "none" => helper'[c] = "none" /\ latest.id # c /\ file[c] = "none")
                            /\ (helper[c] # "none" => helper'[c] = "failed")
    BY <1>1, <1>2 DEF Unknown
  <2>2. (latest.state \in Ended => Over(latest.id))'
    BY <1>1, <2>1, Typed DEF Books, RecordsInv, Over
  <2> QED
    BY <1>1, <2>1, <2>2 DEF Books, RecordsInv, Over, Locking
<1>4. Working'
  BY <1>1 DEF Working, Saved
<1>5. ASSUME NEW d \in Requests PROVE Writing(d)'
  <2>1. Writing(d)
    BY DEF Books
  <2>2. (ack[d] # 0 => helper[ack[d]] \in {"replied", "failed"})'
    BY <1>1, <2>1, Typed DEF Writing
  <2> QED
    BY <1>1, <1>2, <2>2 DEF Writing, Saved, Early
<1> QED
  BY <1>1, <1>3, <1>4, <1>5 DEF Kept, Books, OverStays, Off

\* Every step keeps the books.
LEMMA KeptStep == TypeOK /\ Books /\ Next => Kept
<1> SUFFICES ASSUME TypeOK, Books, Next PROVE Kept
  OBVIOUS
<1>1. CASE \E c \in Requests : HelperMoves(c) \/ RenamesLatest(c)
  BY <1>1, LockKeeps, SupersedesKeeps, AcceptsKeeps, StartsKeeps, HelperRenames DEF HelperMoves
<1>2. CASE UnitMoves \/ Killed
  BY <1>2, UnitMovesKeep
<1>3. CASE PowerLoss
  BY <1>3, PowerLossKeeps
<1>4. CASE InstallerRestarts \/ StopsAndStarts
  BY <1>4, RestartKeeps
<1> QED
  BY <1>1, <1>2, <1>3, <1>4, ServiceKeeps DEF Next

\* The unit is started again only when the update that was heard of is over.
LEMMA StartedAgain ==
  ASSUME TypeOK, Books, Next, heard # 0, unit = "inactive", unit' # "inactive"
  PROVE  Off(heard)
<1>1. PICK c \in Requests : Starts(c)
  BY DEF Next, Start, Attempted, Answered, Acknowledged, DispatchFails, StatusReads, ShowsUnit,
     StatusArrives, JobMoves, UnitMoves, ReadsLatest, Runs, Installed, Finishes, Stops,
     RenamesLatest, Killed, HelperMoves, TakesLock, SharesActive, Supersedes, Accepts, Undone,
     InstallerRestarts, StopsAndStarts, PowerLoss, system, At, TypeOK, SystemTypeOK
<1>2. heard \in Requests /\ helper[heard] \in {"replied", "failed"}
  BY Typed DEF Books, RecordsInv
<1>3. helper[c] = "starting" /\ \A i \in Requests \ {c} : Off(i)
  BY <1>1 DEF Starts, Books, Writing
<1> QED
  BY <1>2, <1>3

\* A status that was asked for since the acceptance and shows an end saw the
\* accepted update over, and it has stayed so since, or it saw the unit down.
LEMMA AskStep == TypeOK /\ PauseInv /\ Next => AskInv'
<1> SUFFICES ASSUME TypeOK, Books, AskInv, Next PROVE AskInv'
  BY DEF PauseInv
<1>1. OverStays
  BY KeptStep DEF Kept
<1>2. heard # 0 => heard \in Requests /\ helper[heard] \in {"replied", "failed"}
  BY Typed DEF Books, RecordsInv
<1>3. CASE UNCHANGED <<asked, heard>> /\ (accepted' => accepted)
  <2> SUFFICES ASSUME ~asked.named, ~asked.early, accepted, heard # 0, asked.state \in Ended,
                      unit' # "inactive"
               PROVE  Off(heard)'
    BY <1>3 DEF AskInv
  <2>1. Off(heard)
    BY StartedAgain DEF AskInv
  <2> QED
    BY <1>1, <1>2, <1>3, <2>1 DEF OverStays
<1>4. CASE StatusReads
  <2>1. asked'.named \/ asked'.state = latest.state
    BY <1>4 DEF StatusReads
  <2>2. ASSUME heard # 0, latest.state \in Ended
        PROVE  Off(heard)
    <3>1. latest.id = heard => Off(heard)
      BY <1>2, <2>2 DEF Books, RecordsInv, Over, Off
    <3>2. latest.id # heard => Off(heard)
      BY <1>2, <2>2 DEF Books, RecordsInv, Off
    <3> QED
      BY <3>1, <3>2
  <2>3. heard' = heard /\ (Off(heard) => Off(heard)')
    BY <1>4 DEF StatusReads, Off, records
  <2> QED
    BY <2>1, <2>2, <2>3 DEF AskInv, Off
<1>5. CASE Acknowledged
  <2>1. CASE asked = NoStatus
    BY <1>5, <2>1 DEF Acknowledged, AskInv, NoStatus, Ended, TypeOK, ServiceTypeOK
  <2>2. CASE asked # NoStatus
    <3>1. asked'.early
      BY <1>5, <2>2 DEF Acknowledged, TypeOK, ServiceTypeOK
    <3> QED
      BY <3>1 DEF AskInv
  <2> QED
    BY <2>1, <2>2
<1>6. CASE StatusArrives \/ InstallerRestarts \/ StopsAndStarts \/ PowerLoss
  BY <1>6 DEF StatusArrives, InstallerRestarts, StopsAndStarts, PowerLoss, ServiceRestarts,
     AskInv, NoStatus, Ended
<1>7. CASE \E r \in Requests : Start(r) \/ Attempted(r) \/ Answered(r)
  BY <1>3, <1>7 DEF Start, Attempted, Answered
<1>8. CASE DispatchFails \/ (\E j \in Jobs : JobMoves(j))
  BY <1>3, <1>8 DEF DispatchFails, JobMoves
<1>9. CASE UnitMoves \/ Killed \/ \E r \in Requests : HelperMoves(r) \/ RenamesLatest(r)
  BY <1>3, <1>9 DEF UnitMoves, ReadsLatest, Runs, Installed, Finishes, Stops,
     RenamesLatest, Killed, HelperMoves, TakesLock, SharesActive, Supersedes,
     Accepts, Starts, Undone, service
<1>10. CASE ShowsUnit
  <2>1. asked'.state \in Ended => unit' = "inactive"
    BY <1>10 DEF ShowsUnit, Reported, UnitActive, NoStatus, Ended, Pending, TypeOK, SystemTypeOK,
       ServiceTypeOK, system
  <2> QED
    BY <2>1 DEF AskInv
<1> QED
  BY <1>4, <1>5, <1>6, <1>7, <1>8, <1>9, <1>10 DEF Next

\* No step breaks the books or the invariant of status.
LEMMA PauseStep == TypeOK /\ PauseInv /\ [Next]_vars => PauseInv'
<1>1. ASSUME TypeOK, PauseInv, UNCHANGED vars PROVE PauseInv'
  <2>1. Books'
    BY <1>1, BooksRest DEF PauseInv, Kept, vars, service
  <2>2. AskInv'
    BY <1>1 DEF PauseInv, AskInv, Off, vars, service, records, system
  <2> QED
    BY <2>1, <2>2 DEF PauseInv
<1> QED
  BY <1>1, KeptStep, AskStep DEF PauseInv, Kept

\* The pause ends in a status or with the process.
LEMMA PauseEnds ==
  ASSUME TypeOK, PauseInv, [Next]_vars, accepted, ~accepted'
  PROVE  \/ heard = 0 \/ Reported(file[heard]) \notin Pending
         \/ asked.early \/ helper[heard] = "failed"
         \/ restarts' # restarts
<1>1. CASE StatusArrives
  <2>1. asked.state \in Ended /\ ~asked.named
    BY <1>1 DEF StatusArrives, Clears, TypeOK, ServiceTypeOK
  <2>2. heard = 0 \/ asked.early \/ Off(heard) \/ unit = "inactive"
    BY <2>1 DEF PauseInv, AskInv, TypeOK, ServiceTypeOK
  <2>3. CASE unit = "inactive"
    BY <2>3 DEF Reported, UnitActive, Pending
  <2> QED
    BY <2>2, <2>3 DEF Off, Reported, Pending
<1>2. CASE InstallerRestarts \/ StopsAndStarts \/ PowerLoss
  <2>1. restarts \in Nat /\ restarts' = restarts + 1
    BY <1>2, ManagedUpdateAssumption DEF InstallerRestarts, StopsAndStarts, PowerLoss,
       ServiceRestarts, TypeOK, SystemTypeOK
  <2> QED
    BY <2>1
<1>3. CASE UNCHANGED vars \/ UnitMoves \/ Killed \/ (\E j \in Jobs : JobMoves(j))
             \/ Acknowledged \/ DispatchFails \/ StatusReads \/ ShowsUnit
  BY <1>3 DEF vars, service, UnitMoves, ReadsLatest, Runs, Installed, Finishes, Stops,
     RenamesLatest, Killed, JobMoves, Acknowledged, DispatchFails, StatusReads, ShowsUnit
<1>4. CASE \E r \in Requests :
              Start(r) \/ Attempted(r) \/ Answered(r) \/ HelperMoves(r) \/ RenamesLatest(r)
  BY <1>4 DEF Start, Attempted, Answered, HelperMoves, TakesLock, SharesActive, Supersedes,
     Accepts, Starts, Undone, RenamesLatest, service
<1> QED
  BY <1>1, <1>2, <1>3, <1>4 DEF Next

\* A pause of background jobs ends with the accepted update, with the process,
\* or for one of the two reasons the property names, whatever the requests, the
\* faults and the restarts (ManagedUpdate.PauseEndsWithUpdate).
THEOREM PauseHolds == Spec => PauseEndsWithUpdate
<1>1. Spec => []PauseInv
  BY PauseInit, PauseStep, TypeCorrect, PTL DEF Spec
<1>2. TypeOK /\ PauseInv /\ [Next]_vars =>
        [accepted /\ ~accepted' =>
          \/ heard = 0 \/ Reported(file[heard]) \notin Pending
          \/ asked.early \/ helper[heard] = "failed"
          \/ restarts' # restarts]_vars
  BY PauseEnds
<1> QED
  BY <1>1, <1>2, TypeCorrect, PTL DEF Spec, PauseEndsWithUpdate

=============================================================================
