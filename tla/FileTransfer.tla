---------------------------- MODULE FileTransfer ----------------------------
(***************************************************************************)
(* FileTransferService: perform and performInternal around upload and       *)
(* download, with the audit trail they are recorded in. The transfers of    *)
(* this module all name the same file; what may be wrong with a request is  *)
(* a choice made when the code looks at it.                                 *)
(*                                                                         *)
(* The handlers run one at a time: every step is that of one await. Nothing *)
(* bounds how long the storage takes; the 15 s timer answers the caller and *)
(* aborts the transfer, which ends when it next looks.                      *)
(***************************************************************************)
EXTENDS AuditTrail

CONSTANTS
    Transfers,    \* calls of upload() and download(), numbered as they come
    Operations,   \* what they may be
    MaxRestarts,  \* bound: restarts of the service
    ListsDuring,  \* bound: the steps of the transfers during which a list is asked for
    Faults        \* "io", "lease", "stall", "cancel"

ASSUME FileTransferAssumption ==
    /\ Transfers \subseteq Nat \ {0} /\ IsFiniteSet(Transfers)
    /\ Operations \subseteq {"upload", "download"} /\ Operations # {}
    /\ Clients = Transfers /\ MaxRestarts \in Nat
    /\ Faults \subseteq {"io", "lease", "stall", "cancel"}

VARIABLES
    operation, step,
    err,        \* the error on its way to performInternal's catch
    answer,     \* what the caller was told
    aborted,    \* the AbortController's signal
    armed,      \* the 15 s timer
    active,     \* the transfer that has acquired the service, 0 for none
    committed,  \* FileTransferAudit.committed
    stopping,
    temps,      \* the transfers whose .upload- file is in the directory
    dest,       \* whose file has the destination's name, 0 for nobody
    restarts

call  == <<operation, step, err, answer, aborted, armed, committed>>
disk  == <<temps, dest>>
proc  == <<active, stopping, restarts>>
vars  == <<audit, call, disk, proc>>

InDirectory == {"root", "lock", "scan", "create", "write", "link", "verify", "cleanup",
                "read", "release"}
Steps   == {"idle", "attempting", "closing", "over"} \cup InDirectory
\* "refused" is any error of the blocked list that comes before the file is
\* published, "unsafe" the one of that list that may come after it; "io" stands
\* for the failures, the changes of identity and the failed cleanup.
Blocking == {"refused", "unsafe"}
Errors   == Blocking \cup {"cancelled", "io"}
Answers  == Errors \cup {"none", "ok", "timeout", "unaudited", "withheld",
                         "unrecorded", "lost"}

Init ==
    /\ AuditInit
    /\ operation = [t \in Transfers |-> "none"]
    /\ step = [t \in Transfers |-> "idle"]
    /\ err = [t \in Transfers |-> "none"] /\ answer = [t \in Transfers |-> "none"]
    /\ aborted = [t \in Transfers |-> FALSE] /\ armed = [t \in Transfers |-> FALSE]
    /\ committed = [t \in Transfers |-> FALSE]
    /\ active = 0 /\ stopping = FALSE /\ restarts = 0
    /\ temps = {} /\ dest = 0

Event(t, phase) == [t |-> t, phase |-> phase, committed |-> committed[t]]
Interrupted(t)  == aborted[t] \/ stopping

Cancelled(t)    == Interrupted(t) \/ "cancel" \in Faults

Goes(t, s)  == step' = [step EXCEPT ![t] = s]
\* check() sees the deadline, the shutdown, the clock before its timer and the
\* signal of the client, whose abort is a choice made here; the listener on it
\* is removed with the answer.
Interrupts(t) == /\ \/ Interrupted(t) \/ "stall" \in Faults
                    \/ "cancel" \in Faults /\ answer[t] = "none"
                 /\ err' = [err EXCEPT ![t] = "cancelled"]
May(t, e)     == err' = [err EXCEPT ![t] = e]
IoFails(t)    == "io" \in Faults /\ May(t, "io")

-----------------------------------------------------------------------------
(* perform and performInternal, outside the directory.                      *)

Call(t) ==
    /\ AuditAtRest
    /\ step[t] = "idle" /\ \A u \in Transfers : u < t => step[u] # "idle"
    /\ \E o \in Operations : operation' = [operation EXCEPT ![t] = o]
    /\ Goes(t, "attempting")
    /\ Submit(t, Event(t, "attempted"))
    /\ UNCHANGED <<err, answer, aborted, armed, committed, disk, proc>>

AttemptFails(t) ==
    /\ step[t] = "attempting" /\ reply[t] = "failed"
    /\ Goes(t, "over") /\ answer' = [answer EXCEPT ![t] = "unaudited"]
    /\ reply' = [reply EXCEPT ![t] = "none"]
    /\ UNCHANGED <<backend, auditUp, queue, io, gen, files, listing, refused, logged>>
    /\ UNCHANGED <<operation, err, aborted, armed, committed, disk, proc>>

\* The catch: endIo, and the terminal event of what the error shows.
Phase_IgnoresCommit(t, e) == IF e = "none" THEN "completed"
                             ELSE IF e \in Blocking THEN "blocked" ELSE "failed"
Phase(t, e) == IF e = "none" THEN "completed"
               ELSE IF ~committed[t] /\ e \in Blocking THEN "blocked" ELSE "failed"
Terminal_KeepsTimer(t, e) ==
    /\ Goes(t, "closing") /\ May(t, e)
    /\ UNCHANGED armed
    /\ Submit(t, Event(t, Phase(t, e)))
Terminal(t, e) ==
    /\ Goes(t, "closing") /\ May(t, e)
    /\ armed' = [armed EXCEPT ![t] = FALSE]
    /\ Submit(t, Event(t, Phase(t, e)))

Attempted(t) ==
    /\ step[t] = "attempting" /\ reply[t] = "ok"
    /\ \/ \E e \in {"refused"} \cup (IF Cancelled(t) THEN {"cancelled"} ELSE {}) :
             Terminal(t, e)
          /\ UNCHANGED active
       \/ /\ ~Interrupted(t) /\ active = 0 /\ active' = t
          /\ armed' = [armed EXCEPT ![t] = TRUE]
          /\ Goes(t, "root") /\ reply' = [reply EXCEPT ![t] = "none"]
          /\ UNCHANGED <<backend, auditUp, queue, io, gen, files, listing, refused,
                         logged, err>>
    /\ UNCHANGED <<operation, answer, aborted, committed, disk, stopping, restarts>>

\* The last finally frees the service; the caller may have been answered.
Told(t) == IF reply[t] = "ok" THEN IF err[t] = "none" THEN "ok" ELSE err[t]
           ELSE IF err[t] = "none" /\ committed[t] THEN "unrecorded" ELSE "withheld"
Closes(t) ==
    /\ step[t] = "closing" /\ reply[t] \in {"ok", "failed"}
    /\ Goes(t, "over") /\ reply' = [reply EXCEPT ![t] = "none"]
    /\ answer' = [answer EXCEPT ![t] = IF @ = "none" THEN Told(t) ELSE @]
    /\ active' = IF active = t THEN 0 ELSE active
    /\ err' = [err EXCEPT ![t] = "none"]
    /\ UNCHANGED <<backend, auditUp, queue, io, gen, files, listing, refused, logged>>
    /\ UNCHANGED <<operation, aborted, armed, committed, disk, stopping, restarts>>

Deadline_FreesService(t) ==
    /\ AuditAtRest /\ "stall" \in Faults
    /\ armed[t] /\ armed' = [armed EXCEPT ![t] = FALSE]
    /\ aborted' = [aborted EXCEPT ![t] = TRUE]
    /\ answer' = [answer EXCEPT ![t] = "timeout"]
    /\ active' = 0
    /\ UNCHANGED <<audit, operation, step, err, committed, disk, stopping, restarts>>
Deadline(t) ==
    /\ AuditAtRest /\ "stall" \in Faults
    /\ armed[t] /\ armed' = [armed EXCEPT ![t] = FALSE]
    /\ aborted' = [aborted EXCEPT ![t] = TRUE]
    /\ answer' = [answer EXCEPT ![t] = "timeout"]
    /\ UNCHANGED <<audit, operation, step, err, committed, disk, proc>>

\* Bound: shutdowns and restarts after the last transfer are left out.
UnderWay == \E t \in Transfers : step[t] # "over"

Shutdown ==
    /\ AuditAtRest /\ UnderWay /\ ~stopping /\ stopping' = TRUE
    /\ UNCHANGED <<audit, call, disk, active, restarts>>

-----------------------------------------------------------------------------
(* The directory. An error is carried to the release of its protection.     *)

Inside(t, s)  == AuditAtRest /\ step[t] = s
NoTrail == UNCHANGED <<audit, operation, answer, aborted, armed, proc>>

Root(t) ==
    /\ Inside(t, "root")
    /\ \/ Goes(t, "lock") /\ UNCHANGED err
       \/ (IoFails(t) \/ May(t, "refused")) /\ Goes(t, "release")
    /\ NoTrail /\ UNCHANGED <<committed, disk>>

\* lockWindowsRoot: the process that holds the directory is ready, or it is
\* stopped again, which may fail in turn. On Linux the open directory suffices.
Lock(t) ==
    /\ Inside(t, "lock")
    /\ \/ Goes(t, "scan") /\ UNCHANGED err
       \/ /\ "lease" \in Faults /\ (May(t, "refused") \/ IoFails(t))
          /\ Goes(t, "release")
    /\ NoTrail /\ UNCHANGED <<committed, disk>>

Scan(t) ==
    /\ Inside(t, "scan")
    /\ \/ /\ temps = {}  \* else FILE_TEMP_REMAINS, one of the refusals below
          /\ ~Interrupted(t) /\ UNCHANGED err
          /\ Goes(t, IF operation[t] = "upload" THEN "create" ELSE "read")
       \/ /\ May(t, "refused") \/ IoFails(t) \/ Interrupts(t)
          /\ Goes(t, "release")
    /\ NoTrail /\ UNCHANGED <<committed, disk>>

Create(t) ==
    /\ Inside(t, "create")
    /\ \/ /\ ~Interrupted(t) /\ temps' = temps \cup {t}
          /\ Goes(t, "write") /\ UNCHANGED err
       \/ /\ May(t, "refused") \/ IoFails(t) \/ Interrupts(t)
          /\ Goes(t, "release") /\ UNCHANGED temps
    /\ NoTrail /\ UNCHANGED <<committed, dest>>

Write(t) ==
    /\ Inside(t, "write")
    /\ \/ ~Interrupted(t) /\ Goes(t, "link") /\ UNCHANGED err
       \/ /\ IoFails(t) \/ Interrupts(t)
          /\ Goes(t, "cleanup")
    /\ NoTrail /\ UNCHANGED <<committed, disk>>

Link(t) ==
    /\ Inside(t, "link")
    /\ \/ /\ dest = 0 /\ dest' = t /\ committed' = [committed EXCEPT ![t] = TRUE]
          /\ Goes(t, "verify") /\ UNCHANGED err
       \/ /\ (dest # 0 /\ May(t, "refused")) \/ IoFails(t)
          /\ Goes(t, "cleanup") /\ UNCHANGED <<dest, committed>>
    /\ NoTrail /\ UNCHANGED temps

Verify(t) ==
    /\ Inside(t, "verify")
    /\ UNCHANGED err \/ IoFails(t)
    /\ Goes(t, "cleanup")
    /\ NoTrail /\ UNCHANGED <<committed, disk>>

\* guardedCheck() after the action; its errors come from no fault of the file.
Guarded(t) == \/ err[t] = "none" /\ ~Interrupted(t) /\ UNCHANGED err
              \/ err[t] = "none" /\ Interrupts(t)
              \/ err[t] = "none" /\ "lease" \in Faults /\ May(t, "unsafe")
              \/ err[t] # "none" /\ UNCHANGED err

Cleanup(t) ==
    /\ Inside(t, "cleanup")
    /\ \/ temps' = temps \ {t} /\ (Guarded(t) \/ IoFails(t))
       \/ IoFails(t) /\ UNCHANGED temps
    /\ Goes(t, "release")
    /\ NoTrail /\ UNCHANGED <<committed, dest>>

Read(t) ==
    /\ Inside(t, "read")
    /\ \/ dest # 0 /\ Guarded(t)
       \/ dest = 0 /\ May(t, "io")
       \/ May(t, "refused") \/ IoFails(t) \/ Interrupts(t)
    /\ Goes(t, "release")
    /\ NoTrail /\ UNCHANGED <<committed, disk>>

\* Closing the directory or its lease may fail too and replaces the error.
\* Nothing looks at the signal from here on.
Release(t) ==
    /\ Inside(t, "release")
    /\ \E e \in {err[t]} \cup ({"io"} \cap Faults) : Terminal(t, e)
    /\ aborted' = [aborted EXCEPT ![t] = FALSE]
    /\ UNCHANGED <<operation, answer, committed, disk, proc>>

-----------------------------------------------------------------------------

\* The process ends; its calls get no answer. What is in the directory stays.
\* Bound: not before the first call, when it would only start over.
Restart ==
    /\ AuditAtRest /\ UnderWay /\ \E t \in Transfers : step[t] # "idle"
    /\ restarts < MaxRestarts /\ restarts' = restarts + 1
    /\ AuditRestarts
    /\ step' = [t \in Transfers |-> IF step[t] = "idle" THEN "idle" ELSE "over"]
    /\ answer' = [t \in Transfers |->
                    IF step[t] \notin {"idle", "over"} /\ answer[t] = "none"
                    THEN "lost" ELSE answer[t]]
    /\ aborted' = [t \in Transfers |-> FALSE] /\ armed' = [t \in Transfers |-> FALSE]
    /\ active' = 0 /\ stopping' = FALSE
    /\ err' = [t \in Transfers |-> "none"]
    /\ UNCHANGED <<operation, committed, disk>>

Answering(t) == AttemptFails(t) \/ Attempted(t) \/ Closes(t)
Timers(t)    == Deadline(t) \/ (AuditAtRest /\ CallerDeadline(t) /\ UNCHANGED <<call, disk, proc>>)
Directory(t) == \/ Root(t) \/ Lock(t) \/ Scan(t) \/ Create(t) \/ Write(t) \/ Link(t)
                \/ Verify(t) \/ Cleanup(t) \/ Read(t) \/ Release(t)
AuditLog     == /\ \/ AuditAtRest /\ Storage
                   \/ (\A t \in Transfers : step[t] \in ListsDuring) /\ Lists
                   \/ AuditAtRest /\ CallerDeadline(Reader)
                /\ UNCHANGED <<call, disk, proc>>
Resumed      == \/ \E t \in Transfers : Answering(t)
                \/ (OperationStarts \/ ListAnswered) /\ UNCHANGED <<call, disk, proc>>
SomeTimer    == \E t \in Transfers : Timers(t)

Next ==
    \/ \E t \in Transfers : Call(t) \/ Directory(t)
    \/ Resumed \/ SomeTimer \/ AuditLog \/ Shutdown \/ Restart

Spec == Init /\ [][Next]_vars

\* The event loop runs what is ready, and comes back to its timers however
\* many other callers it serves; the storage, the helpers and the clients owe
\* nothing. Neither condition need tell one promise or timer from another: no
\* handler runs before all of them are resumed, and a timer fires once.
Fairness == WF_vars(Resumed) /\ SF_vars(SomeTimer)
FairSpec == Spec /\ Fairness

-----------------------------------------------------------------------------
(* Properties.                                                              *)

TypeOK ==
    /\ AuditTypeOK
    /\ operation \in [Transfers -> Operations \cup {"none"}] /\ step \in [Transfers -> Steps]
    /\ err \in [Transfers -> Errors \cup {"none"}] /\ answer \in [Transfers -> Answers]
    /\ aborted \in [Transfers -> BOOLEAN] /\ armed \in [Transfers -> BOOLEAN]
    /\ committed \in [Transfers -> BOOLEAN]
    /\ active \in Transfers \cup {0} /\ stopping \in BOOLEAN
    /\ temps \subseteq Transfers /\ dest \in Transfers \cup {0}
    /\ restarts \in 0..MaxRestarts
    /\ \A t \in Transfers : armed[t] => step[t] \in InDirectory

\* What the trail and the callers are told of an upload is what happened to
\* the destination: nothing was touched that has no attempted event on record,
\* a terminal event says committed exactly for the published file, a blocked
\* one left nothing, and an answer of success or of a commit without a record
\* is about a file that is there.
TerminalTellsTruth ==
    /\ \A t \in Transfers :
          dest = t \/ t \in temps => [t |-> t, phase |-> "attempted", committed |-> FALSE] \in acked
    /\ \A e \in ToSet(order) :
          /\ e.phase # "attempted" => (e.committed <=> dest = e.t)
          /\ e.phase = "blocked" => dest # e.t
    /\ \A t \in Transfers :
          /\ answer[t] = "ok" =>
                /\ [t |-> t, phase |-> "completed", committed |-> operation[t] = "upload"] \in acked
                /\ operation[t] = "upload" => dest = t
          /\ answer[t] = "unrecorded" => dest = t
          /\ answer[t] \in {"unaudited", "refused"} => dest # t

\* One transfer at most is at work in the directory, also after the caller of
\* the first was answered FILE_TIMEOUT and went on to the next.
OneAtATime ==
    Cardinality({t \in Transfers : step[t] \in InDirectory}) <= 1

\* Every caller is answered however long the storage and the audit log take.
AnsweredAnyway ==
    []<>(\A t \in Transfers : step[t] = "idle" \/ answer[t] # "none")

=============================================================================
