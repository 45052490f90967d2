----------------------------- MODULE AuditTrail -----------------------------
(***************************************************************************)
(* BoundedAuditLog over one of its backends: FileAuditLog with its rotated  *)
(* generations of events.jsonl, or a helper of the host (the journal, the   *)
(* Windows event log through runFixedProcess). One operation runs at a time *)
(* in the order of the calls; each caller has its own deadline, and passing *)
(* it does not stop the operation. The first failure latches the log.       *)
(*                                                                         *)
(* The module has no next-state relation: the clients of the log compose    *)
(* Submit and the reply they get with steps of their own.                   *)
(***************************************************************************)
EXTENDS Integers, Sequences, FiniteSets, SequencesExt, TLC

CONSTANTS
    Clients,     \* those that write events, one at a time each
    Reader,      \* the caller of list()
    Backends,    \* chosen once: "file", "helper"
    MaxPending,  \* pending.size at which the queue is full: 64
    Oldest,        \* the oldest generation, events.jsonl.4
    Capacity,    \* maxBytes, in events
    ListLimit,   \* the limit of a list() call
    ReaderLines, \* what a helper reads at most: 1001 lines
    AuditFaults  \* "fail", "tear", "stall"

ASSUME AuditTrailAssumption ==
    /\ Reader \notin Clients
    /\ Backends \subseteq {"file", "helper"} /\ Backends # {}
    /\ ListLimit < ReaderLines
    /\ {MaxPending, Oldest, Capacity, ListLimit, ReaderLines} \subseteq Nat \ {0}
    /\ AuditFaults \subseteq {"fail", "tear", "stall"}

VARIABLES
    backend,
    auditUp,   \* ~unavailable
    queue,     \* the pending operations, the one that has started first
    io,        \* what that one is doing
    gen,       \* the generation its rotation renames next
    reply,     \* what each caller's promise has settled to
    files,     \* the lines of each generation; helpers keep theirs in 0
    listing,   \* the events of a list() that has just ended
    order,     \* history: the events written, in the order written,
    acked,     \* those reported written,
    dropped,   \* those removed with the oldest generation,
    refused,   \* those reported failed before their operation started
    tears      \* and the number of lines left without their end

audit == <<backend, auditUp, queue, io, gen, reply, files, listing,
           order, acked, dropped, refused, tears>>
logged  == <<order, acked, dropped, tears>>

Gens   == 0..Oldest
NoList == [events |-> <<>>, hasMore |-> FALSE, done |-> FALSE, read |-> 0, same |-> {}]

AuditInit ==
    /\ backend \in Backends
    /\ auditUp = TRUE /\ queue = <<>> /\ io = "idle" /\ gen = 0
    /\ reply = [c \in Clients \cup {Reader} |-> "none"]
    /\ files = [g \in Gens |-> <<>>] /\ listing = NoList
    /\ order = <<>> /\ acked = {} /\ dropped = {} /\ refused = {} /\ tears = 0

-----------------------------------------------------------------------------
(* run(): admission, the queue and the deadlines.                           *)

Head1   == queue[1]
IsRead  == Head1.by = Reader
Quiet   == \A c \in Clients \cup {Reader} : reply[c] \in {"none", "waiting"}

\* Between two handlers of the event loop: no settled promise and no
\* operation at the head of the queue is left to be resumed.
AuditAtRest == Quiet /\ (queue = <<>> \/ io # "idle")

Refuses(c, ev) == refused' = IF c = Reader THEN refused ELSE refused \cup {ev}

Submit(c, ev) ==
    /\ IF auditUp /\ Len(queue) < MaxPending
       THEN /\ queue' = Append(queue, [by |-> c, ev |-> ev, late |-> FALSE])
            /\ reply' = [reply EXCEPT ![c] = "waiting"]
            /\ UNCHANGED <<auditUp, refused>>
       ELSE /\ auditUp' = FALSE /\ reply' = [reply EXCEPT ![c] = "failed"]
            /\ Refuses(c, ev) /\ UNCHANGED queue
    /\ UNCHANGED <<backend, io, gen, files, listing, logged>>

\* The operation at the head has ended; a late one has nobody to tell.
Ends(how) ==
    /\ queue' = Tail(queue) /\ io' = "idle"
    /\ reply' = IF Head1.late THEN reply ELSE [reply EXCEPT ![Head1.by] = how]

Rejects == Ends("failed") /\ auditUp' = FALSE

\* An operation that finishes past its deadline before the caller's timer
\* has fired rejects like one that failed after its write.
Acks(finished) ==
    \/ ~finished.late /\ Ends("ok") /\ UNCHANGED auditUp
    \/ (finished.late \/ "stall" \in AuditFaults) /\ Rejects

Acked == acked' = IF reply'[Head1.by] = "ok" THEN acked \cup {Head1.ev} ELSE acked

\* The file backend looks at the size of the file and rotates a full one.
Work == CASE IsRead -> "read"
          [] ~IsRead /\ backend = "helper" -> "helper"
          [] ~IsRead /\ backend = "file" ->
                IF Len(files[0]) < Capacity THEN "append" ELSE "remove"

\* serialize() of the backend never waits: this queue has one operation.
OperationStarts ==
    /\ io = "idle" /\ queue # <<>>
    /\ \/ /\ auditUp
          /\ io' = Work
          /\ UNCHANGED <<auditUp, queue, reply, refused>>
       \/ /\ ~auditUp \/ "stall" \in AuditFaults
          /\ Rejects /\ Refuses(Head1.by, Head1.ev)
    /\ UNCHANGED <<backend, gen, files, listing, logged>>
Pending(c) == {i \in 1..Len(queue) : queue[i].by = c /\ ~queue[i].late}
CallerDeadline_OnlyQueued(c) ==
    /\ "stall" \in AuditFaults /\ Quiet
    /\ \E i \in Pending(c) :
          /\ i > 1 /\ queue' = [queue EXCEPT ![i].late = TRUE]
          /\ Refuses(c, queue[i].ev)
    /\ auditUp' = FALSE /\ reply' = [reply EXCEPT ![c] = "failed"]
    /\ UNCHANGED <<backend, io, gen, files, listing, logged>>
CallerDeadline(c) ==
    /\ "stall" \in AuditFaults /\ Quiet
    /\ \E i \in Pending(c) :
          /\ queue' = [queue EXCEPT ![i].late = TRUE]
          /\ IF i > 1 \/ io = "idle" THEN Refuses(c, queue[i].ev) ELSE UNCHANGED refused
    /\ auditUp' = FALSE /\ reply' = [reply EXCEPT ![c] = "failed"]
    /\ UNCHANGED <<backend, io, gen, files, listing, logged>>

-----------------------------------------------------------------------------
(* FileAuditLog.write. A line without its end swallows the next one.        *)

Line(ev, ok, open) == [ev |-> ev, ok |-> ok, open |-> open]
Open(g)   == files[g] # <<>> /\ files[g][Len(files[g])].open
Whole(ev) == [files EXCEPT ![0] =
                 IF Open(0) THEN Append(Front(@), Line(ev, FALSE, FALSE))
                            ELSE Append(@, Line(ev, TRUE, FALSE))]
Torn(ev)  == [files EXCEPT ![0] =
                 IF Open(0) THEN Append(Front(@), Line(ev, FALSE, TRUE))
                            ELSE Append(@, Line(ev, FALSE, TRUE))]

EventsOf(lines) == {lines[i].ev : i \in 1..Len(lines)}

RemovesOldest ==
    /\ io = "remove"
    /\ files' = [files EXCEPT ![Oldest] = <<>>]
    /\ dropped' = dropped \cup EventsOf(files[Oldest])
    /\ io' = "rename" /\ gen' = Oldest - 1
    /\ UNCHANGED <<backend, auditUp, queue, reply, listing, refused, order, acked, tears>>

Renamed(g) == IF files[g] = <<>> THEN files
              ELSE [files EXCEPT ![g + 1] = files[g], ![g] = <<>>]
Renames_Ascending ==
    /\ io = "rename"
    /\ files' = Renamed(Oldest - 1 - gen)
    /\ IF gen = 0 THEN io' = "append" /\ UNCHANGED gen
                  ELSE gen' = gen - 1 /\ UNCHANGED io
    /\ UNCHANGED <<backend, auditUp, queue, reply, listing, refused, logged>>
Renames ==
    /\ io = "rename"
    /\ files' = Renamed(gen)
    /\ IF gen = 0 THEN io' = "append" /\ UNCHANGED gen
                  ELSE gen' = gen - 1 /\ UNCHANGED io
    /\ UNCHANGED <<backend, auditUp, queue, reply, listing, refused, logged>>

Appends ==
    /\ io = "append"
    /\ files' = Whole(Head1.ev) /\ order' = Append(order, Head1.ev)
    /\ io' = "sync"
    /\ UNCHANGED <<backend, auditUp, queue, gen, reply, listing, acked, dropped, refused, tears>>

Syncs ==
    /\ io = "sync"
    /\ Acks(Head1) /\ Acked
    /\ UNCHANGED <<backend, gen, files, listing, order, dropped, refused, tears>>

\* A full disk or a crash may leave the beginning of the line behind.
LeavesTorn ==
    \/ UNCHANGED <<files, tears>>
    \/ /\ io = "append" /\ "tear" \in AuditFaults
       /\ files' = Torn(Head1.ev) /\ tears' = tears + 1

FileFails ==
    /\ "fail" \in AuditFaults
    /\ io \in {"remove", "rename", "append", "sync"}
    /\ Rejects /\ LeavesTorn /\ gen' = 0
    /\ UNCHANGED <<backend, listing, order, acked, dropped, refused>>

-----------------------------------------------------------------------------
(* The helpers: standard error to the journal, or a fixed process. One that *)
(* failed or was killed at its deadline may have written the event.         *)

HelperWrites ==
    /\ io = "helper"
    /\ files' = Whole(Head1.ev) /\ order' = Append(order, Head1.ev)
    /\ Acks(Head1) /\ Acked
    /\ UNCHANGED <<backend, gen, listing, dropped, refused, tears>>

HelperFails ==
    /\ io = "helper" /\ "fail" \in AuditFaults
    /\ Rejects
    /\ \/ files' = Whole(Head1.ev) /\ order' = Append(order, Head1.ev)
       \/ UNCHANGED <<files, order>>
    /\ UNCHANGED <<backend, gen, listing, acked, dropped, refused, tears>>

-----------------------------------------------------------------------------
(* list(): the generations from the newest on, until there is one event     *)
(* more than asked for; lines that do not parse are passed over.            *)

Parsed(lines) ==
    LET upTo[i \in 0..Len(lines)] ==
            IF i = 0 THEN <<>>
            ELSE IF lines[i].ok THEN Append(upTo[i - 1], lines[i].ev) ELSE upTo[i - 1]
    IN  upTo[Len(lines)]

\* The events a reader has collected before it opens generation n.
Collected_StopsEarly[n \in 0..Oldest + 1] ==
    IF n = 0 THEN <<>>
    ELSE LET c == Collected_StopsEarly[n - 1]
         IN  IF Len(c) >= ListLimit THEN c ELSE c \o Reverse(Parsed(files[n - 1]))
CollectedEarly == Collected_StopsEarly[Oldest + 1]
Collected[n \in 0..Oldest + 1] ==
    IF n = 0 THEN <<>>
    ELSE LET c == Collected[n - 1]
         IN  IF Len(c) > ListLimit THEN c ELSE c \o Reverse(Parsed(files[n - 1]))
AllCollected == Collected[Oldest + 1]

Shown(events, more, n, same) ==
    [events |-> SubSeq(events, 1, IF Len(events) < ListLimit THEN Len(events) ELSE ListLimit),
     hasMore |-> Len(events) > ListLimit \/ more, done |-> TRUE, read |-> n, same |-> same]

\* The helpers read the last lines of the host's log, the journal's also those
\* of others, and print the oldest first or the newest first. limitEvents sorts
\* by time stamp, to the millisecond, then by the ID of the call; what is equal
\* stays as it was read. Bound: the IDs compare like the calls of Event.
Millisecond(same, i) == Cardinality({j \in 1..i - 1 : j \notin same})
ReadBefore(ascending, i, j) == IF ascending THEN i < j ELSE j < i
ListedBefore(lines, same, ascending, i, j) ==
    LET mi == Millisecond(same, i)
        mj == Millisecond(same, j)
    IN  \/ mi > mj
        \/ mi = mj /\ lines[i].t > lines[j].t
        \/ mi = mj /\ lines[i].t = lines[j].t /\ ReadBefore(ascending, i, j)
NewestFirst(lines, same, ascending) ==
    [n \in 1..Len(lines) |->
        lines[CHOOSE i \in 1..Len(lines) :
                 Cardinality({j \in 1..Len(lines) :
                                 ListedBefore(lines, same, ascending, j, i)}) = n - 1]]

Window(n) == SubSeq(order, Len(order) - n + 1, Len(order))
HelperLists(n, same, ascending) ==
    Shown(NewestFirst(Window(n), same, ascending), n = ReaderLines, n, same)
Windows   == {n \in 0..ReaderLines : n <= Len(order)}

Reads ==
    /\ io = "read"
    /\ Acks(Head1)
    /\ \/ /\ backend = "file" /\ reply'[Reader] = "ok"
          /\ listing' = Shown(AllCollected, FALSE, 0, {})
       \/ /\ backend = "helper" /\ reply'[Reader] = "ok"
          /\ \E n \in Windows, ascending \in BOOLEAN :
                \E same \in SUBSET (1..n - 1) :
                   listing' = HelperLists(n, same, ascending)
       \/ reply'[Reader] # "ok" /\ UNCHANGED listing
    /\ UNCHANGED <<backend, gen, files, refused, logged>>

ReadFails ==
    /\ io = "read" /\ "fail" \in AuditFaults
    /\ Rejects
    /\ UNCHANGED <<backend, gen, files, listing, refused, logged>>

\* Bound: a list is asked for while nothing else is pending.
Lists ==
    /\ AuditAtRest /\ reply[Reader] = "none" /\ queue = <<>>
    /\ Submit(Reader, "list")

ListAnswered ==
    /\ reply[Reader] \in {"ok", "failed"}
    /\ reply' = [reply EXCEPT ![Reader] = "none"] /\ listing' = NoList
    /\ UNCHANGED <<backend, auditUp, queue, io, gen, files, refused, logged>>

-----------------------------------------------------------------------------

\* What the log and the storage below it do on their own.
Storage ==
    \/ RemovesOldest \/ Renames \/ Appends \/ Syncs \/ FileFails
    \/ HelperWrites \/ HelperFails \/ Reads \/ ReadFails

\* The process ends, perhaps in the middle of a line, and starts again.
AuditRestarts ==
    /\ IF io = "helper"
       THEN /\ \/ files' = Whole(Head1.ev) /\ order' = Append(order, Head1.ev)
               \/ UNCHANGED <<files, order>>
            /\ UNCHANGED tears
       ELSE LeavesTorn /\ UNCHANGED order
    /\ auditUp' = TRUE /\ queue' = <<>> /\ io' = "idle" /\ gen' = 0
    /\ reply' = [c \in Clients \cup {Reader} |-> "none"] /\ listing' = NoList
    /\ UNCHANGED <<backend, acked, dropped, refused>>

-----------------------------------------------------------------------------
(* Properties.                                                              *)

AuditTypeOK ==
    /\ backend \in Backends /\ auditUp \in BOOLEAN
    /\ io \in {"idle", "read", "helper", "remove", "rename", "append", "sync"}
    /\ io = "idle" \/ queue # <<>>
    /\ gen \in 0..Oldest - 1 /\ Len(queue) <= MaxPending
    /\ reply \in [Clients \cup {Reader} -> {"none", "waiting", "ok", "failed"}]
    /\ backend = "file" => \A g \in Gens : Len(files[g]) <= Capacity

Recorded == ToSet(order)
InFiles  == UNION {EventsOf(files[g]) : g \in Gens}
Readable(lines) == {lines[i].ev : i \in {k \in 1..Len(lines) : lines[k].ok}}
Keeps    == UNION {Readable(files[g]) : g \in Gens}

\* Which of two events was written first, and which of two lines is the older.
Before(d, e) == \E i, j \in 1..Len(order) : i < j /\ order[i] = d /\ order[j] = e
Older(g, i, h, j) == g > h \/ (g = h /\ i < j)

\* What the generations hold, oldest first, is the end of what was written, in
\* the order written and each once: rotation, interrupted or not, gives up nothing
\* but the oldest file, and the only other events that cannot be read back are
\* those written behind a torn line, one for each. What was reported written was
\* written, and what was reported failed before its operation had started never is.
TrailIsTail ==
    LET spoilt == Recorded \ (Keeps \cup dropped)
    IN  /\ Keeps \subseteq Recorded /\ \A e \in Recorded : ~Before(e, e)
        /\ \A g, h \in Gens : \A i \in 1..Len(files[g]), j \in 1..Len(files[h]) :
              files[g][i].ok /\ files[h][j].ok /\ Older(g, i, h, j) =>
                 Before(files[g][i].ev, files[h][j].ev)
        /\ \A d \in dropped, e \in Keeps : ~Before(e, d)
        /\ spoilt \subseteq InFiles /\ Cardinality(spoilt) <= tears
        /\ acked \subseteq Recorded /\ refused \cap Recorded = {}

\* The millisecond an event of these lines was written in.
At(e, lines, same) == Millisecond(same, CHOOSE i \in 1..Len(lines) : lines[i] = e)

\* A list is the newest of what was read, newest first and each once, to the
\* millisecond with the helpers and exactly with the file backend; it says there
\* is no more only when there is none in the files, or in what a helper could read.
NewestOf(events, read, lines, same) ==
    /\ Len(events) = IF Cardinality(read) < ListLimit THEN Cardinality(read) ELSE ListLimit
    /\ \A k \in 1..Len(events) :
          LET rest == read \ ToSet(SubSeq(events, 1, k - 1))
          IN  /\ events[k] \in rest
              /\ \A e \in rest : At(e, lines, same) <= At(events[k], lines, same)
ListingIsNewest ==
    listing.done =>
        LET lines == IF backend = "file" THEN order ELSE Window(listing.read)
            read  == IF backend = "file" THEN Keeps ELSE ToSet(lines)
        IN  /\ NewestOf(listing.events, read, lines, listing.same)
            /\ Len(listing.events) < Cardinality(read) => listing.hasMore
            /\ backend = "file" => (listing.hasMore <=> Len(listing.events) < Cardinality(read))
            /\ backend = "helper" /\ ~listing.hasMore => listing.read < ReaderLines

=============================================================================
