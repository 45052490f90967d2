--------------------------- MODULE FileTransferTrail ---------------------------
(***************************************************************************)
(* What the audit log of FileTransfer keeps, in files of any size and with  *)
(* any number of generations, transfers, restarts and faults: TrailIsTail   *)
(* from LogInv and FreshInv, which say where the events still to be written *)
(* are, and ListingIsNewest from that and from what the recursive functions *)
(* of the readers compute.                                                  *)
(***************************************************************************)
EXTENDS FileTransferProofs

\* The transfer has come to the step that asks for e to be written.
Started(e) == IF e.phase = "attempted" THEN step[e.t] # "idle" ELSE step[e.t] \in Ended
\* e waits to be written, or was written, kept or refused.
Queued(e)  == \E i \in 1..Len(queue) : queue[i].by # Reader /\ queue[i].ev = e
Written    == InFiles \cup Recorded \cup dropped
Used(e)    == e \in Written \cup refused \/ Queued(e)

\* No event is asked for twice: each belongs to a step that is taken once.
FreshInv == \A e : Used(e) => e \in Events /\ Started(e)

\* A pending event is not on record but between the append and the sync, and
\* not refused but when nothing will start it any more.
OnceInv ==
    /\ \A i \in 1..Len(queue) :
          queue[i].by # Reader =>
             /\ queue[i].ev \in Written => i = 1 /\ io = "sync"
             /\ queue[i].ev \in refused => ~auditUp /\ (i > 1 \/ io = "idle")
    /\ \A i, j \in 1..Len(queue) :
          queue[i].by # Reader /\ queue[j].by # Reader /\ queue[i].ev = queue[j].ev => i = j
    /\ io = "sync" => Head1.ev \in Recorded
    /\ acked \subseteq Recorded /\ refused \cap Recorded = {}

\* The lines of what is on record are in the order written, older files first.
InOrder ==
    \A y, z \in Recorded : \A g, h \in Gens : \A i \in 1..Len(files[g]), j \in 1..Len(files[h]) :
       files[g][i].ev = y /\ files[h][j].ev = z /\ Older(g, i, h, j) => Before(y, z)

\* Each event is written once; only an event on record has a line that parses,
\* and a line without its end belongs to none; what was dropped is older than
\* all that is in the files, and a rename finds the place it moves to empty.
LinesInv ==
    /\ \A i, j \in 1..Len(order) : order[i] = order[j] => i = j
    /\ \A g \in Gens : \A i \in 1..Len(files[g]) :
          /\ files[g][i].ok => files[g][i].ev \in Recorded
          /\ files[g][i].open => ~files[g][i].ok /\ files[g][i].ev \notin Recorded
    /\ InOrder
    /\ \A d \in dropped, e \in InFiles : ~Before(e, d)
    /\ Recorded \subseteq InFiles \cup dropped
    /\ io = "rename" => files[gen + 1] = <<>>

\* An open line will take the next event with it: its tear is not used up yet.
Spoilt   == Recorded \ (Keeps \cup dropped)
TearsInv == tears \in Nat /\ Cardinality(Spoilt) + (IF Open(0) THEN 1 ELSE 0) <= tears
\* A list is there for a reader whose promise has just settled.
Heard == listing.done => reply[Reader] = "ok"

-----------------------------------------------------------------------------
\* What is on record, in the files, and what can be read back.
LEMMA RecordedWhen ==
  ASSUME QueueInv
  PROVE  /\ Len(order) \in Nat /\ Recorded \subseteq Events
         /\ \A e : e \in Recorded <=> \E i \in 1..Len(order) : order[i] = e
  BY DEF QueueInv, Recorded, ToSet

\* The same of the lines.
LEMMA LinesWhen ==
  ASSUME FilesInv
  PROVE  /\ \A g \in Gens : files[g] \in Seq(Lines) /\ Len(files[g]) \in Nat
         /\ \A g \in Gens : \A i \in 1..Len(files[g]) : files[g][i] \in Lines
         /\ \A e : e \in InFiles <=> \E g \in Gens : \E i \in 1..Len(files[g]) : files[g][i].ev = e
         /\ \A e : e \in Keeps <=> \E g \in Gens : \E i \in 1..Len(files[g]) :
                                       files[g][i].ok /\ files[g][i].ev = e
<1>1. \A g \in Gens : files[g] \in Seq(Lines) /\ Len(files[g]) \in Nat
  BY DEF FilesInv
<1>2. \A g \in Gens : \A i \in 1..Len(files[g]) : files[g][i] \in Lines
  BY <1>1
<1> QED
  BY <1>1, <1>2 DEF InFiles, EventsOf, Keeps, Readable

\* An event written last comes behind all others.
LEMMA OrderGrows ==
  ASSUME QueueInv, NEW e \in Events, order' = Append(order, e)
  PROVE  /\ order' \in Seq(Events) /\ Len(order') = Len(order) + 1
         /\ order'[Len(order) + 1] = e /\ \A i \in 1..Len(order) : order'[i] = order[i]
         /\ Recorded' = Recorded \cup {e}
         /\ \A x, y : Before(x, y)' <=> Before(x, y) \/ (x \in Recorded /\ y = e)
<1>1. order \in Seq(Events) /\ Len(order) \in Nat
  BY DEF QueueInv
<1>2. /\ order' \in Seq(Events) /\ Len(order') = Len(order) + 1
      /\ order'[Len(order) + 1] = e /\ \A i \in 1..Len(order) : order'[i] = order[i]
  BY <1>1
<1>3. \A x : x \in Recorded' <=> \E i \in 1..Len(order') : order'[i] = x
  BY <1>2 DEF Recorded, ToSet
<1>4. \A x : x \in Recorded <=> \E i \in 1..Len(order) : order[i] = x
  BY <1>1 DEF Recorded, ToSet
<1>5. \A x : x \in Recorded' <=> x \in Recorded \cup {e}
  BY <1>1, <1>2, <1>3, <1>4
<1>6. ASSUME NEW x, NEW y PROVE Before(x, y)' <=> Before(x, y) \/ (x \in Recorded /\ y = e)
  <2>1. ASSUME Before(x, y) PROVE Before(x, y)'
    BY <1>1, <1>2, <2>1 DEF Before
  <2>2. ASSUME x \in Recorded, y = e PROVE Before(x, y)'
    <3>1. PICK i \in 1..Len(order) : order[i] = x
      BY <1>4, <2>2
    <3> QED
      BY <1>1, <1>2, <2>2, <3>1 DEF Before
  <2>3. ASSUME Before(x, y)' PROVE Before(x, y) \/ (x \in Recorded /\ y = e)
    <3>1. PICK i, j \in 1..Len(order') : i < j /\ order'[i] = x /\ order'[j] = y
      BY <2>3 DEF Before
    <3>2. i \in 1..Len(order) /\ x \in Recorded
      BY <1>1, <1>2, <1>4, <3>1
    <3>3. j \in 1..Len(order) \/ j = Len(order) + 1
      BY <1>1, <1>2, <3>1
    <3> QED
      BY <1>2, <3>1, <3>2, <3>3 DEF Before
  <2> QED
    BY <2>1, <2>2, <2>3
<1> QED
  BY <1>2, <1>5, <1>6

\* An event is behind itself only when it is written twice.
LEMMA WrittenOnce ==
  ASSUME QueueInv, \A i, j \in 1..Len(order) : order[i] = order[j] => i = j
  PROVE  /\ \A x : ~Before(x, x)
         /\ \A x, y : Before(x, y) => ~Before(y, x) /\ x \in Recorded /\ y \in Recorded
         /\ \A x, y, z : Before(x, y) /\ Before(y, z) => Before(x, z)
         /\ \A x, y \in Recorded : x = y \/ Before(x, y) \/ Before(y, x)
<1>1. Len(order) \in Nat /\ \A e : e \in Recorded <=> \E i \in 1..Len(order) : order[i] = e
  BY RecordedWhen
<1>2. \A x : ~Before(x, x)
  BY <1>1 DEF Before
<1>3. \A x, y : Before(x, y) => ~Before(y, x) /\ x \in Recorded /\ y \in Recorded
  BY <1>1 DEF Before
<1>4. \A x, y, z : Before(x, y) /\ Before(y, z) => Before(x, z)
  BY <1>1 DEF Before
<1>5. \A x, y \in Recorded : x = y \/ Before(x, y) \/ Before(y, x)
  BY <1>1 DEF Before
<1> QED
  BY <1>2, <1>3, <1>4, <1>5

\* What a write does to the newest file.
LEMMA LineWritten ==
  ASSUME FilesInv, NEW x \in Lines,
         files' = [files EXCEPT ![0] = IF Open(0) THEN Append(Front(@), x) ELSE Append(@, x)]
  PROVE  /\ 0 \in Gens /\ files'[0] \in Seq(Lines) /\ Len(files'[0]) \in Nat \ {0}
         /\ files'[0][Len(files'[0])] = x
         /\ \A g \in Gens : g # 0 => files'[g] = files[g]
         /\ \A i \in 1..Len(files'[0]) - 1 : i \in 1..Len(files[0]) /\ files'[0][i] = files[0][i]
         /\ Len(files'[0]) = IF Open(0) THEN Len(files[0]) ELSE Len(files[0]) + 1
<1>1. 0 \in Gens /\ files[0] \in Seq(Lines) /\ Len(files[0]) \in Nat /\ DOMAIN files = Gens
  BY AuditTrailAssumption DEF FilesInv, Gens
<1>2. \A g \in Gens : g # 0 => files'[g] = files[g]
  BY <1>1
<1>3. CASE Open(0)
  <2>1. files'[0] = Append(Front(files[0]), x) /\ Len(files[0]) >= 1
    BY <1>1, <1>3 DEF Open
  <2>2. /\ Front(files[0]) \in Seq(Lines) /\ Len(Front(files[0])) = Len(files[0]) - 1
        /\ \A i \in 1..Len(files[0]) - 1 : Front(files[0])[i] = files[0][i]
    BY <1>1, <2>1 DEF Front
  <2> QED
    BY <1>1, <1>2, <1>3, <2>1, <2>2
<1>4. CASE ~Open(0)
  BY <1>1, <1>2, <1>4
<1> QED
  BY <1>3, <1>4

\* The lines after a write: those before it, but for one left without its end,
\* and the new one behind them.
LEMMA PlacesAfter ==
  ASSUME FilesInv, LinesInv, NEW x \in Lines,
         files' = [files EXCEPT ![0] = IF Open(0) THEN Append(Front(@), x) ELSE Append(@, x)]
  PROVE  /\ \A g \in Gens : \A i \in 1..Len(files'[g]) :
               \/ i \in 1..Len(files[g]) /\ files'[g][i] = files[g][i]
               \/ g = 0 /\ i = Len(files'[0]) /\ files'[g][i] = x
         /\ \A g \in Gens : \A i \in 1..Len(files[g]) :
               \/ files[g][i].open
               \/ i \in 1..Len(files'[g]) /\ files'[g][i] = files[g][i]
         /\ InFiles' \subseteq InFiles \cup {x.ev} /\ x.ev \in InFiles'
         /\ InFiles \cap Recorded \subseteq InFiles'
         /\ Keeps' = IF x.ok THEN Keeps \cup {x.ev} ELSE Keeps
         /\ (Open(0)' <=> x.open)
<1> DEFINE n == Len(files'[0])
<1>1. /\ 0 \in Gens /\ files'[0] \in Seq(Lines) /\ n \in Nat \ {0} /\ files'[0][n] = x
      /\ \A g \in Gens : g # 0 => files'[g] = files[g]
      /\ \A i \in 1..n - 1 : i \in 1..Len(files[0]) /\ files'[0][i] = files[0][i]
      /\ n = IF Open(0) THEN Len(files[0]) ELSE Len(files[0]) + 1
  BY LineWritten
<1>2. /\ \A g \in Gens : files[g] \in Seq(Lines) /\ Len(files[g]) \in Nat
      /\ \A e : e \in InFiles <=> \E g \in Gens : \E i \in 1..Len(files[g]) : files[g][i].ev = e
      /\ \A e : e \in Keeps <=> \E g \in Gens : \E i \in 1..Len(files[g]) :
                                    files[g][i].ok /\ files[g][i].ev = e
  BY LinesWhen
<1>3. /\ \A e : e \in InFiles' <=> \E g \in Gens : \E i \in 1..Len(files'[g]) : files'[g][i].ev = e
      /\ \A e : e \in Keeps' <=> \E g \in Gens : \E i \in 1..Len(files'[g]) :
                                    files'[g][i].ok /\ files'[g][i].ev = e
  <2>1. \A g \in Gens : files'[g] \in Seq(Lines)
    BY <1>1, <1>2
  <2> QED
    BY <2>1 DEF InFiles, EventsOf, Keeps, Readable
<1> HIDE DEF n
<1>4. ASSUME NEW g \in Gens, NEW i \in 1..Len(files'[g])
      PROVE  \/ i \in 1..Len(files[g]) /\ files'[g][i] = files[g][i]
             \/ g = 0 /\ i = n /\ files'[g][i] = x
  <2>1. CASE g # 0
    BY <1>1, <1>4, <2>1
  <2>2. CASE g = 0
    <3>1. i \in 1..n - 1 \/ i = n
      BY <1>1, <1>4, <2>2 DEF n
    <3> QED
      BY <1>1, <2>2, <3>1
  <2> QED
    BY <2>1, <2>2
<1>5. ASSUME NEW g \in Gens, NEW i \in 1..Len(files[g])
      PROVE  \/ files[g][i].open
             \/ i \in 1..Len(files'[g]) /\ files'[g][i] = files[g][i]
  <2>1. CASE g # 0
    BY <1>1, <1>5, <2>1
  <2>2. CASE g = 0 /\ i \in 1..n - 1
    BY <1>1, <2>2 DEF n
  <2>3. CASE g = 0 /\ i \notin 1..n - 1
    <3>1. Open(0) /\ i = Len(files[0])
      BY <1>1, <1>2, <1>5, <2>3
    <3> QED
      BY <2>3, <3>1 DEF Open
  <2> QED
    BY <2>1, <2>2, <2>3
<1>6. ASSUME NEW g \in Gens, NEW i \in 1..Len(files[g]), files[g][i].open
      PROVE  ~files[g][i].ok /\ files[g][i].ev \notin Recorded
  BY <1>6 DEF LinesInv
<1>7. n \in 1..Len(files'[0]) /\ files'[0][n] = x
  BY <1>1 DEF n
<1>8. ASSUME NEW e \in InFiles' PROVE e \in InFiles \cup {x.ev}
  <2>1. PICK g \in Gens : \E i \in 1..Len(files'[g]) : files'[g][i].ev = e
    BY <1>3
  <2>2. PICK i \in 1..Len(files'[g]) : files'[g][i].ev = e
    BY <2>1
  <2>3. \/ i \in 1..Len(files[g]) /\ files'[g][i] = files[g][i]
        \/ files'[g][i] = x
    BY <1>4
  <2> QED
    BY <1>2, <2>2, <2>3
<1>9. x.ev \in InFiles'
  <2>1. \E g \in Gens : \E i \in 1..Len(files'[g]) : files'[g][i].ev = x.ev
    BY <1>1, <1>7
  <2> QED
    BY <1>3, <2>1
<1>10. \A e \in InFiles : e \in Recorded => e \in InFiles'
  BY <1>2, <1>3, <1>5, <1>6
<1>11. \A e \in Keeps' : e \in Keeps \/ (x.ok /\ e = x.ev)
  BY <1>2, <1>3, <1>4
<1>12. ASSUME NEW e \in Keeps PROVE e \in Keeps'
  <2>1. PICK g \in Gens : \E i \in 1..Len(files[g]) : files[g][i].ok /\ files[g][i].ev = e
    BY <1>2
  <2>2. PICK i \in 1..Len(files[g]) : files[g][i].ok /\ files[g][i].ev = e
    BY <2>1
  <2>3. i \in 1..Len(files'[g]) /\ files'[g][i] = files[g][i]
    BY <1>5, <1>6, <2>2
  <2> QED
    BY <1>3, <2>2, <2>3
<1>13. x.ok => x.ev \in Keeps'
  <2>1. x.ok => \E g \in Gens : \E i \in 1..Len(files'[g]) :
                   files'[g][i].ok /\ files'[g][i].ev = x.ev
    BY <1>1, <1>7
  <2> QED
    BY <1>3, <2>1
<1>14. (Open(0)' <=> x.open)
  <2>1. files'[0] # <<>>
    BY <1>1 DEF n
  <2> QED
    BY <1>7, <2>1, Zenon DEF Open, n
<1>15. Keeps' = IF x.ok THEN Keeps \cup {x.ev} ELSE Keeps
  <2>1. CASE x.ok
    BY <1>11, <1>12, <1>13, <2>1
  <2>2. CASE ~x.ok
    BY <1>11, <1>12, <2>2
  <2> QED
    BY <2>1, <2>2
<1> QED
  BY <1>4, <1>5, <1>8, <1>9, <1>10, <1>14, <1>15 DEF n

\* A set whose elements are numbered, perhaps more than once.
LEMMA Numbered ==
  ASSUME NEW n \in Nat, NEW f, NEW S, \A i \in 1..n : f[i] \in S,
         \A x \in S : \E i \in 1..n : f[i] = x
  PROVE  /\ IsFiniteSet(S) /\ Cardinality(S) \in Nat
         /\ (\A i, j \in 1..n : f[i] = f[j] => i = j) => Cardinality(S) = n
<1> DEFINE h == [i \in 1..n |-> f[i]]
<1>1. h \in Surjection(1..n, S)
  BY DEF Surjection
<1>2. IsFiniteSet(1..n) /\ Cardinality(1..n) = n
  <2>1. 1 \in Int /\ n \in Int /\ 1 <= n + 1
    OBVIOUS
  <2> QED
    BY <2>1, FS_Interval
<1>3. IsFiniteSet(S) /\ (Cardinality(S) = Cardinality(1..n) <=> h \in Injection(1..n, S))
  BY <1>1, <1>2, FS_Surjection
<1>4. (\A i, j \in 1..n : f[i] = f[j] => i = j) => h \in Injection(1..n, S)
  BY DEF Injection, IsInjective
<1> QED
  BY <1>2, <1>3, <1>4, FS_CardinalityType

\* Events of the log and events that cannot be read back are finitely many.
LEMMA SpoiltFinite ==
  ASSUME QueueInv
  PROVE  IsFiniteSet(Recorded) /\ IsFiniteSet(Spoilt) /\ Cardinality(Spoilt) \in Nat
<1>1. IsFiniteSet(Recorded)
  BY RecordedWhen, Numbered
<1>2. IsFiniteSet(Spoilt)
  BY <1>1, FS_Subset DEF Spoilt
<1> QED
  BY <1>1, <1>2, FS_CardinalityType

\* A write, whole or torn, puts a line behind all the others, and no event on
\* record before its own.
LEMMA LineKeepsLines ==
  ASSUME QueueInv, FilesInv, LinesInv, NEW x \in Lines, x.ev \notin Written,
         files' = [files EXCEPT ![0] = IF Open(0) THEN Append(Front(@), x) ELSE Append(@, x)],
         order' = Append(order, x.ev) \/ UNCHANGED order,
         x.ok => order' # order, x.open => ~x.ok /\ UNCHANGED order,
         UNCHANGED dropped, io' # "rename"
  PROVE  LinesInv'
<1>1. /\ \A g \in Gens : \A i \in 1..Len(files'[g]) :
               \/ i \in 1..Len(files[g]) /\ files'[g][i] = files[g][i]
               \/ g = 0 /\ i = Len(files'[0]) /\ files'[g][i] = x
      /\ InFiles' \subseteq InFiles \cup {x.ev} /\ x.ev \in InFiles'
      /\ InFiles \cap Recorded \subseteq InFiles'
  BY PlacesAfter
<1>2. /\ x.ev \in Events /\ x.ev \notin Recorded /\ x.ev \notin InFiles /\ x.ev \notin dropped
  BY DEF Lines, Written
<1>3. /\ Len(order) \in Nat /\ Recorded \subseteq Events
      /\ \A e : e \in Recorded <=> \E i \in 1..Len(order) : order[i] = e
  BY RecordedWhen
<1>4. /\ Recorded \subseteq Recorded' /\ Recorded' \subseteq Recorded \cup {x.ev}
      /\ \A y, z : Before(y, z)' <=> Before(y, z) \/ (y \in Recorded /\ z = x.ev /\ order' # order)
      /\ \A i, j \in 1..Len(order') : order'[i] = order'[j] => i = j
      /\ order' # order <=> x.ev \in Recorded'
  <2>1. CASE order' = Append(order, x.ev)
    <3>1. /\ Len(order') = Len(order) + 1 /\ Recorded' = Recorded \cup {x.ev}
          /\ order'[Len(order) + 1] = x.ev /\ \A i \in 1..Len(order) : order'[i] = order[i]
          /\ \A y, z : Before(y, z)' <=> Before(y, z) \/ (y \in Recorded /\ z = x.ev)
      BY <1>2, <2>1, OrderGrows
    <3>2. order' # order
      BY <1>3, <3>1
    <3>3. ASSUME NEW i \in 1..Len(order'), NEW j \in 1..Len(order'), order'[i] = order'[j]
          PROVE  i = j
      <4>1. /\ i \in 1..Len(order) \/ i = Len(order) + 1
            /\ j \in 1..Len(order) \/ j = Len(order) + 1
        BY <1>3, <3>1
      <4>2. \A k \in 1..Len(order) : order[k] # x.ev
        BY <1>2, <1>3
      <4> QED
        BY <3>1, <3>3, <4>1, <4>2 DEF LinesInv
    <3> QED
      BY <3>1, <3>2, <3>3
  <2>2. CASE UNCHANGED order
    <3>1. Recorded' = Recorded /\ \A y, z : Before(y, z)' <=> Before(y, z)
      BY <2>2 DEF Recorded, Before
    <3> QED
      BY <1>2, <2>2, <3>1 DEF LinesInv
  <2> QED
    BY <2>1, <2>2
<1>5. \A g \in Gens : \A i \in 1..Len(files[g]) : files[g][i].ev \in InFiles
  BY LinesWhen
<1>6. \A g \in Gens : \A i \in 1..Len(files'[g]) :
        /\ files'[g][i].ok => files'[g][i].ev \in Recorded'
        /\ files'[g][i].open => ~files'[g][i].ok /\ files'[g][i].ev \notin Recorded'
  <2>1. SUFFICES ASSUME NEW g \in Gens, NEW i \in 1..Len(files'[g])
                 PROVE  /\ files'[g][i].ok => files'[g][i].ev \in Recorded'
                        /\ files'[g][i].open => ~files'[g][i].ok /\ files'[g][i].ev \notin Recorded'
    OBVIOUS
  <2>2. CASE i \in 1..Len(files[g]) /\ files'[g][i] = files[g][i]
    <3>1. /\ files[g][i].ok => files[g][i].ev \in Recorded
          /\ files[g][i].open => ~files[g][i].ok /\ files[g][i].ev \notin Recorded
      BY <2>2 DEF LinesInv
    <3>2. files[g][i].ev # x.ev
      BY <1>2, <1>5, <2>2
    <3> QED
      BY <1>4, <2>2, <3>1, <3>2
  <2>3. CASE files'[g][i] = x
    BY <1>4, <2>3
  <2> QED
    BY <1>1, <2>2, <2>3
<1>7. ASSUME NEW g \in Gens, NEW h \in Gens, NEW i \in 1..Len(files'[g]), NEW j \in 1..Len(files'[h]),
             NEW y \in Recorded', NEW z \in Recorded',
             y = files'[g][i].ev, z = files'[h][j].ev, Older(g, i, h, j)
      PROVE  Before(y, z)'
  <2>1. Gens \subseteq Nat /\ Len(files'[0]) \in Nat /\ 0 \in Gens
    BY LineWritten, AuditTrailAssumption DEF Gens
  <2>2. ~(g = 0 /\ i = Len(files'[0]))
    BY <1>7, <2>1 DEF Older
  <2>3. i \in 1..Len(files[g]) /\ files'[g][i] = files[g][i]
    BY <1>1, <2>2
  <2>4. y = files[g][i].ev /\ y \in Recorded
    BY <1>2, <1>4, <1>5, <1>7, <2>3
  <2>5. CASE j \in 1..Len(files[h]) /\ files'[h][j] = files[h][j]
    <3>1. z = files[h][j].ev /\ z \in Recorded
      BY <1>2, <1>4, <1>5, <1>7, <2>5
    <3>2. Before(y, z)
      BY <1>7, <2>3, <2>4, <2>5, <3>1 DEF LinesInv, InOrder
    <3> QED
      BY <1>4, <3>2
  <2>6. CASE files'[h][j] = x
    BY <1>4, <1>7, <2>4, <2>6
  <2> QED
    BY <1>1, <2>5, <2>6
<1>8. \A d \in dropped', e \in InFiles' : ~Before(e, d)'
  <2>1. ASSUME NEW d \in dropped, NEW e \in InFiles', Before(e, d)' PROVE FALSE
    <3>1. Before(e, d) /\ d # x.ev
      BY <1>2, <1>4, <2>1
    <3>2. e \in Recorded
      BY <1>3, <3>1 DEF Before
    <3> QED
      BY <1>1, <1>2, <2>1, <3>1, <3>2 DEF LinesInv
  <2> QED
    BY <2>1
<1>9. Recorded' \subseteq InFiles' \cup dropped'
  BY <1>1, <1>4 DEF LinesInv
<1>10. InOrder'
  BY <1>7 DEF InOrder, Older
<1> QED
  BY <1>4, <1>6, <1>8, <1>9, <1>10 DEF LinesInv

\* A whole line; behind a torn one it is spoilt, and the torn end is gone.
LEMMA WholeKeeps ==
  ASSUME QueueInv, FilesInv, LinesInv, TearsInv, NEW e \in Events, e \notin Written,
         files' = Whole(e), order' = Append(order, e), UNCHANGED <<dropped, tears>>,
         io' # "rename"
  PROVE  /\ LinesInv' /\ TearsInv' /\ Written' \subseteq Written \cup {e}
         /\ Recorded' = Recorded \cup {e}
<1>1. PICK x \in Lines :
        /\ x.ev = e /\ (x.ok <=> ~Open(0)) /\ ~x.open
        /\ files' = [files EXCEPT ![0] = IF Open(0) THEN Append(Front(@), x) ELSE Append(@, x)]
  <2>1. /\ Line(e, TRUE, FALSE) \in Lines /\ Line(e, FALSE, FALSE) \in Lines
    BY DEF Line, Lines
  <2>2. CASE Open(0)
    BY <2>1, <2>2 DEF Whole, Line
  <2>3. CASE ~Open(0)
    BY <2>1, <2>3 DEF Whole, Line
  <2> QED
    BY <2>2, <2>3
<1>2. Recorded' = Recorded \cup {e} /\ Len(order') # Len(order)
  <2>1. Len(order) \in Nat
    BY RecordedWhen
  <2> QED
    BY <2>1, OrderGrows
<1>3. LinesInv'
  BY <1>1, <1>2, LineKeepsLines
<1>4. /\ InFiles' \subseteq InFiles \cup {e}
      /\ Keeps' = IF x.ok THEN Keeps \cup {e} ELSE Keeps
      /\ ~Open(0)'
  BY <1>1, PlacesAfter
<1>5. e \notin Recorded /\ e \notin dropped
  BY DEF Written
<1>6. Keeps \subseteq InFiles
  BY LinesWhen
<1>7. TearsInv'
  <2>1. CASE Open(0)
    <3>1. Spoilt' = Spoilt \cup {e} /\ e \notin Spoilt
      BY <1>1, <1>2, <1>4, <1>5, <1>6, <2>1 DEF Spoilt, Written
    <3>2. Cardinality(Spoilt') = Cardinality(Spoilt) + 1
      BY <3>1, SpoiltFinite, FS_AddElement
    <3> QED
      BY <1>4, <2>1, <3>2, SpoiltFinite DEF TearsInv
  <2>2. CASE ~Open(0)
    <3>1. Spoilt' = Spoilt
      BY <1>1, <1>2, <1>4, <1>5, <2>2 DEF Spoilt
    <3> QED
      BY <1>4, <2>2, <3>1 DEF TearsInv
  <2> QED
    BY <2>1, <2>2
<1> QED
  BY <1>2, <1>3, <1>4, <1>7 DEF Written

\* The beginning of a line; it spoils one event at most, the next one written.
LEMMA TornKeeps ==
  ASSUME QueueInv, FilesInv, LinesInv, TearsInv, NEW e \in Events, e \notin Written,
         files' = Torn(e), tears' = tears + 1, UNCHANGED <<order, dropped>>,
         io' # "rename"
  PROVE  LinesInv' /\ TearsInv' /\ Written' \subseteq Written \cup {e} /\ Recorded' = Recorded
<1>1. PICK x \in Lines :
        /\ x.ev = e /\ ~x.ok /\ x.open
        /\ files' = [files EXCEPT ![0] = IF Open(0) THEN Append(Front(@), x) ELSE Append(@, x)]
  <2>1. Line(e, FALSE, TRUE) \in Lines
    BY DEF Line, Lines
  <2> QED
    BY <2>1 DEF Torn, Line
<1>2. Recorded' = Recorded
  BY DEF Recorded
<1>3. LinesInv'
  BY <1>1, LineKeepsLines
<1>4. InFiles' \subseteq InFiles \cup {e} /\ Keeps' = Keeps
  BY <1>1, PlacesAfter
<1>5. Spoilt' = Spoilt
  BY <1>2, <1>4 DEF Spoilt
<1>6. TearsInv'
  BY <1>5, SpoiltFinite DEF TearsInv
<1> QED
  BY <1>2, <1>3, <1>4, <1>6 DEF Written

\* The oldest file is given up: its events were written before all that is left.
LEMMA RemoveKeeps ==
  ASSUME QueueInv, FilesInv, LinesInv, TearsInv, RemovesOldest
  PROVE  LinesInv' /\ TearsInv' /\ Written' = Written /\ Recorded' = Recorded
<1>1. /\ files' = [files EXCEPT ![Oldest] = <<>>] /\ dropped' = dropped \cup EventsOf(files[Oldest])
      /\ gen' = Oldest - 1 /\ UNCHANGED <<order, tears>>
  BY DEF RemovesOldest
<1>2. Oldest \in Gens /\ Gens \subseteq Nat /\ 0 \in Gens /\ Oldest # 0 /\ \A g \in Gens : g <= Oldest
  BY AuditTrailAssumption DEF Gens
<1>3. /\ \A g \in Gens : Len(files[g]) \in Nat
      /\ \A e : e \in InFiles <=> \E g \in Gens : \E i \in 1..Len(files[g]) : files[g][i].ev = e
      /\ \A e : e \in Keeps <=> \E g \in Gens : \E i \in 1..Len(files[g]) :
                                    files[g][i].ok /\ files[g][i].ev = e
  BY LinesWhen
<1>4. \A g \in Gens : /\ g # Oldest => files'[g] = files[g]
                      /\ g = Oldest => files'[g] = <<>> /\ Len(files'[g]) = 0
  BY <1>1, <1>2 DEF FilesInv
<1>5. \A g \in Gens : \A i \in 1..Len(files'[g]) :
         g # Oldest /\ i \in 1..Len(files[g]) /\ files'[g][i] = files[g][i]
  BY <1>4
<1>6. /\ \A e : e \in InFiles' <=> \E g \in Gens \ {Oldest} : \E i \in 1..Len(files[g]) : files[g][i].ev = e
      /\ \A e : e \in Keeps' <=> \E g \in Gens \ {Oldest} : \E i \in 1..Len(files[g]) :
                                    files[g][i].ok /\ files[g][i].ev = e
  <2>1. \A e : e \in InFiles' <=> \E g \in Gens : \E i \in 1..Len(files'[g]) : files'[g][i].ev = e
    BY DEF InFiles, EventsOf
  <2>2. \A e : e \in Keeps' <=> \E g \in Gens : \E i \in 1..Len(files'[g]) :
                                    files'[g][i].ok /\ files'[g][i].ev = e
    BY DEF Keeps, Readable
  <2> QED
    BY <1>4, <1>5, <2>1, <2>2
<1>7. \A e : e \in dropped' <=> e \in dropped \/ \E i \in 1..Len(files[Oldest]) : files[Oldest][i].ev = e
  BY <1>1 DEF EventsOf
<1>8. Recorded' = Recorded /\ \A y, z : Before(y, z)' <=> Before(y, z)
  BY <1>1 DEF Recorded, Before
<1>9. /\ \A y, z : Before(y, z) => ~Before(z, y) /\ y \in Recorded /\ z \in Recorded
  BY WrittenOnce DEF LinesInv
<1>10. InOrder'
  BY <1>5, <1>8 DEF LinesInv, InOrder
<1>11. \A d \in dropped', e \in InFiles' : ~Before(e, d)
  <2>1. ASSUME NEW e \in InFiles', NEW i \in 1..Len(files[Oldest]), Before(e, files[Oldest][i].ev)
        PROVE  FALSE
    <3>1. PICK g \in Gens \ {Oldest} : \E j \in 1..Len(files[g]) : files[g][j].ev = e
      BY <1>6
    <3>2. PICK j \in 1..Len(files[g]) : files[g][j].ev = e
      BY <3>1
    <3>3. Older(Oldest, i, g, j)
      BY <1>2 DEF Older
    <3>4. e \in Recorded /\ files[Oldest][i].ev \in Recorded
      BY <1>9, <2>1
    <3>5. InOrder
      BY DEF LinesInv
    <3>6. Before(files[Oldest][i].ev, e)
      BY <1>2, <3>2, <3>3, <3>4, <3>5 DEF InOrder
    <3> QED
      BY <1>9, <2>1, <3>6
  <2>2. InFiles' \subseteq InFiles
    BY <1>3, <1>6
  <2> QED
    BY <1>7, <2>1, <2>2 DEF LinesInv
<1>12. InFiles \cup dropped = InFiles' \cup dropped'
  BY <1>2, <1>3, <1>6, <1>7
<1>13. LinesInv'
  <2>1. \A g \in Gens : \A i \in 1..Len(files'[g]) :
          /\ files'[g][i].ok => files'[g][i].ev \in Recorded
          /\ files'[g][i].open => ~files'[g][i].ok /\ files'[g][i].ev \notin Recorded
    BY <1>5 DEF LinesInv
  <2>2. files'[gen' + 1] = <<>>
    BY <1>1, <1>2, <1>4
  <2>3. Recorded \subseteq InFiles' \cup dropped'
    BY <1>12 DEF LinesInv
  <2>4. \A i, j \in 1..Len(order') : order'[i] = order'[j] => i = j
    BY <1>1 DEF LinesInv
  <2>5. \A d \in dropped', e \in InFiles' : ~Before(e, d)'
    BY <1>8, <1>11
  <2> QED
    BY <1>8, <1>10, <2>1, <2>2, <2>3, <2>4, <2>5 DEF LinesInv
<1>14. TearsInv'
  <2>1. Keeps \cup dropped \subseteq Keeps' \cup dropped'
    BY <1>3, <1>6, <1>7
  <2>2. Spoilt' \subseteq Spoilt
    BY <1>8, <2>1 DEF Spoilt
  <2>3. Cardinality(Spoilt') <= Cardinality(Spoilt) /\ Cardinality(Spoilt') \in Nat
    BY <2>2, SpoiltFinite, FS_Subset, FS_CardinalityType
  <2>4. Open(0)' <=> Open(0)
    BY <1>2, <1>4 DEF Open
  <2> QED
    BY <1>1, <2>3, <2>4, SpoiltFinite DEF TearsInv
<1> QED
  BY <1>8, <1>12, <1>13, <1>14 DEF Written

\* A rename goes to a place that is empty, and no file overtakes another.
LEMMA RenameKeeps ==
  ASSUME QueueInv, FilesInv, LinesInv, TearsInv, Renames
  PROVE  LinesInv' /\ TearsInv' /\ Written' = Written /\ Recorded' = Recorded
<1>1. /\ io = "rename" /\ files' = Renamed(gen) /\ UNCHANGED <<order, tears, dropped>>
      /\ io' = "rename" => gen # 0 /\ gen' = gen - 1
  BY DEF Renames, logged
<1>2. /\ gen \in Gens /\ gen + 1 \in Gens /\ 0 \in Gens /\ Gens \subseteq Nat
      /\ files[gen + 1] = <<>> /\ Len(files[gen + 1]) = 0 /\ DOMAIN files = Gens
  BY <1>1, AuditTrailAssumption DEF FilesInv, Gens, LinesInv
<1> DEFINE src(g) == IF g = gen + 1 THEN gen ELSE g
<1>3. /\ files'[gen] = <<>> /\ Len(files'[gen]) = 0 /\ files'[gen + 1] = files[gen]
      /\ \A g \in Gens \ {gen, gen + 1} : files'[g] = files[g]
  BY <1>1, <1>2 DEF Renamed
<1>4. \A g \in Gens : \A i \in 1..Len(files'[g]) :
         g # gen /\ src(g) \in Gens /\ i \in 1..Len(files[src(g)]) /\ files'[g][i] = files[src(g)][i]
  BY <1>2, <1>3
<1>5. \A g \in Gens : \A i \in 1..Len(files[g]) :
         \E h \in Gens : i \in 1..Len(files'[h]) /\ files'[h][i] = files[g][i]
  BY <1>2, <1>3
<1> HIDE DEF src
<1>6. InFiles' = InFiles /\ Keeps' = Keeps
  <2>1. /\ \A e : e \in InFiles' <=> \E g \in Gens : \E i \in 1..Len(files'[g]) : files'[g][i].ev = e
        /\ \A e : e \in InFiles <=> \E g \in Gens : \E i \in 1..Len(files[g]) : files[g][i].ev = e
    BY DEF InFiles, EventsOf
  <2>2. /\ \A e : e \in Keeps' <=> \E g \in Gens : \E i \in 1..Len(files'[g]) :
                                    files'[g][i].ok /\ files'[g][i].ev = e
        /\ \A e : e \in Keeps <=> \E g \in Gens : \E i \in 1..Len(files[g]) :
                                    files[g][i].ok /\ files[g][i].ev = e
    BY DEF Keeps, Readable
  <2>3. \A e : e \in InFiles' <=> e \in InFiles
    BY <1>4, <1>5, <2>1
  <2>4. \A e : e \in Keeps' <=> e \in Keeps
    BY <1>4, <1>5, <2>2
  <2> QED
    BY <2>3, <2>4
<1>7. Recorded' = Recorded /\ \A y, z : Before(y, z)' <=> Before(y, z)
  BY <1>1 DEF Recorded, Before
<1>8. InOrder'
  <2>1. SUFFICES ASSUME NEW y \in Recorded, NEW z \in Recorded, NEW g \in Gens, NEW h \in Gens,
                        NEW i \in 1..Len(files'[g]), NEW j \in 1..Len(files'[h]),
                        files'[g][i].ev = y, files'[h][j].ev = z, Older(g, i, h, j)
                 PROVE  Before(y, z)
    BY <1>7 DEF InOrder, Older
  <2>2. Older(src(g), i, src(h), j)
    BY <1>2, <1>4, <2>1 DEF Older, src
  <2> QED
    BY <1>4, <2>1, <2>2 DEF LinesInv, InOrder
<1>9. LinesInv'
  <2>1. \A g \in Gens : \A i \in 1..Len(files'[g]) :
          /\ files'[g][i].ok => files'[g][i].ev \in Recorded
          /\ files'[g][i].open => ~files'[g][i].ok /\ files'[g][i].ev \notin Recorded
    BY <1>4 DEF LinesInv
  <2>2. io' = "rename" => files'[gen' + 1] = <<>>
    BY <1>1, <1>2, <1>3
  <2>3. \A i, j \in 1..Len(order') : order'[i] = order'[j] => i = j
    BY <1>1 DEF LinesInv
  <2>4. \A d \in dropped', e \in InFiles' : ~Before(e, d)'
    BY <1>1, <1>6, <1>7 DEF LinesInv
  <2> QED
    BY <1>1, <1>6, <1>7, <1>8, <2>1, <2>2, <2>3, <2>4 DEF LinesInv
<1>10. TearsInv'
  <2>1. Spoilt' = Spoilt
    BY <1>1, <1>6, <1>7 DEF Spoilt
  <2>2. Open(0)' => Open(0)
    BY <1>2, <1>3 DEF Open
  <2> QED
    BY <1>1, <2>1, <2>2, SpoiltFinite DEF TearsInv
<1> QED
  BY <1>1, <1>6, <1>7, <1>9, <1>10 DEF Written

\* A step that leaves the files and what was written alone.
LEMMA RestKeeps ==
  ASSUME LinesInv, TearsInv, UNCHANGED <<files, order, dropped, tears>>,
         io' # "rename" \/ UNCHANGED <<io, gen>>
  PROVE  LinesInv' /\ TearsInv' /\ Written' = Written /\ Recorded' = Recorded
<1>1. /\ Recorded' = Recorded /\ InFiles' = InFiles /\ Keeps' = Keeps
      /\ \A y, z : Before(y, z)' <=> Before(y, z)
      /\ Open(0)' <=> Open(0)
  BY DEF Recorded, InFiles, Keeps, Before, Open
<1>2. InOrder'
  BY <1>1 DEF LinesInv, InOrder
<1>3. Spoilt' = Spoilt
  BY <1>1 DEF Spoilt
<1>4. LinesInv'
  BY <1>1, <1>2 DEF LinesInv
<1>5. TearsInv'
  BY <1>1, <1>3 DEF TearsInv
<1> QED
  BY <1>1, <1>4, <1>5 DEF Written

-----------------------------------------------------------------------------
\* The operation at the head moves on, and writes nothing.
LEMMA OnceRests ==
  ASSUME QueueInv, OnceInv, UNCHANGED <<queue, auditUp, refused, acked>>,
         Written' = Written, Recorded' = Recorded,
         io' = io \/ (io # "sync" /\ io' # "sync" /\ (io # "idle" \/ auditUp))
  PROVE  OnceInv' /\ \A e : Used(e)' => Used(e)
<1>1. OnceInv'
  BY DEF OnceInv, Head1
<1> QED
  BY <1>1 DEF Used, Queued

\* The operation at the head has written its event, and nobody is told yet.
LEMMA OnceAppended ==
  ASSUME QueueInv, OnceInv, UNCHANGED <<queue, auditUp, refused, acked>>,
         io = "append", io' = "sync", Written' \subseteq Written \cup {Head1.ev},
         Recorded' = Recorded \cup {Head1.ev}
  PROVE  OnceInv' /\ \A e : Used(e)' => Used(e)
<1>1. 1 \in 1..Len(queue) /\ Head1.by # Reader
  BY DEF QueueInv, Writing
<1>2. Head1.ev \notin refused
  BY <1>1 DEF OnceInv, Head1
<1>3. OnceInv'
  BY <1>1, <1>2 DEF OnceInv, Head1
<1> QED
  BY <1>1, <1>3 DEF Used, Queued, Head1

\* The operation at the head ends, with its event written or not; it is reported
\* failed before it started only if it never did.
LEMMA OnceEnds ==
  ASSUME QueueInv, OnceInv, queue # <<>>, queue' = Tail(queue), io' = "idle",
         auditUp' => auditUp,
         \/ Written' = Written /\ Recorded' = Recorded
         \/ /\ io # "idle" /\ Head1.by # Reader /\ Written' \subseteq Written \cup {Head1.ev}
            /\ Recorded' = Recorded \/ Recorded' = Recorded \cup {Head1.ev},
         acked' \subseteq acked \cup ({Head1.ev} \cap Recorded'),
         UNCHANGED refused \/ (io = "idle" /\ Refuses(Head1.by, Head1.ev))
  PROVE  OnceInv' /\ \A e : Used(e)' => Used(e)
<1>1. /\ queue \in Seq(Entries) /\ Len(queue) \in Nat /\ Len(queue') = Len(queue) - 1
      /\ \A i \in 1..Len(queue') : queue'[i] = queue[i + 1] /\ i + 1 \in 1..Len(queue)
      /\ 1 \in 1..Len(queue) /\ Head1 = queue[1]
  BY DEF QueueInv, Head1
<1>2. refused' \subseteq IF Head1.by # Reader /\ io = "idle" THEN refused \cup {Head1.ev} ELSE refused
  BY DEF Refuses
<1>3. Written' \subseteq IF Head1.by # Reader /\ io # "idle" THEN Written \cup {Head1.ev} ELSE Written
  OBVIOUS
<1>4. Recorded \subseteq Recorded'
      /\ Recorded' \subseteq IF Head1.by # Reader /\ io # "idle" THEN Recorded \cup {Head1.ev} ELSE Recorded
  OBVIOUS
<1>5. \A i \in 1..Len(queue') :
         queue'[i].by # Reader => Head1.by = Reader \/ queue'[i].ev # Head1.ev
  BY <1>1 DEF OnceInv
<1>6. \A i \in 1..Len(queue') : queue'[i].by # Reader =>
         queue'[i].ev \notin Written' /\ (queue'[i].ev \in refused' => ~auditUp')
  <2>1. ASSUME NEW i \in 1..Len(queue'), queue'[i].by # Reader
        PROVE  queue'[i].ev \notin Written /\ (queue'[i].ev \in refused => ~auditUp)
    BY <1>1, <2>1 DEF OnceInv
  <2> QED
    BY <1>2, <1>3, <1>5, <2>1
<1>7. \A i, j \in 1..Len(queue') :
         queue'[i].by # Reader /\ queue'[j].by # Reader /\ queue'[i].ev = queue'[j].ev => i = j
  <2>1. SUFFICES ASSUME NEW i \in 1..Len(queue'), NEW j \in 1..Len(queue'),
                        queue'[i].by # Reader /\ queue'[j].by # Reader, queue'[i].ev = queue'[j].ev
                 PROVE  i = j
    OBVIOUS
  <2>2. i + 1 = j + 1
    BY <1>1, <2>1 DEF OnceInv
  <2> QED
    BY <2>2
<1>8. acked' \subseteq Recorded'
  BY <1>4 DEF OnceInv
<1>9. refused' \cap Recorded' = {}
  <2>1. Head1.by # Reader => (io = "idle" => Head1.ev \notin Recorded)
                             /\ (io # "idle" => Head1.ev \notin refused)
    BY <1>1 DEF OnceInv, Written
  <2> QED
    BY <1>2, <1>4, <2>1 DEF OnceInv
<1>10. OnceInv'
  BY <1>6, <1>7, <1>8, <1>9 DEF OnceInv
<1>11. Head1.by # Reader => Queued(Head1.ev)
  BY <1>1 DEF Queued
<1>12. \A e : Queued(e)' => Queued(e)
  BY <1>1 DEF Queued
<1> QED
  BY <1>2, <1>3, <1>10, <1>11, <1>12 DEF Used

\* A deadline fails a caller whose operation may still come to the head; it is
\* then refused there.
LEMMA OnceDeadline ==
  ASSUME QueueInv, OnceInv, NEW c \in Transfers \cup {Reader}, CallerDeadline(c),
         Written' = Written, Recorded' = Recorded
  PROVE  OnceInv' /\ \A e : Used(e)' => Used(e)
<1>1. PICK k \in Pending(c) :
         /\ queue' = [queue EXCEPT ![k].late = TRUE]
         /\ IF k > 1 \/ io = "idle" THEN Refuses(c, queue[k].ev) ELSE UNCHANGED refused
  BY DEF CallerDeadline
<1>2. /\ k \in 1..Len(queue) /\ queue[k].by = c /\ queue \in Seq(Entries) /\ Len(queue) \in Nat
      /\ ~auditUp' /\ UNCHANGED <<io, acked>>
  BY DEF CallerDeadline, Pending, QueueInv, logged
<1>3. /\ Len(queue') = Len(queue)
      /\ \A i \in 1..Len(queue) : queue'[i].by = queue[i].by /\ queue'[i].ev = queue[i].ev
  <2>1. \A i \in 1..Len(queue) : queue[i] \in Entries
    BY <1>2
  <2> QED
    BY <1>1, <1>2, <2>1 DEF Entries
<1>4. refused' \subseteq IF c # Reader /\ (k > 1 \/ io = "idle") THEN refused \cup {queue[k].ev} ELSE refused
  BY <1>1 DEF Refuses
<1>5. \A i \in 1..Len(queue) : queue[i].by # Reader =>
         (queue[i].ev \in refused' => i > 1 \/ io = "idle")
  BY <1>2, <1>4 DEF OnceInv
<1>6. refused' \cap Recorded = {}
  <2>1. c # Reader /\ (k > 1 \/ io = "idle") => queue[k].ev \notin Recorded
    BY <1>2 DEF OnceInv, Written
  <2> QED
    BY <1>4, <2>1 DEF OnceInv
<1>7. io = "sync" => Head1'.ev = Head1.ev
  <2>1. io = "sync" => 1 \in 1..Len(queue)
    BY <1>2 DEF QueueInv
  <2> QED
    BY <1>3, <2>1 DEF Head1
<1>8. OnceInv'
  BY <1>2, <1>3, <1>5, <1>6, <1>7 DEF OnceInv
<1>9. \A e : Queued(e)' <=> Queued(e)
  BY <1>3 DEF Queued
<1> QED
  BY <1>2, <1>4, <1>8, <1>9 DEF Used, Queued

\* An event that was never used is submitted, or refused.
LEMMA OnceSubmit ==
  ASSUME QueueInv, OnceInv, NEW c \in Transfers \cup {Reader}, NEW ev, Submit(c, ev),
         c # Reader => ~Used(ev), Written' = Written, Recorded' = Recorded
  PROVE  OnceInv' /\ \A e : Used(e)' => Used(e) \/ (c # Reader /\ e = ev)
<1> DEFINE x == [by |-> c, ev |-> ev, late |-> FALSE]
<1>1. queue \in Seq(Entries) /\ Len(queue) \in Nat /\ UNCHANGED <<io, acked>>
  BY DEF QueueInv, Submit, logged
<1>2. c # Reader => /\ ev \notin Written /\ ev \notin refused /\ ev \notin Recorded
                    /\ \A i \in 1..Len(queue) : queue[i].by # Reader => queue[i].ev # ev
  BY DEF Used, Queued, Written
<1>3. CASE auditUp /\ Len(queue) < MaxPending
  <2>1. queue' = Append(queue, x) /\ UNCHANGED <<auditUp, refused>>
    BY <1>3 DEF Submit
  <2>2. /\ Len(queue') = Len(queue) + 1 /\ queue'[Len(queue) + 1] = x
        /\ \A i \in 1..Len(queue) : queue'[i] = queue[i]
        /\ \A i \in 1..Len(queue') : i \in 1..Len(queue) \/ i = Len(queue) + 1
    BY <1>1, <2>1
  <2>3. x.by = c /\ x.ev = ev
    OBVIOUS
  <2>4. \A i \in 1..Len(queue') :
          queue'[i].by # Reader =>
             /\ queue'[i].ev \in Written => i = 1 /\ io = "sync"
             /\ queue'[i].ev \notin refused
    BY <1>2, <1>3, <2>2, <2>3 DEF OnceInv
  <2>5. \A i, j \in 1..Len(queue') :
          queue'[i].by # Reader /\ queue'[j].by # Reader /\ queue'[i].ev = queue'[j].ev => i = j
    BY <1>2, <2>2, <2>3 DEF OnceInv
  <2>6. io = "sync" => Head1' = Head1
    <3>1. io = "sync" => 1 \in 1..Len(queue)
      BY <1>1 DEF QueueInv
    <3> QED
      BY <2>2, <3>1 DEF Head1
  <2>7. OnceInv'
    BY <1>1, <2>1, <2>4, <2>5, <2>6 DEF OnceInv
  <2>8. \A e : Queued(e)' => Queued(e) \/ (c # Reader /\ e = ev)
    BY <2>2, <2>3 DEF Queued
  <2> QED
    BY <2>1, <2>7, <2>8 DEF Used
<1>4. CASE ~(auditUp /\ Len(queue) < MaxPending)
  <2>1. UNCHANGED queue /\ ~auditUp' /\ Refuses(c, ev)
    BY <1>4 DEF Submit
  <2>2. refused' = IF c = Reader THEN refused ELSE refused \cup {ev}
    BY <2>1 DEF Refuses
  <2>3. OnceInv'
    BY <1>1, <1>2, <2>1, <2>2 DEF OnceInv, Head1
  <2> QED
    BY <2>1, <2>2, <2>3 DEF Used, Queued
<1> QED
  BY <1>3, <1>4

-----------------------------------------------------------------------------
LogInv == LinesInv /\ TearsInv /\ OnceInv

\* The operation at the head, when it writes: its event is not on record yet.
LEMMA HeadIsNew ==
  ASSUME QueueInv, OnceInv, io \in {"append", "helper"}
  PROVE  queue # <<>> /\ Head1.by # Reader /\ Head1.ev \in Events /\ Head1.ev \notin Written
<1>1. 1 \in 1..Len(queue) /\ Head1.by # Reader /\ Head1 = queue[1] /\ queue # <<>>
  BY DEF QueueInv, Writing, Head1
<1> QED
  BY <1>1, EntryKinds DEF OnceInv

\* Whatever the storage does.
LEMMA StorageKeeps ==
  ASSUME QueueInv, FilesInv, LogInv, Storage
  PROVE  LogInv' /\ \A e : Used(e)' => Used(e)
<1>1. LinesInv /\ TearsInv /\ OnceInv
  BY DEF LogInv
<1>2. CASE RemovesOldest
  BY <1>1, <1>2, RemoveKeeps, OnceRests DEF RemovesOldest, LogInv
<1>3. CASE Renames
  <2>1. io = "rename" /\ io' \in {"rename", "append"} /\ UNCHANGED <<queue, auditUp, refused, acked>>
    BY <1>3 DEF Renames, logged
  <2> QED
    BY <1>1, <1>3, <2>1, RenameKeeps, OnceRests DEF LogInv
<1>4. CASE Appends
  <2>1. /\ io = "append" /\ io' = "sync" /\ files' = Whole(Head1.ev) /\ order' = Append(order, Head1.ev)
        /\ UNCHANGED <<dropped, tears, queue, auditUp, refused, acked>>
    BY <1>4 DEF Appends
  <2>2. Head1.ev \in Events /\ Head1.ev \notin Written
    BY <1>1, <2>1, HeadIsNew
  <2>3. /\ LinesInv' /\ TearsInv' /\ Written' \subseteq Written \cup {Head1.ev}
        /\ Recorded' = Recorded \cup {Head1.ev}
    BY <1>1, <2>1, <2>2, WholeKeeps
  <2> QED
    BY <1>1, <2>1, <2>3, OnceAppended DEF LogInv
<1>5. CASE Syncs \/ Reads \/ ReadFails
  <2>1. /\ io # "idle" /\ \E how : Ends(how)
        /\ UNCHANGED <<files, order, dropped, tears, refused>> /\ (UNCHANGED auditUp \/ auditUp' = FALSE)
        /\ UNCHANGED acked \/ (io = "sync" /\ Acked)
    <3>1. CASE Syncs
      BY <3>1 DEF Syncs, Acks, Rejects
    <3>2. CASE Reads
      BY <3>2 DEF Reads, Acks, Rejects, logged
    <3>3. CASE ReadFails
      BY <3>3 DEF ReadFails, Rejects, logged
    <3> QED
      BY <1>5, <3>1, <3>2, <3>3
  <2>2. queue # <<>> /\ queue' = Tail(queue) /\ io' = "idle" /\ (auditUp' => auditUp)
    BY <2>1 DEF Ends, QueueInv
  <2>3. LinesInv' /\ TearsInv' /\ Written' = Written /\ Recorded' = Recorded
    BY <1>1, <2>1, <2>2, RestKeeps
  <2>4. acked' \subseteq acked \cup ({Head1.ev} \cap Recorded')
    BY <1>1, <2>1, <2>3 DEF Acked, OnceInv
  <2> QED
    BY <1>1, <2>1, <2>2, <2>3, <2>4, OnceEnds DEF LogInv
<1>6. CASE FileFails
  <2>1. /\ io \in Writing /\ queue' = Tail(queue) /\ io' = "idle" /\ ~auditUp' /\ LeavesTorn
        /\ UNCHANGED <<order, acked, dropped, refused>>
    BY <1>6 DEF FileFails, Rejects, Ends, Writing
  <2>2. queue # <<>> /\ Head1.by # Reader /\ io # "idle"
    BY <2>1 DEF QueueInv, Writing
  <2>3. CASE UNCHANGED <<files, tears>>
    <3>1. LinesInv' /\ TearsInv' /\ Written' = Written /\ Recorded' = Recorded
      BY <1>1, <2>1, <2>3, RestKeeps
    <3> QED
      BY <1>1, <2>1, <2>2, <3>1, OnceEnds DEF LogInv
  <2>4. CASE io = "append" /\ files' = Torn(Head1.ev) /\ tears' = tears + 1
    <3>1. Head1.ev \in Events /\ Head1.ev \notin Written
      BY <1>1, <2>4, HeadIsNew
    <3>2. LinesInv' /\ TearsInv' /\ Written' \subseteq Written \cup {Head1.ev} /\ Recorded' = Recorded
      BY <1>1, <2>1, <2>4, <3>1, TornKeeps
    <3> QED
      BY <1>1, <2>1, <2>2, <3>2, OnceEnds DEF LogInv
  <2> QED
    BY <2>1, <2>3, <2>4 DEF LeavesTorn
<1>7. CASE HelperWrites \/ HelperFails
  <2>1. /\ io = "helper" /\ queue' = Tail(queue) /\ io' = "idle" /\ (UNCHANGED auditUp \/ auditUp' = FALSE)
        /\ UNCHANGED <<dropped, refused, tears>>
        /\ \/ files' = Whole(Head1.ev) /\ order' = Append(order, Head1.ev) /\ (Acked \/ UNCHANGED acked)
           \/ UNCHANGED <<files, order, acked>>
    BY <1>7 DEF HelperWrites, HelperFails, Acks, Rejects, Ends
  <2>2. /\ queue # <<>> /\ Head1.by # Reader /\ Head1.ev \in Events /\ Head1.ev \notin Written
        /\ io # "idle" /\ io' # "rename" /\ (auditUp' => auditUp)
    BY <1>1, <2>1, HeadIsNew
  <2>3. CASE files' = Whole(Head1.ev) /\ order' = Append(order, Head1.ev) /\ (Acked \/ UNCHANGED acked)
    <3>1. /\ LinesInv' /\ TearsInv' /\ Written' \subseteq Written \cup {Head1.ev}
          /\ Recorded' = Recorded \cup {Head1.ev}
      BY <1>1, <2>1, <2>2, <2>3, WholeKeeps
    <3>2. acked' \subseteq acked \cup ({Head1.ev} \cap Recorded')
      BY <2>3, <3>1 DEF Acked
    <3> QED
      BY <1>1, <2>1, <2>2, <3>1, <3>2, OnceEnds DEF LogInv
  <2>4. CASE UNCHANGED <<files, order, acked>>
    <3>1. LinesInv' /\ TearsInv' /\ Written' = Written /\ Recorded' = Recorded
      BY <1>1, <2>1, <2>4, RestKeeps
    <3> QED
      BY <1>1, <2>1, <2>2, <2>4, <3>1, OnceEnds DEF LogInv
  <2> QED
    BY <2>1, <2>3, <2>4
<1> QED
  BY <1>2, <1>3, <1>4, <1>5, <1>6, <1>7 DEF Storage

\* An operation comes to the head, or is refused there.
LEMMA StartKeeps ==
  ASSUME QueueInv, FilesInv, LogInv, OperationStarts
  PROVE  LogInv' /\ \A e : Used(e)' => Used(e)
<1>1. LinesInv /\ TearsInv /\ OnceInv
  BY DEF LogInv
<1>2. io = "idle" /\ queue # <<>> /\ UNCHANGED <<gen, files, order, acked, dropped, tears>>
  BY DEF OperationStarts, logged
<1>3. CASE auditUp /\ io' = Work /\ UNCHANGED <<auditUp, queue, reply, refused>>
  <2>1. Work \in {"read", "helper", "append", "remove"}
    BY AuditTrailAssumption DEF Work, FilesInv
  <2>2. LinesInv' /\ TearsInv' /\ Written' = Written /\ Recorded' = Recorded
    BY <1>1, <1>2, <1>3, <2>1, RestKeeps
  <2> QED
    BY <1>1, <1>2, <1>3, <2>1, <2>2, OnceRests DEF LogInv
<1>4. CASE Rejects /\ Refuses(Head1.by, Head1.ev)
  <2>1. queue' = Tail(queue) /\ io' = "idle" /\ ~auditUp'
    BY <1>4 DEF Rejects, Ends
  <2>2. LinesInv' /\ TearsInv' /\ Written' = Written /\ Recorded' = Recorded
    BY <1>1, <1>2, <2>1, RestKeeps
  <2> QED
    BY <1>1, <1>2, <1>4, <2>1, <2>2, OnceEnds DEF LogInv
<1> QED
  BY <1>3, <1>4 DEF OperationStarts

\* The callers: a deadline passes, or an event is submitted.
LEMMA CallersKeep ==
  ASSUME QueueInv, LogInv, NEW c \in Transfers \cup {Reader}, NEW ev,
         CallerDeadline(c) \/ (Submit(c, ev) /\ (c # Reader => ~Used(ev)))
  PROVE  LogInv' /\ \A e : Used(e)' => Used(e) \/ (c # Reader /\ e = ev)
<1>1. LinesInv /\ TearsInv /\ OnceInv
  BY DEF LogInv
<1>2. UNCHANGED <<io, gen, files, order, dropped, tears>>
  BY DEF CallerDeadline, Submit, logged
<1>3. LinesInv' /\ TearsInv' /\ Written' = Written /\ Recorded' = Recorded
  BY <1>1, <1>2, RestKeeps
<1> QED
  BY <1>1, <1>3, OnceDeadline, OnceSubmit DEF LogInv

\* The queue is lost with the process, the line that was being written perhaps torn.
LEMMA RestartKeepsLog ==
  ASSUME QueueInv, FilesInv, LogInv, AuditRestarts
  PROVE  LogInv' /\ \A e : Used(e)' => Used(e)
<1>1. LinesInv /\ TearsInv /\ OnceInv
  BY DEF LogInv
<1>2. /\ queue' = <<>> /\ io' = "idle" /\ UNCHANGED <<acked, dropped, refused>>
      /\ \/ UNCHANGED <<files, order, tears>>
         \/ io = "helper" /\ files' = Whole(Head1.ev) /\ order' = Append(order, Head1.ev) /\ UNCHANGED tears
         \/ io = "append" /\ files' = Torn(Head1.ev) /\ tears' = tears + 1 /\ UNCHANGED order
  BY DEF AuditRestarts, LeavesTorn
<1>3. \/ LinesInv' /\ TearsInv' /\ Written' = Written /\ Recorded' = Recorded
      \/ /\ LinesInv' /\ TearsInv' /\ Written' \subseteq Written \cup {Head1.ev}
         /\ Recorded' \subseteq Recorded \cup {Head1.ev} /\ Recorded \subseteq Recorded'
         /\ io \in {"append", "helper"} 
  <2>1. CASE UNCHANGED <<files, order, tears>>
    BY <1>1, <1>2, <2>1, RestKeeps
  <2>2. CASE io = "helper" /\ files' = Whole(Head1.ev) /\ order' = Append(order, Head1.ev) /\ UNCHANGED tears
    BY <1>1, <1>2, <2>2, HeadIsNew, WholeKeeps
  <2>3. CASE io = "append" /\ files' = Torn(Head1.ev) /\ tears' = tears + 1 /\ UNCHANGED order
    BY <1>1, <1>2, <2>3, HeadIsNew, TornKeeps
  <2> QED
    BY <1>2, <2>1, <2>2, <2>3
<1>4. io \in {"append", "helper"} => /\ 1 \in 1..Len(queue) /\ Head1 = queue[1] /\ Head1.by # Reader
                                     /\ Queued(Head1.ev) /\ Head1.ev \notin refused
  <2>1. io \in {"append", "helper"} => 1 \in 1..Len(queue) /\ Head1 = queue[1] /\ Head1.by # Reader
    BY DEF QueueInv, Writing, Head1
  <2> QED
    BY <1>1, <2>1 DEF Queued, OnceInv
<1>5. OnceInv'
  <2>1. acked' \subseteq Recorded' /\ refused' \cap Recorded' = {}
    BY <1>1, <1>2, <1>3, <1>4 DEF OnceInv
  <2> QED
    BY <1>2, <2>1 DEF OnceInv
<1>6. \A e : ~Queued(e)'
  BY <1>2 DEF Queued
<1> QED
  BY <1>2, <1>3, <1>4, <1>5, <1>6 DEF LogInv, Used

\* A step that only takes a promise's result, or none of the log's at all.
LEMMA QuietKeeps ==
  ASSUME QueueInv, LogInv, UNCHANGED <<auditUp, queue, io, gen, files, refused, logged>>
  PROVE  LogInv' /\ \A e : Used(e)' => Used(e)
<1>1. LinesInv /\ TearsInv /\ OnceInv /\ UNCHANGED <<order, acked, dropped, tears>>
  BY DEF LogInv, logged
<1>2. LinesInv' /\ TearsInv' /\ Written' = Written /\ Recorded' = Recorded
  BY <1>1, RestKeeps
<1> QED
  BY <1>1, <1>2, OnceRests DEF LogInv

-----------------------------------------------------------------------------
(* A transfer submits its attempted event before any other of its steps, and *)
(* its terminal event when it is at its end: no event is submitted twice.    *)

\* A step of one transfer, forward.
LEMMA FreshStays ==
  ASSUME FreshInv,
         \A t \in Transfers : /\ step[t] # "idle" => step'[t] # "idle"
                              /\ step[t] \in Ended => step'[t] \in Ended,
         \A e : Used(e)' => Used(e) \/ (e \in Events /\ Started(e)')
  PROVE  FreshInv'
<1>1. ASSUME NEW e, Used(e) PROVE e \in Events /\ Started(e)'
  BY <1>1 DEF FreshInv, Started, Events
<1> QED
  BY <1>1 DEF FreshInv

\* The steps of a transfer that say nothing to the log.
LEMMA GoesForward ==
  ASSUME CallTypes, NEW t \in Transfers, NEW s \in Steps \ {"idle"}, Goes(t, s),
         step[t] \in Ended => s \in Ended
  PROVE  \A u \in Transfers : /\ step[u] # "idle" => step'[u] # "idle"
                              /\ step[u] \in Ended => step'[u] \in Ended
  BY DEF CallTypes, Goes

\* The attempted event.
LEMMA CallIsFresh ==
  ASSUME Sound, LogInv, FreshInv, NEW t \in Transfers, Call(t)
  PROVE  LogInv' /\ FreshInv'
<1>0. PICK ev : ev = Event(t, "attempted")
  OBVIOUS
<1>1. QueueInv /\ CallTypes
  BY DEF Sound, TruthInv
<1>2. step[t] = "idle" /\ Goes(t, "attempting") /\ Submit(t, ev)
  BY <1>0 DEF Call
<1>3. ev \in Events /\ ev.t = t /\ ev.phase = "attempted"
  BY <1>0, <1>1 DEF Event, Events, CallTypes
<1>4. ~Used(ev)
  BY <1>2, <1>3 DEF FreshInv, Started
<1>5. LogInv' /\ \A e : Used(e)' => Used(e) \/ e = ev
  BY <1>1, <1>2, <1>4, CallersKeep
<1>6. step'[t] = "attempting"
  BY <1>1, <1>2 DEF CallTypes, Goes
<1>7. Started(ev)'
  BY <1>3, <1>6 DEF Started
<1>8. \A u \in Transfers : /\ step[u] # "idle" => step'[u] # "idle"
                           /\ step[u] \in Ended => step'[u] \in Ended
  BY <1>1, <1>2, GoesForward DEF Steps, Ended
<1> QED
  BY <1>3, <1>5, <1>7, <1>8, FreshStays

\* The terminal event.
LEMMA TerminalIsFresh ==
  ASSUME Sound, LogInv, FreshInv, NEW t \in Transfers, NEW err1, Terminal(t, err1),
         step[t] \notin Ended \cup {"idle"}
  PROVE  LogInv' /\ FreshInv'
<1>0. PICK ev : ev = Event(t, Phase(t, err1))
  OBVIOUS
<1>1. QueueInv /\ CallTypes
  BY DEF Sound, TruthInv
<1>2. Goes(t, "closing") /\ Submit(t, ev)
  BY <1>0 DEF Terminal
<1>3. ev \in Events /\ ev.t = t /\ ev.phase # "attempted"
  BY <1>0, <1>1 DEF Event, Events, CallTypes, Phase
<1>4. ~Used(ev)
  BY <1>3 DEF FreshInv, Started
<1>5. LogInv' /\ \A e : Used(e)' => Used(e) \/ e = ev
  BY <1>1, <1>2, <1>4, CallersKeep
<1>6. step'[t] = "closing"
  BY <1>1, <1>2 DEF CallTypes, Goes
<1>7. Started(ev)'
  BY <1>3, <1>6 DEF Started, Ended
<1>8. \A u \in Transfers : /\ step[u] # "idle" => step'[u] # "idle"
                           /\ step[u] \in Ended => step'[u] \in Ended
  BY <1>1, <1>2, GoesForward DEF Steps, Ended
<1> QED
  BY <1>3, <1>5, <1>7, <1>8, FreshStays

\* The trail stays what it is under every step of the system.
LEMMA TrailStep == ASSUME Sound, LogInv, FreshInv, [Next]_vars PROVE LogInv' /\ FreshInv'
<1>1. QueueInv /\ FilesInv /\ CallTypes
  BY DEF Sound, TruthInv
<1>2. ASSUME UNCHANGED step, LogInv', \A e : Used(e)' => Used(e)
      PROVE  LogInv' /\ FreshInv'
  BY <1>2, FreshStays
<1>3. ASSUME NEW t \in Transfers, NEW s \in Steps \ {"idle"}, Goes(t, s),
             step[t] \in Ended => s \in Ended,
             UNCHANGED <<auditUp, queue, io, gen, files, refused, logged>>
      PROVE  LogInv' /\ FreshInv'
  <2>1. LogInv' /\ \A e : Used(e)' => Used(e)
    BY <1>1, <1>3, QuietKeeps
  <2>2. \A u \in Transfers : /\ step[u] # "idle" => step'[u] # "idle"
                             /\ step[u] \in Ended => step'[u] \in Ended
    BY <1>1, <1>3, GoesForward
  <2> QED
    BY <2>1, <2>2, FreshStays
<1>4. ASSUME NEW t \in Transfers, Call(t) PROVE LogInv' /\ FreshInv'
  BY <1>4, CallIsFresh
<1>5. ASSUME NEW t \in Transfers, Answering(t) PROVE LogInv' /\ FreshInv'
  <2>1. CASE AttemptFails(t) \/ Closes(t)
    BY <1>3, <2>1 DEF AttemptFails, Closes, Steps, Ended
  <2>2. CASE Attempted(t)
    <3>1. step[t] = "attempting"
      BY <2>2 DEF Attempted
    <3>2. CASE \E e : Terminal(t, e)
      BY <3>1, <3>2, TerminalIsFresh DEF Ended
    <3>3. CASE /\ Goes(t, "root")
               /\ UNCHANGED <<backend, auditUp, queue, io, gen, files, listing, refused, logged, err>>
      BY <1>3, <3>1, <3>3 DEF Steps, InDirectory, Ended
    <3> QED
      BY <2>2, <3>2, <3>3 DEF Attempted
  <2> QED
    BY <1>5, <2>1, <2>2 DEF Answering
<1>6. ASSUME NEW t \in Transfers, Directory(t) PROVE LogInv' /\ FreshInv'
  <2>1. CASE Release(t)
    BY <2>1, TerminalIsFresh DEF Release, Inside, Ended
  <2>2. CASE NoTrail /\ step[t] \in InDirectory /\ \E s \in InDirectory : Goes(t, s)
    BY <1>3, <2>2 DEF NoTrail, audit, logged, Steps, InDirectory, Ended
  <2> QED
    BY <1>6, <2>1, <2>2 DEF Directory, Root, Lock, Scan, Create, Write, Link, Verify, Cleanup,
       Read, Inside, InDirectory
<1>7. CASE UNCHANGED call /\ Storage
  BY <1>1, <1>2, <1>7, StorageKeeps DEF call
<1>8. CASE UNCHANGED call /\ OperationStarts
  BY <1>1, <1>2, <1>8, StartKeeps DEF call
<1>9. CASE UNCHANGED call /\ \E c \in Transfers \cup {Reader} : CallerDeadline(c)
  <2>1. LogInv' /\ \A ev, e : Used(e)' => Used(e) \/ e = ev
    BY <1>1, <1>9, CallersKeep
  <2>2. \A e : Used(e)' => Used(e)
    <3>1. ASSUME NEW e, Used(e)' PROVE Used(e)
      BY <2>1, <3>1
    <3> QED
      BY <3>1
  <2> QED
    BY <1>2, <1>9, <2>1, <2>2 DEF call
<1>10. CASE UNCHANGED call /\ Lists
  BY <1>1, <1>2, <1>10, CallersKeep DEF Lists, call
<1>11. CASE UNCHANGED step /\ (ListAnswered \/ UNCHANGED audit)
  BY <1>1, <1>2, <1>11, QuietKeeps DEF ListAnswered, audit, logged
<1>12. CASE Restart
  <2>1. LogInv' /\ \A e : Used(e)' => Used(e)
    BY <1>1, <1>12, RestartKeepsLog DEF Restart
  <2>2. \A u \in Transfers : /\ step[u] # "idle" => step'[u] # "idle"
                             /\ step[u] \in Ended => step'[u] \in Ended
    BY <1>12 DEF Restart, Ended
  <2> QED
    BY <2>1, <2>2, FreshStays
<1> QED
  BY <1>4, <1>5, <1>6, <1>7, <1>8, <1>9, <1>10, <1>11, <1>12
  DEF Next, Resumed, SomeTimer, Timers, AuditLog, Deadline, Shutdown, vars, call

\* At first nothing is written, kept or pending.
LEMMA TrailInit == Init => LogInv /\ FreshInv
<1> SUFFICES ASSUME Init PROVE LogInv /\ FreshInv
  OBVIOUS
<1>1. /\ order = <<>> /\ queue = <<>> /\ io = "idle" /\ files = [g \in Gens |-> <<>>] /\ tears = 0
      /\ acked = {} /\ refused = {} /\ dropped = {} /\ Len(<<>>) = 0 /\ 0 \in Gens
  BY AuditTrailAssumption DEF Init, AuditInit, Gens
<1>2. Recorded = {} /\ InFiles = {} /\ Keeps = {} /\ Spoilt = {} /\ ~Open(0)
  BY <1>1 DEF Recorded, ToSet, InFiles, EventsOf, Keeps, Readable, Spoilt, Open
<1>3. LinesInv
  BY <1>1, <1>2 DEF LinesInv, InOrder
<1>4. TearsInv
  BY <1>1, <1>2, FS_EmptySet DEF TearsInv
<1>5. OnceInv
  BY <1>1 DEF OnceInv
<1> QED
  BY <1>1, <1>2, <1>3, <1>4, <1>5 DEF LogInv, FreshInv, Used, Queued, Written

\* The invariant says what can be read back, and in which order.
LEMMA TrailImplies == ASSUME Sound, LogInv PROVE TrailIsTail
<1>1. QueueInv /\ FilesInv /\ LinesInv /\ TearsInv /\ OnceInv
  BY DEF Sound, TruthInv, LogInv
<1>2. /\ \A g \in Gens : Len(files[g]) \in Nat
      /\ \A e : e \in InFiles <=> \E g \in Gens : \E i \in 1..Len(files[g]) : files[g][i].ev = e
      /\ \A e : e \in Keeps <=> \E g \in Gens : \E i \in 1..Len(files[g]) :
                                    files[g][i].ok /\ files[g][i].ev = e
  BY <1>1, LinesWhen
<1>3. Keeps \subseteq Recorded /\ Keeps \subseteq InFiles
  BY <1>1, <1>2 DEF LinesInv
<1>4. \A e \in Recorded : ~Before(e, e)
  BY <1>1, WrittenOnce DEF LinesInv
<1>5. \A g, h \in Gens : \A i \in 1..Len(files[g]), j \in 1..Len(files[h]) :
        files[g][i].ok /\ files[h][j].ok /\ Older(g, i, h, j) =>
           Before(files[g][i].ev, files[h][j].ev)
  BY <1>1 DEF LinesInv, InOrder
<1>6. \A d \in dropped, e \in Keeps : ~Before(e, d)
  BY <1>1, <1>3 DEF LinesInv
<1>7. Spoilt \subseteq InFiles /\ Cardinality(Spoilt) <= tears
  BY <1>1, SpoiltFinite DEF LinesInv, Spoilt, TearsInv
<1> QED
  BY <1>1, <1>3, <1>4, <1>5, <1>6, <1>7 DEF TrailIsTail, Spoilt, OnceInv

\* What can be read back of the audit log is what was written but for the oldest
\* file and a line for each torn one, in the order written; what was reported
\* written was, and what was refused never is (AuditTrail.TrailIsTail).
THEOREM TrailStaysTail == Spec => []TrailIsTail
<1>1. Init => LogInv /\ FreshInv
  BY TrailInit
<1>2. Sound /\ (LogInv /\ FreshInv) /\ [Next]_vars => (LogInv /\ FreshInv)'
  BY TrailStep
<1>3. Sound /\ LogInv => TrailIsTail
  BY TrailImplies
<1> QED
  BY <1>1, <1>2, <1>3, SoundInvariant, PTL DEF Spec

-----------------------------------------------------------------------------
(* Recursion over numbers: what the recursive functions of the readers       *)
(* compute, for files and generations of any length.                         *)

\* Induction up to N, as a set of numbers that holds all of them.
LEMMA Induct ==
  ASSUME NEW N \in Nat, NEW T, 0 \in T, \A n \in 1..N : n - 1 \in T => n \in T
  PROVE  0..N \subseteq T
<1> DEFINE Bad == {m \in 0..N : m \notin T}
           Above == {0..m : m \in Bad}
<1>1. SUFFICES ASSUME Bad # {} PROVE FALSE
  OBVIOUS
<1>2. IsWellFoundedOn(StrictSubsetOrdering(0..N), FiniteSubsetsOf(0..N))
  BY FS_StrictSubsetOrderingWellFounded
<1>3. Above \subseteq FiniteSubsetsOf(0..N) /\ Above # {}
  <2>1. ASSUME NEW m \in Bad PROVE 0..m \in FiniteSubsetsOf(0..N)
    <3>1. 0..m \subseteq 0..N /\ m \in Int
      OBVIOUS
    <3>2. IsFiniteSet(0..m)
      BY <3>1, FS_Interval
    <3> QED
      BY <3>1, <3>2 DEF FiniteSubsetsOf
  <2> QED
    BY <1>1, <2>1
<1>4. PICK x \in Above : \A y \in Above : ~(<<y, x>> \in StrictSubsetOrdering(0..N))
  <2> HIDE DEF Above
  <2> QED
    BY <1>2, <1>3, WFMin
<1>5. PICK m \in Bad : x = 0..m
  OBVIOUS
<1>6. m \in 1..N /\ m - 1 \in Bad /\ 0..(m - 1) \in Above
  OBVIOUS
<1>7. <<0..(m - 1), x>> \in StrictSubsetOrdering(0..N)
  BY <1>5, <1>6 DEF StrictSubsetOrdering
<1> QED
  BY <1>4, <1>6, <1>7

\* N steps, each a function on V, can be taken from any c.
LEMMA Iterates ==
  ASSUME NEW V, NEW c \in V, NEW N \in Nat, NEW d \in [1..N -> [V -> V]]
  PROVE  \E g \in [0..N -> V] : g[0] = c /\ \A n \in 1..N : g[n] = d[n][g[n - 1]]
<1> DEFINE G(m) == {g \in [0..m -> V] : g[0] = c /\ \A n \in 1..m : g[n] = d[n][g[n - 1]]}
           T == {m \in 0..N : G(m) # {}}
<1>1. 0 \in T
  <2>1. [i \in 0..0 |-> c] \in G(0)
    OBVIOUS
  <2> QED
    BY <2>1
<1>2. ASSUME NEW n \in 1..N, n - 1 \in T PROVE n \in T
  <2>1. PICK g \in G(n - 1) : TRUE
    BY <1>2
  <2> DEFINE h == [i \in 0..n |-> IF i < n THEN g[i] ELSE d[n][g[n - 1]]]
  <2>2. g \in [0..n - 1 -> V] /\ g[0] = c /\ \A k \in 1..n - 1 : g[k] = d[k][g[k - 1]]
    BY <2>1
  <2>3. h \in [0..n -> V] /\ h[0] = c
    BY <2>2
  <2>4. \A k \in 1..n : h[k] = d[k][h[k - 1]]
    BY <2>2
  <2>5. h \in G(n)
    BY <2>3, <2>4
  <2>6. n \in 0..N
    OBVIOUS
  <2> HIDE DEF h, G
  <2> QED
    BY <2>5, <2>6
<1>3. N \in T
  <2> HIDE DEF T
  <2>1. 0..N \subseteq T
    BY <1>1, <1>2, Induct
  <2> QED
    BY <2>1
<1> QED
  BY <1>3

\* The recursion of Parsed has a solution.
LEMMA ParsedStarts ==
  ASSUME NEW s \in Seq(Lines)
  PROVE  \E h : /\ Parsed(s) = h[Len(s)] /\ h[0] = <<>>
                /\ \A n \in 1..Len(s) : h[n] = IF s[n].ok THEN Append(h[n - 1], s[n].ev) ELSE h[n - 1]
<1> DEFINE Grown(n, v) == IF s[n].ok THEN Append(v, s[n].ev) ELSE v
           P(f) == f = [i \in 0..Len(s) |-> IF i = 0 THEN <<>>
                                            ELSE IF s[i].ok THEN Append(f[i - 1], s[i].ev) ELSE f[i - 1]]
<1>0. PICK N \in Nat : N = Len(s)
  OBVIOUS
<1>1. \A n \in 1..N : s[n].ev \in Events
  <2>1. \A n \in 1..N : s[n] \in Lines
    BY <1>0
  <2> QED
    BY <2>1 DEF Lines
<1>2. PICK V : V = Seq(Events)
  OBVIOUS
<1>3. ASSUME NEW n \in 1..N, NEW v \in V PROVE Grown(n, v) \in V
  <2>1. ASSUME NEW e \in Events, NEW u \in Seq(Events) PROVE Append(u, e) \in Seq(Events)
    OBVIOUS
  <2>2. Append(v, s[n].ev) \in V
    BY <1>1, <1>2, <2>1
  <2>3. Grown(n, v) = Append(v, s[n].ev) \/ Grown(n, v) = v
    OBVIOUS
  <2> HIDE DEF Grown
  <2> QED
    BY <2>2, <2>3
<1>4. PICK c \in V : c = <<>>
  <2>1. <<>> \in Seq(Events)
    OBVIOUS
  <2>2. <<>> \in V
    BY <1>2, <2>1
  <2> QED
    BY <2>2
<1>5. PICK d : d = [n \in 1..N |-> [v \in V |-> Grown(n, v)]]
  OBVIOUS
<1>6. \A n \in 1..N : \A v \in V : d[n][v] = Grown(n, v)
  BY <1>5
<1>7. PICK g \in [0..N -> V] : g[0] = c /\ \A n \in 1..N : g[n] = d[n][g[n - 1]]
  <2> HIDE DEF Grown
  <2>1. d \in [1..N -> [V -> V]]
    BY <1>3, <1>5
  <2> QED
    BY <2>1, Iterates
<1>8. \A n \in 0..N : g[n] = IF n = 0 THEN <<>> ELSE Grown(n, g[n - 1])
  <2> HIDE DEF Grown
  <2>1. ASSUME NEW n \in 1..N PROVE n - 1 \in 0..N /\ g[n] = Grown(n, g[n - 1])
    <3>1. n - 1 \in 0..N /\ g[n - 1] \in V
      OBVIOUS
    <3> QED
      BY <1>6, <1>7, <3>1
  <2> QED
    BY <1>4, <1>7, <2>1
<1>9. P(g)
  BY <1>0, <1>8
<1>10. PICK h : h = (CHOOSE f : P(f))
  OBVIOUS
<1>11. Parsed(s) = h[Len(s)]
  BY <1>10 DEF Parsed
<1>12. P(h)
  <2> HIDE DEF P
  <2>1. P(CHOOSE f : P(f))
    BY <1>9, Zenon
  <2> QED
    BY <1>10, <2>1
<1>13. h[0] = <<>> /\ \A n \in 1..Len(s) : h[n] = Grown(n, h[n - 1])
  <2>1. \A n \in 0..N : h[n] = IF n = 0 THEN <<>> ELSE Grown(n, h[n - 1])
    BY <1>0, <1>12
  <2> QED
    BY <1>0, <2>1
<1> QED
  BY <1>11, <1>13, Zenon

\* The events of the lines that parse, in the order of the lines.
Picks(p, s, n) ==
    /\ p \in Seq(Events)
    /\ \A a \in 1..Len(p) : \E i \in 1..n : s[i].ok /\ s[i].ev = p[a]
    /\ \A i \in 1..n : s[i].ok => \E a \in 1..Len(p) : p[a] = s[i].ev
    /\ \A a, b \in 1..Len(p) : a < b =>
          \E i, j \in 1..n : i < j /\ s[i].ok /\ s[j].ok /\ s[i].ev = p[a] /\ s[j].ev = p[b]

\* Parsed picks them.
LEMMA ParsedPicks == ASSUME NEW s \in Seq(Lines) PROVE Picks(Parsed(s), s, Len(s))
<1>0. PICK N \in Nat : N = Len(s)
  OBVIOUS
<1>1. PICK h : /\ Parsed(s) = h[N] /\ h[0] = <<>>
               /\ \A n \in 1..N : h[n] = IF s[n].ok THEN Append(h[n - 1], s[n].ev) ELSE h[n - 1]
  BY <1>0, ParsedStarts
<1>2. \A n \in 1..N : s[n].ev \in Events
  <2>1. \A n \in 1..N : s[n] \in Lines
    BY <1>0
  <2> QED
    BY <2>1 DEF Lines
<1>3. PICK T : T = {n \in 0..N : Picks(h[n], s, n)}
  OBVIOUS
<1>4. 0 \in T
  <2>1. Picks(<<>>, s, 0)
    BY DEF Picks
  <2>2. 0 \in 0..N
    OBVIOUS
  <2> QED
    BY <1>1, <1>3, <2>1, <2>2
<1>5. ASSUME NEW n \in 1..N, n - 1 \in T PROVE n \in T
  <2>1. PICK p : p = h[n - 1]
    OBVIOUS
  <2>2. p \in Seq(Events) /\ Len(p) \in Nat /\ Picks(p, s, n - 1)
    <3>1. Picks(p, s, n - 1)
      BY <1>3, <1>5, <2>1
    <3>2. p \in Seq(Events)
      BY <3>1 DEF Picks
    <3> QED
      BY <3>1, <3>2
  <2>3. CASE ~s[n].ok
    <3>1. h[n] = p
      BY <1>1, <2>1, <2>3
    <3>2. Picks(p, s, n)
      BY <2>2, <2>3 DEF Picks
    <3> QED
      BY <1>3, <3>1, <3>2
  <2>4. CASE s[n].ok
    <3>1. PICK q : q = Append(p, s[n].ev)
      OBVIOUS
    <3>2. /\ q \in Seq(Events) /\ Len(q) = Len(p) + 1 /\ q[Len(p) + 1] = s[n].ev
          /\ \A a \in 1..Len(p) : q[a] = p[a]
          /\ \A a \in 1..Len(q) : a \in 1..Len(p) \/ a = Len(p) + 1
      BY <1>2, <2>2, <3>1
    <3>3. ASSUME NEW a \in 1..Len(q) PROVE \E i \in 1..n : s[i].ok /\ s[i].ev = q[a]
      <4>1. CASE a \in 1..Len(p)
        <5>1. PICK i \in 1..n - 1 : s[i].ok /\ s[i].ev = p[a]
          BY <2>2, <4>1 DEF Picks
        <5> QED
          BY <3>2, <4>1, <5>1
      <4>2. CASE a = Len(p) + 1
        BY <2>4, <3>2, <4>2
      <4> QED
        BY <3>2, <4>1, <4>2
    <3>4. ASSUME NEW i \in 1..n, s[i].ok PROVE \E a \in 1..Len(q) : q[a] = s[i].ev
      <4>1. CASE i \in 1..n - 1
        <5>1. PICK a \in 1..Len(p) : p[a] = s[i].ev
          BY <2>2, <3>4, <4>1 DEF Picks
        <5> QED
          BY <2>2, <3>2, <5>1
      <4>2. CASE i = n
        BY <2>2, <3>2, <4>2
      <4> QED
        BY <4>1, <4>2
    <3>5. ASSUME NEW a \in 1..Len(q), NEW b \in 1..Len(q), a < b
          PROVE  \E i, j \in 1..n : i < j /\ s[i].ok /\ s[j].ok /\ s[i].ev = q[a] /\ s[j].ev = q[b]
      <4>1. a \in 1..Len(p) /\ q[a] = p[a]
        BY <2>2, <3>2, <3>5
      <4>2. CASE b \in 1..Len(p)
        <5>1. PICK i, j \in 1..n - 1 :
                 i < j /\ s[i].ok /\ s[j].ok /\ s[i].ev = p[a] /\ s[j].ev = p[b]
          BY <2>2, <3>5, <4>1, <4>2 DEF Picks
        <5> QED
          BY <3>2, <4>1, <4>2, <5>1
      <4>3. CASE b = Len(p) + 1
        <5>1. PICK i \in 1..n - 1 : s[i].ok /\ s[i].ev = q[a]
          BY <2>2, <4>1 DEF Picks
        <5> QED
          BY <2>4, <3>2, <4>3, <5>1
      <4> QED
        BY <3>2, <4>2, <4>3
    <3>6. Picks(q, s, n)
      BY <3>2, <3>3, <3>4, <3>5 DEF Picks
    <3> QED
      BY <1>1, <1>3, <2>1, <2>4, <3>1, <3>6
  <2> QED
    BY <2>3, <2>4
<1>6. 0..N \subseteq T
  BY <1>4, <1>5, Induct
<1> QED
  BY <1>0, <1>1, <1>3, <1>6

\* A set whose elements are numbered, each once.
LEMMA Counted ==
  ASSUME NEW m \in Nat, NEW c, NEW S, \A a \in 1..m : c[a] \in S,
         \A x \in S : \E a \in 1..m : c[a] = x,
         \A a, b \in 1..m : c[a] = c[b] => a = b
  PROVE  Cardinality(S) = m
  BY Numbered

\* Milliseconds pass from line to line.
LEMMA MillisecondsPass ==
  ASSUME NEW same, NEW j \in Nat, NEW i \in Nat, i <= j
  PROVE  /\ Millisecond(same, i) \in Nat /\ Millisecond(same, j) \in Nat
         /\ Millisecond(same, i) <= Millisecond(same, j)
<1> DEFINE Passed(k) == {x \in 1..k - 1 : x \notin same}
<1>1. IsFiniteSet(1..j - 1)
  <2>1. 1 \in Int /\ j - 1 \in Int
    OBVIOUS
  <2> QED
    BY <2>1, FS_Interval
<1>2. Passed(i) \subseteq Passed(j) /\ Passed(j) \subseteq 1..j - 1
  OBVIOUS
<1>3. IsFiniteSet(Passed(j))
  BY <1>1, <1>2, FS_Subset
<1>4. IsFiniteSet(Passed(i)) /\ Cardinality(Passed(i)) <= Cardinality(Passed(j))
  BY <1>2, <1>3, FS_Subset
<1>5. Millisecond(same, i) = Cardinality(Passed(i)) /\ Millisecond(same, j) = Cardinality(Passed(j))
  BY DEF Millisecond
<1> HIDE DEF Passed
<1> QED
  BY <1>3, <1>4, <1>5, FS_CardinalityType

\* An event that is on one line was written in the millisecond of that line.
LEMMA PlaceInLines ==
  ASSUME NEW lines, \A i, j \in 1..Len(lines) : lines[i] = lines[j] => i = j,
         NEW same, NEW k \in 1..Len(lines)
  PROVE  At(lines[k], lines, same) = Millisecond(same, k)
<1>1. PICK c : c = CHOOSE i \in 1..Len(lines) : lines[i] = lines[k]
  OBVIOUS
<1>2. c \in 1..Len(lines) /\ lines[c] = lines[k]
  BY <1>1, Zenon
<1>3. c = k
  BY <1>2
<1> QED
  BY <1>1, <1>3 DEF At

\* What list() cuts off what it collected is the newest of what there is to
\* read when what it collected is, newest first.
LEMMA CutIsNewest ==
  ASSUME NEW E, NEW c \in Seq(E), \A a, b \in 1..Len(c) : c[a] = c[b] => a = b,
         NEW read, IsFiniteSet(read), \A a \in 1..Len(c) : c[a] \in read,
         (\A e \in read : \E a \in 1..Len(c) : c[a] = e) \/ Len(c) > ListLimit,
         NEW lines, NEW same, \A e \in read : At(e, lines, same) \in Nat,
         \A a, b \in 1..Len(c) : a < b => At(c[b], lines, same) <= At(c[a], lines, same),
         \A e \in read : \A a \in 1..Len(c) :
            (\A b \in 1..Len(c) : c[b] # e) => At(e, lines, same) <= At(c[a], lines, same),
         NEW out, out = SubSeq(c, 1, IF Len(c) < ListLimit THEN Len(c) ELSE ListLimit)
  PROVE  NewestOf(out, read, lines, same) /\ (Len(out) < Cardinality(read) <=> Len(c) > ListLimit)
<1>0. ListLimit \in Nat \ {0} /\ Len(c) \in Nat /\ Cardinality(read) \in Nat
  BY AuditTrailAssumption, FS_CardinalityType
<1>1. PICK n \in Nat : n = IF Len(c) < ListLimit THEN Len(c) ELSE ListLimit
  BY <1>0
<1>2. out \in Seq(E) /\ Len(out) = n /\ n <= Len(c) /\ \A a \in 1..n : out[a] = c[a]
  BY <1>0, <1>1
<1>3. /\ Len(c) <= Cardinality(read)
      /\ (\A e \in read : \E a \in 1..Len(c) : c[a] = e) => Cardinality(read) = Len(c)
  <2>1. PICK S : S = {c[a] : a \in 1..Len(c)}
    OBVIOUS
  <2>2. \A a \in 1..Len(c) : c[a] \in S
    BY <2>1
  <2>3. \A x \in S : \E a \in 1..Len(c) : c[a] = x
    BY <2>1
  <2>4. Cardinality(S) = Len(c)
    <3>1. PICK m \in Nat : m = Len(c)
      BY <1>0
    <3>2. /\ \A a, b \in 1..m : c[a] = c[b] => a = b
          /\ \A a \in 1..m : c[a] \in S
          /\ \A x \in S : \E a \in 1..m : c[a] = x
      BY <2>2, <2>3, <3>1
    <3>3. Cardinality(S) = m
      BY <3>2, Counted
    <3> QED
      BY <3>1, <3>3
  <2>5. S \subseteq read
    BY <2>1
  <2>6. (\A e \in read : \E a \in 1..Len(c) : c[a] = e) => S = read
    BY <2>1
  <2> QED
    BY <2>4, <2>5, <2>6, FS_Subset
<1>4. Len(out) = IF Cardinality(read) < ListLimit THEN Cardinality(read) ELSE ListLimit
  BY <1>0, <1>1, <1>2, <1>3
<1>5. Len(out) < Cardinality(read) <=> Len(c) > ListLimit
  BY <1>0, <1>1, <1>2, <1>3
<1>6. ASSUME NEW k \in 1..Len(out), NEW rest, rest = read \ ToSet(SubSeq(out, 1, k - 1))
      PROVE  out[k] \in rest /\ \A e \in rest : At(e, lines, same) <= At(out[k], lines, same)
  <2>1. k \in 1..n /\ k \in 1..Len(c) /\ out[k] = c[k] /\ k - 1 \in Nat
    BY <1>0, <1>2
  <2>2. PICK s : s = SubSeq(out, 1, k - 1)
    OBVIOUS
  <2>3. s \in Seq(E) /\ Len(s) = k - 1 /\ \A a \in 1..k - 1 : s[a] = c[a]
    BY <1>0, <1>2, <2>1, <2>2
  <2>4. \A e : e \in ToSet(s) <=> \E a \in 1..k - 1 : c[a] = e
    <3>1. DOMAIN s = 1..k - 1
      BY <2>3
    <3>2. ToSet(s) = {s[a] : a \in 1..k - 1}
      BY <3>1 DEF ToSet
    <3> QED
      BY <2>3, <3>2
  <2>5. c[k] \in rest
    BY <1>6, <2>1, <2>2, <2>4
  <2>6. ASSUME NEW e \in rest PROVE At(e, lines, same) <= At(c[k], lines, same)
    <3>1. e \in read /\ \A a \in 1..k - 1 : c[a] # e
      BY <1>6, <2>2, <2>4
    <3>2. CASE \A b \in 1..Len(c) : c[b] # e
      BY <2>1, <3>1, <3>2
    <3>3. CASE \E b \in 1..Len(c) : c[b] = e
      <4>1. PICK b \in 1..Len(c) : c[b] = e
        BY <3>3
      <4>2. k = b \/ k < b
        BY <1>0, <2>1, <3>1, <4>1
      <4>3. CASE k < b
        BY <2>1, <4>1, <4>3
      <4>4. CASE k = b
        <5>1. At(e, lines, same) \in Nat /\ e = c[k]
          BY <3>1, <4>1, <4>4
        <5> QED
          BY <5>1
      <4> QED
        BY <4>2, <4>3, <4>4
    <3> QED
      BY <3>2, <3>3
  <2> QED
    BY <2>1, <2>5, <2>6
<1> QED
  BY <1>4, <1>5, <1>6 DEF NewestOf

\* The generations a reader opens, newest first.
LEMMA Generations ==
  ASSUME FilesInv
  PROVE  /\ Oldest + 1 \in Nat
         /\ \A n \in 1..Oldest + 1 :
               /\ n - 1 \in Gens /\ files[n - 1] \in Seq(Lines)
               /\ Picks(Parsed(files[n - 1]), files[n - 1], Len(files[n - 1]))
<1>1. Oldest \in Nat
  BY AuditTrailAssumption
<1>2. ASSUME NEW n \in 1..Oldest + 1 PROVE n - 1 \in Gens /\ files[n - 1] \in Seq(Lines)
  BY <1>1, LinesWhen DEF Gens
<1> QED
  BY <1>1, <1>2, ParsedPicks

\* A sequence read backwards.
LEMMA Backwards ==
  ASSUME NEW E, NEW s \in Seq(E)
  PROVE  /\ Reverse(s) \in Seq(E) /\ Len(Reverse(s)) = Len(s) /\ Len(s) \in Nat
         /\ \A i \in 1..Len(s) : Len(s) - i + 1 \in 1..Len(s) /\ Reverse(s)[i] = s[Len(s) - i + 1]
<1>1. PICK n \in Nat : n = Len(s)
  OBVIOUS
<1>2. Reverse(s) = [i \in 1..n |-> s[(n - i) + 1]]
  BY <1>1 DEF Reverse
<1>3. \A i \in 1..n : (n - i) + 1 \in 1..n /\ s[(n - i) + 1] \in E
  BY <1>1
<1> QED
  BY <1>1, <1>2, <1>3

\* The recursion of Collected has a solution.
LEMMA CollectedStarts ==
  ASSUME FilesInv
  PROVE  \E h : /\ AllCollected = h[Oldest + 1] /\ h[0] = <<>>
                /\ \A n \in 1..Oldest + 1 :
                      h[n] = IF Len(h[n - 1]) > ListLimit THEN h[n - 1]
                             ELSE h[n - 1] \o Reverse(Parsed(files[n - 1]))
<1> DEFINE Grown(n, v) == IF Len(v) > ListLimit THEN v ELSE v \o Reverse(Parsed(files[n - 1]))
           P(f) == f = [i \in 0..Oldest + 1 |->
                           IF i = 0 THEN <<>>
                           ELSE IF Len(f[i - 1]) > ListLimit THEN f[i - 1]
                                ELSE f[i - 1] \o Reverse(Parsed(files[i - 1]))]
<1>0. PICK N \in Nat : N = Oldest + 1
  BY Generations
<1>1. \A n \in 1..N : Reverse(Parsed(files[n - 1])) \in Seq(Events)
  <2>1. ASSUME NEW n \in 1..N PROVE Parsed(files[n - 1]) \in Seq(Events)
    BY <1>0, Generations DEF Picks
  <2> QED
    BY <2>1, Backwards
<1>2. PICK V : V = Seq(Events)
  OBVIOUS
<1>3. ASSUME NEW n \in 1..N, NEW v \in V PROVE Grown(n, v) \in V
  <2>1. ASSUME NEW u \in Seq(Events), NEW w \in Seq(Events) PROVE u \o w \in Seq(Events)
    OBVIOUS
  <2>2. v \o Reverse(Parsed(files[n - 1])) \in V
    BY <1>1, <1>2, <2>1
  <2>3. Grown(n, v) = v \o Reverse(Parsed(files[n - 1])) \/ Grown(n, v) = v
    OBVIOUS
  <2> HIDE DEF Grown
  <2> QED
    BY <2>2, <2>3
<1>4. PICK c \in V : c = <<>>
  <2>1. <<>> \in Seq(Events)
    OBVIOUS
  <2>2. <<>> \in V
    BY <1>2, <2>1
  <2> QED
    BY <2>2
<1>5. PICK d : d = [n \in 1..N |-> [v \in V |-> Grown(n, v)]]
  OBVIOUS
<1>6. \A n \in 1..N : \A v \in V : d[n][v] = Grown(n, v)
  BY <1>5
<1>7. PICK g \in [0..N -> V] : g[0] = c /\ \A n \in 1..N : g[n] = d[n][g[n - 1]]
  <2> HIDE DEF Grown
  <2>1. d \in [1..N -> [V -> V]]
    BY <1>3, <1>5
  <2> QED
    BY <2>1, Iterates
<1>8. \A n \in 0..N : g[n] = IF n = 0 THEN <<>> ELSE Grown(n, g[n - 1])
  <2> HIDE DEF Grown
  <2>1. ASSUME NEW n \in 1..N PROVE n - 1 \in 0..N /\ g[n] = Grown(n, g[n - 1])
    <3>1. n - 1 \in 0..N /\ g[n - 1] \in V
      OBVIOUS
    <3> QED
      BY <1>6, <1>7, <3>1
  <2> QED
    BY <1>4, <1>7, <2>1
<1>9. P(g)
  BY <1>0, <1>8
<1>10. PICK h : h = (CHOOSE f : P(f))
  OBVIOUS
<1>11. AllCollected = h[Oldest + 1]
  BY <1>10 DEF AllCollected, Collected
<1>12. P(h)
  <2> HIDE DEF P
  <2>1. P(CHOOSE f : P(f))
    BY <1>9, Zenon
  <2> QED
    BY <1>10, <2>1
<1>13. h[0] = <<>> /\ \A n \in 1..N : h[n] = Grown(n, h[n - 1])
  <2>1. \A n \in 0..N : h[n] = IF n = 0 THEN <<>> ELSE Grown(n, h[n - 1])
    BY <1>0, <1>12
  <2> QED
    BY <2>1
<1>14. \A n \in 1..Oldest + 1 : h[n] = Grown(n, h[n - 1])
  BY <1>0, <1>13
<1> QED
  BY <1>11, <1>13, <1>14, Zenon

\* One sequence behind another.
LEMMA Joined ==
  ASSUME NEW E, NEW c \in Seq(E), NEW r \in Seq(E), NEW q, q = c \o r,
         NEW L, NEW M, L = Len(c), M = Len(r)
  PROVE  /\ q \in Seq(E) /\ Len(q) = L + M
         /\ \A a \in 1..L : q[a] = c[a]
         /\ \A a \in 1..L + M : a \in 1..L \/ (a - L \in 1..M /\ q[a] = r[a - L])
<1>1. L \in Nat /\ M \in Nat
  OBVIOUS
<1>2. \A a \in 1..L + M : q[a] = IF a <= L THEN c[a] ELSE r[a - L]
  OBVIOUS
<1> QED
  BY <1>1, <1>2

\* What a reader has collected from the m newest generations, newest first.
Gathered(c, m) ==
    /\ c \in Seq(Events)
    /\ \A a \in 1..Len(c) : \E g \in 0..m - 1 : \E i \in 1..Len(files[g]) :
          files[g][i].ok /\ files[g][i].ev = c[a]
    /\ \A g \in 0..m - 1 : \A i \in 1..Len(files[g]) :
          files[g][i].ok => \E a \in 1..Len(c) : c[a] = files[g][i].ev
    /\ \A a, b \in 1..Len(c) : a < b => Before(c[b], c[a])

\* The next generation is put behind, its own newest event first.
LEMMA GathersOne ==
  ASSUME FilesInv, LinesInv, NEW m \in Gens, NEW c, Gathered(c, m),
         NEW p, Picks(p, files[m], Len(files[m])), NEW q, q = c \o Reverse(p)
  PROVE  Gathered(q, m + 1)
<1>0. m \in Nat /\ \A g \in 0..m : g \in Gens /\ (g \in 0..m - 1 \/ g = m)
  BY AuditTrailAssumption DEF Gens
<1>1. PICK L \in Nat, M \in Nat : L = Len(c) /\ M = Len(p)
  BY DEF Gathered, Picks
<1>2. PICK r : r = Reverse(p)
  OBVIOUS
<1>3. /\ r \in Seq(Events) /\ Len(r) = M
      /\ \A i \in 1..M : M - i + 1 \in 1..M /\ r[i] = p[M - i + 1]
  BY <1>1, <1>2, Backwards DEF Picks
<1>4. /\ q \in Seq(Events) /\ Len(q) = L + M
      /\ \A a \in 1..L : q[a] = c[a]
      /\ \A a \in 1..L + M : a \in 1..L \/ (a - L \in 1..M /\ q[a] = r[a - L])
  <2>1. c \in Seq(Events) /\ q = c \o r
    BY <1>2 DEF Gathered
  <2> QED
    BY <1>1, <1>3, <2>1, Joined
<1>5. \A a \in 1..L + M : a \in 1..L \/ (M - (a - L) + 1 \in 1..M /\ q[a] = p[M - (a - L) + 1])
  BY <1>3, <1>4
<1>6. ASSUME NEW a \in 1..Len(q)
      PROVE  \E g \in 0..m : \E i \in 1..Len(files[g]) : files[g][i].ok /\ files[g][i].ev = q[a]
  <2>1. CASE a \in 1..L
    <3>1. PICK g \in 0..m - 1 : \E i \in 1..Len(files[g]) :
             files[g][i].ok /\ files[g][i].ev = c[a]
      BY <1>1, <2>1 DEF Gathered
    <3>2. PICK i \in 1..Len(files[g]) : files[g][i].ok /\ files[g][i].ev = q[a]
      BY <1>4, <2>1, <3>1
    <3>3. g \in 0..m
      BY <1>0
    <3> QED
      BY <3>2, <3>3
  <2>2. CASE a \notin 1..L
    <3>1. PICK k \in 1..M : q[a] = p[k]
      BY <1>4, <1>5, <2>2
    <3>2. \E i \in 1..Len(files[m]) : files[m][i].ok /\ files[m][i].ev = q[a]
      BY <1>1, <3>1 DEF Picks
    <3> QED
      BY <1>0, <3>2
  <2> QED
    BY <2>1, <2>2
<1>7. ASSUME NEW g \in 0..m, NEW i \in 1..Len(files[g]), files[g][i].ok
      PROVE  \E a \in 1..Len(q) : q[a] = files[g][i].ev
  <2>1. CASE g \in 0..m - 1
    <3>1. PICK a \in 1..L : c[a] = files[g][i].ev
      BY <1>1, <1>7, <2>1 DEF Gathered
    <3> QED
      BY <1>4, <3>1
  <2>2. CASE g = m
    <3>1. PICK k \in 1..M : p[k] = files[g][i].ev
      BY <1>1, <1>7, <2>2 DEF Picks
    <3>2. PICK a : a = L + (M - k + 1)
      OBVIOUS
    <3>3. a \in 1..L + M /\ a \notin 1..L /\ M - (a - L) + 1 = k
      BY <3>2
    <3> QED
      BY <1>4, <1>5, <3>1, <3>3
  <2> QED
    BY <1>0, <2>1, <2>2
<1>8. ASSUME NEW a \in 1..Len(q), NEW b \in 1..Len(q), a < b PROVE Before(q[b], q[a])
  <2>0. \A g, h \in Gens : \A i \in 1..Len(files[g]), j \in 1..Len(files[h]) :
           files[g][i].ok /\ files[h][j].ok /\ Older(g, i, h, j) =>
              Before(files[g][i].ev, files[h][j].ev)
    BY DEF LinesInv, InOrder
  <2>1. CASE b \in 1..L
    BY <1>1, <1>4, <1>8, <2>1 DEF Gathered
  <2>2. CASE a \in 1..L /\ b \notin 1..L
    <3>1. PICK g \in 0..m - 1 : \E i \in 1..Len(files[g]) :
             files[g][i].ok /\ files[g][i].ev = c[a]
      BY <1>1, <2>2 DEF Gathered
    <3>2. PICK i \in 1..Len(files[g]) : files[g][i].ok /\ files[g][i].ev = q[a]
      BY <1>4, <2>2, <3>1
    <3>3. PICK k \in 1..M : q[b] = p[k]
      BY <1>4, <1>5, <2>2
    <3>4. PICK j \in 1..Len(files[m]) : files[m][j].ok /\ files[m][j].ev = q[b]
      BY <1>1, <3>3 DEF Picks
    <3>5. Older(m, j, g, i) /\ g \in Gens /\ m \in Gens
      BY <1>0 DEF Older
    <3> QED
      BY <2>0, <3>2, <3>4, <3>5
  <2>3. CASE a \notin 1..L /\ b \notin 1..L
    <3>1. PICK x, y \in 1..M : x < y /\ q[b] = p[x] /\ q[a] = p[y]
      <4>1. /\ M - (a - L) + 1 \in 1..M /\ M - (b - L) + 1 \in 1..M
            /\ M - (b - L) + 1 < M - (a - L) + 1
        BY <1>4, <1>5, <1>8, <2>3
      <4> QED
        BY <1>4, <1>5, <2>3, <4>1
    <3>2. PICK i, j \in 1..Len(files[m]) : /\ i < j /\ files[m][i].ok /\ files[m][j].ok
                                           /\ files[m][i].ev = p[x] /\ files[m][j].ev = p[y]
      BY <1>1, <3>1 DEF Picks
    <3>3. Older(m, i, m, j)
      BY <3>2 DEF Older
    <3> QED
      BY <2>0, <3>1, <3>2, <3>3
  <2>4. b \in 1..L => a \in 1..L
    BY <1>4, <1>8
  <2> QED
    BY <2>1, <2>2, <2>3, <2>4
<1>9. (m + 1) - 1 = m
  BY <1>0
<1>10. \A a \in 1..Len(q) : \E g \in 0..(m + 1) - 1 : \E i \in 1..Len(files[g]) :
          files[g][i].ok /\ files[g][i].ev = q[a]
  BY <1>6, <1>9
<1>11. \A g \in 0..(m + 1) - 1 : \A i \in 1..Len(files[g]) :
          files[g][i].ok => \E a \in 1..Len(q) : q[a] = files[g][i].ev
  BY <1>7, <1>9
<1> QED
  BY <1>4, <1>8, <1>10, <1>11 DEF Gathered

\* All of it, or of the newest generations until there is more than asked for.
LEMMA CollectsNewest ==
  ASSUME FilesInv, LinesInv
  PROVE  \E m \in 0..Oldest + 1 : /\ Gathered(AllCollected, m)
                                  /\ m = Oldest + 1 \/ Len(AllCollected) > ListLimit
<1>0. PICK N \in Nat : N = Oldest + 1
  BY Generations
<1>1. PICK h : /\ AllCollected = h[N] /\ h[0] = <<>>
               /\ \A n \in 1..N : h[n] = IF Len(h[n - 1]) > ListLimit THEN h[n - 1]
                                         ELSE h[n - 1] \o Reverse(Parsed(files[n - 1]))
  BY <1>0, CollectedStarts
<1>2. PICK T : T = {n \in 0..N : \E m \in 0..n : /\ Gathered(h[n], m)
                                                 /\ m = n \/ Len(h[n]) > ListLimit}
  OBVIOUS
<1>3. 0 \in T
  <2>1. Gathered(<<>>, 0)
    BY DEF Gathered
  <2>2. 0 \in 0..N /\ 0 \in 0..0
    OBVIOUS
  <2> QED
    BY <1>1, <1>2, <2>1, <2>2
<1>4. ASSUME NEW n \in 1..N, n - 1 \in T PROVE n \in T
  <2>0. PICK c : c = h[n - 1]
    OBVIOUS
  <2>1. PICK m \in 0..n - 1 : Gathered(c, m) /\ (m = n - 1 \/ Len(c) > ListLimit)
    BY <1>2, <1>4, <2>0
  <2>2. n \in 0..N /\ m \in 0..n
    OBVIOUS
  <2>3. CASE Len(c) > ListLimit
    <3>1. h[n] = c
      BY <1>1, <2>0, <2>3
    <3> QED
      BY <1>2, <2>1, <2>2, <2>3, <3>1
  <2>4. CASE ~(Len(c) > ListLimit)
    <3>1. m = n - 1 /\ m \in Gens /\ m + 1 = n /\ n \in 0..n
      BY <1>0, <2>1, <2>4, Generations
    <3>2. h[n] = c \o Reverse(Parsed(files[m]))
      BY <1>1, <2>0, <2>4, <3>1
    <3>3. Gathered(h[n], m + 1)
      <4>1. Picks(Parsed(files[m]), files[m], Len(files[m]))
        BY <1>0, <3>1, Generations
      <4> QED
        BY <2>1, <3>1, <3>2, <4>1, GathersOne
    <3> QED
      BY <1>2, <2>2, <3>1, <3>3
  <2> QED
    BY <2>3, <2>4
<1>5. N \in T
  <2>1. 0..N \subseteq T
    BY <1>3, <1>4, Induct
  <2> QED
    BY <2>1
<1> QED
  BY <1>0, <1>1, <1>2, <1>5

\* A strict order of 1..n that compares all, and how many come before each.
Ordered(R, n) ==
    /\ \A i \in 1..n : <<i, i>> \notin R
    /\ \A i, j, k \in 1..n : <<i, j>> \in R /\ <<j, k>> \in R => <<i, k>> \in R
    /\ \A i, j \in 1..n : i = j \/ <<i, j>> \in R \/ <<j, i>> \in R
Counts(rank, R, n) ==
    \A i \in 1..n : rank[i] = Cardinality({j \in 1..n : <<j, i>> \in R})

\* These numbers give everyone a place of its own.
LEMMA Places ==
  ASSUME NEW n \in Nat, NEW R, Ordered(R, n), NEW rank, Counts(rank, R, n)
  PROVE  /\ \A i \in 1..n : rank[i] \in 0..n - 1
         /\ \A i, j \in 1..n : rank[i] = rank[j] => i = j
         /\ \A i, j \in 1..n : rank[i] < rank[j] => <<i, j>> \in R
         /\ \A k \in 0..n - 1 : \E i \in 1..n : rank[i] = k
<1>0. /\ \A i \in 1..n : <<i, i>> \notin R
      /\ \A i, j, k \in 1..n : <<i, j>> \in R /\ <<j, k>> \in R => <<i, k>> \in R
      /\ \A i, j \in 1..n : i = j \/ <<i, j>> \in R \/ <<j, i>> \in R
      /\ \A i \in 1..n : rank[i] = Cardinality({j \in 1..n : <<j, i>> \in R})
  BY DEF Ordered, Counts
<1> DEFINE Low(i) == {j \in 1..n : <<j, i>> \in R}
<1>1. IsFiniteSet(1..n) /\ Cardinality(1..n) = n /\ IsFiniteSet(0..n - 1) /\ Cardinality(0..n - 1) = n
  <2>1. 1 \in Int /\ n \in Int /\ 0 \in Int /\ n - 1 \in Int
    OBVIOUS
  <2>2. (n - 1) - 0 + 1 = n /\ n - 1 + 1 = n /\ (0 > n - 1 <=> n = 0) /\ (1 > n <=> n = 0)
    OBVIOUS
  <2> QED
    BY <2>1, <2>2, FS_Interval
<1>2. \A i \in 1..n : rank[i] = Cardinality(Low(i)) /\ Low(i) \subseteq 1..n /\ i \notin Low(i)
  BY <1>0
<1>3. ASSUME NEW i \in 1..n PROVE IsFiniteSet(Low(i)) /\ rank[i] \in 0..n - 1
  <2>0. PICK S \in SUBSET (1..n) : S = Low(i)
    OBVIOUS
  <2>1. IsFiniteSet(Low(i)) /\ Cardinality(Low(i)) <= n /\ (Cardinality(Low(i)) = n => Low(i) = 1..n)
    <3> HIDE DEF Low
    <3>1. PICK I : I = 1..n
      OBVIOUS
    <3>2. IsFiniteSet(I) /\ Cardinality(I) = n /\ S \in SUBSET I
      BY <1>1, <3>1
    <3>3. IsFiniteSet(S) /\ Cardinality(S) <= n /\ (n = Cardinality(S) => I = S)
      BY <3>2, FS_Subset
    <3> QED
      BY <2>0, <3>1, <3>3
  <2>2. Cardinality(Low(i)) \in Nat
    BY <2>1, FS_CardinalityType
  <2>3. Cardinality(Low(i)) # n
    BY <1>2, <2>1
  <2> HIDE DEF Low
  <2> QED
    BY <1>2, <2>1, <2>2, <2>3
<1>4. ASSUME NEW i \in 1..n, NEW k \in 1..n, <<i, k>> \in R PROVE rank[i] < rank[k]
  <2>1. Low(i) \subseteq Low(k) /\ i \in Low(k) /\ i \notin Low(i)
    BY <1>0, <1>4
  <2>2. Cardinality(Low(i)) <= Cardinality(Low(k)) /\ Cardinality(Low(i)) # Cardinality(Low(k))
    BY <1>3, <2>1, FS_Subset
  <2> HIDE DEF Low
  <2>3. rank[i] \in Nat /\ rank[k] \in Nat
    BY <1>3
  <2>4. rank[i] <= rank[k] /\ rank[i] # rank[k]
    BY <1>2, <2>2
  <2> QED
    BY <2>3, <2>4
<1> HIDE DEF Low
<1>5. ASSUME NEW i \in 1..n, NEW j \in 1..n
      PROVE  /\ rank[i] \in Nat /\ rank[j] \in Nat
             /\ rank[i] = rank[j] => i = j
             /\ rank[i] < rank[j] => <<i, j>> \in R
  <2>1. rank[i] \in Nat /\ rank[j] \in Nat
    BY <1>3
  <2>3. CASE i = j
    BY <2>1, <2>3
  <2>4. CASE <<i, j>> \in R
    <3>1. rank[i] < rank[j]
      BY <1>4, <2>4
    <3> QED
      BY <2>1, <2>4, <3>1
  <2>5. CASE <<j, i>> \in R
    <3>1. rank[j] < rank[i]
      BY <1>4, <2>5
    <3> QED
      BY <2>1, <3>1
  <2> QED
    BY <1>0, <2>3, <2>4, <2>5
<1>6. \A i, j \in 1..n : rank[i] = rank[j] => i = j
  BY <1>5
<1>7. \A i, j \in 1..n : rank[i] < rank[j] => <<i, j>> \in R
  BY <1>5
<1>8. PICK f : f = [i \in 1..n |-> rank[i]]
  OBVIOUS
<1>9. f \in Injection(1..n, 0..n - 1)
  BY <1>3, <1>6, <1>8 DEF Injection, IsInjective
<1>10. f \in Surjection(1..n, 0..n - 1)
  BY <1>1, <1>9, FS_Injection
<1>11. \A k \in 0..n - 1 : \E i \in 1..n : rank[i] = k
  BY <1>8, <1>10 DEF Surjection
<1> QED
  BY <1>3, <1>6, <1>7, <1>11

\* R is the comparison of limitEvents.
Compares(R, lines, n, same, ascending) ==
    \A i, j \in 1..n : <<i, j>> \in R <=> ListedBefore(lines, same, ascending, i, j)

\* limitEvents compares any two lines of a helper, and in one way only.
LEMMA LinesCompare ==
  ASSUME NEW lines, NEW n \in Nat, \A i \in 1..n : lines[i].t \in Nat,
         NEW same, NEW ascending \in BOOLEAN, NEW R, Compares(R, lines, n, same, ascending)
  PROVE  /\ Ordered(R, n)
         /\ \A i, j \in 1..n : <<i, j>> \in R => Millisecond(same, j) <= Millisecond(same, i)
<1>1. PICK ms : ms = [i \in 1..n |-> Millisecond(same, i)]
  OBVIOUS
<1>2. \A i \in 1..n : ms[i] \in Nat /\ ms[i] = Millisecond(same, i)
  BY <1>1, MillisecondsPass
<1>3. PICK tm : tm = [i \in 1..n |-> lines[i].t]
  OBVIOUS
<1>4. \A i \in 1..n : tm[i] \in Nat /\ tm[i] = lines[i].t
  BY <1>3
<1>5. PICK Q : Q = {x \in (1..n) \X (1..n) : ReadBefore(ascending, x[1], x[2])}
  OBVIOUS
<1> DEFINE Less(i, j) ==
              \/ ms[i] > ms[j]
              \/ ms[i] = ms[j] /\ tm[i] > tm[j]
              \/ ms[i] = ms[j] /\ tm[i] = tm[j] /\ <<i, j>> \in Q
<1>6. \A i, j \in 1..n : <<i, j>> \in Q <=> ReadBefore(ascending, i, j)
  BY <1>5
<1>7. ASSUME NEW i \in 1..n, NEW j \in 1..n, NEW k \in 1..n
      PROVE  /\ <<i, i>> \notin Q /\ (i = j \/ <<i, j>> \in Q \/ <<j, i>> \in Q)
             /\ <<i, j>> \in Q /\ <<j, k>> \in Q => <<i, k>> \in Q
             /\ <<i, j>> \in R <=> Less(i, j)
  <2>1. <<i, j>> \in R <=> ListedBefore(lines, same, ascending, i, j)
    BY DEF Compares
  <2>2. /\ ms[i] = Millisecond(same, i) /\ ms[j] = Millisecond(same, j)
        /\ tm[i] = lines[i].t /\ tm[j] = lines[j].t
    BY <1>2, <1>4
  <2>3. <<i, j>> \in Q <=> ReadBefore(ascending, i, j)
    BY <1>6
  <2>4. /\ <<i, i>> \notin Q /\ (i = j \/ <<i, j>> \in Q \/ <<j, i>> \in Q)
        /\ <<i, j>> \in Q /\ <<j, k>> \in Q => <<i, k>> \in Q
    BY <1>6 DEF ReadBefore
  <2>5. ListedBefore(lines, same, ascending, i, j) <=> Less(i, j)
    BY <2>2, <2>3 DEF ListedBefore
  <2> HIDE DEF Less
  <2> QED
    BY <2>1, <2>4, <2>5
<1>8. ASSUME NEW i \in 1..n, NEW j \in 1..n, NEW k \in 1..n
      PROVE  /\ <<i, i>> \notin R /\ (i = j \/ <<i, j>> \in R \/ <<j, i>> \in R)
             /\ <<i, j>> \in R /\ <<j, k>> \in R => <<i, k>> \in R
  <2>1. /\ ms[i] \in Nat /\ ms[j] \in Nat /\ ms[k] \in Nat
        /\ tm[i] \in Nat /\ tm[j] \in Nat /\ tm[k] \in Nat
    BY <1>2, <1>4
  <2>2. <<i, i>> \notin R
    BY <1>7, <2>1
  <2>3. i = j \/ <<i, j>> \in R \/ <<j, i>> \in R
    <3>1. /\ <<i, j>> \in R <=> Less(i, j)
          /\ <<j, i>> \in R <=> Less(j, i)
          /\ i = j \/ <<i, j>> \in Q \/ <<j, i>> \in Q
      <4> HIDE DEF Less
      <4> QED
        BY <1>7
    <3>2. \/ ms[i] > ms[j] \/ ms[j] > ms[i]
          \/ ms[i] = ms[j] /\ (tm[i] > tm[j] \/ tm[j] > tm[i] \/ tm[i] = tm[j])
      BY <2>1
    <3> QED
      BY <3>1, <3>2
  <2>4. <<i, j>> \in R /\ <<j, k>> \in R => <<i, k>> \in R
    <3>1. /\ <<i, j>> \in R <=> Less(i, j)
          /\ <<j, k>> \in R <=> Less(j, k)
          /\ <<i, k>> \in R <=> Less(i, k)
          /\ <<i, j>> \in Q /\ <<j, k>> \in Q => <<i, k>> \in Q
      <4> HIDE DEF Less
      <4> QED
        BY <1>7
    <3> QED
      BY <2>1, <3>1
  <2> QED
    BY <2>2, <2>3, <2>4
<1>9. ASSUME NEW i \in 1..n, NEW j \in 1..n, <<i, j>> \in R
      PROVE  Millisecond(same, j) <= Millisecond(same, i)
  <2>1. Less(i, j)
    <3> HIDE DEF Less
    <3> QED
      BY <1>7, <1>9
  <2>2. ms[j] <= ms[i]
    BY <1>2, <1>9, <2>1
  <2> QED
    BY <1>2, <2>2
<1>10. \A i \in 1..n : <<i, i>> \notin R
  BY <1>8
<1>11. \A i, j, k \in 1..n : <<i, j>> \in R /\ <<j, k>> \in R => <<i, k>> \in R
  BY <1>8
<1>12. \A i, j \in 1..n : i = j \/ <<i, j>> \in R \/ <<j, i>> \in R
  BY <1>8
<1> QED
  BY <1>9, <1>10, <1>11, <1>12 DEF Ordered

\* s is the lines, each once and the newest millisecond first.
Sorts(p, s, lines, same) ==
    /\ p \in [1..Len(lines) -> 1..Len(lines)]
    /\ s = [k \in 1..Len(lines) |-> lines[p[k]]]
    /\ \A a, b \in 1..Len(lines) : p[a] = p[b] => a = b
    /\ \A i \in 1..Len(lines) : \E a \in 1..Len(lines) : p[a] = i
    /\ \A a, b \in 1..Len(lines) : a < b => Millisecond(same, p[b]) <= Millisecond(same, p[a])

\* limitEvents sorts what a helper has read.
LEMMA NewestFirstSorts ==
  ASSUME NEW lines \in Seq(Events), NEW same, NEW ascending \in BOOLEAN
  PROVE  \E p : Sorts(p, NewestFirst(lines, same, ascending), lines, same)
<1>1. PICK n \in Nat : n = Len(lines)
  OBVIOUS
<1>2. \A i \in 1..n : lines[i].t \in Nat
  <2>1. \A i \in 1..n : lines[i] \in Events
    BY <1>1
  <2> QED
    BY <2>1, FileTransferAssumption DEF Events
<1>3. PICK s : s = NewestFirst(lines, same, ascending)
  OBVIOUS
<1>4. PICK R : R = {x \in (1..n) \X (1..n) : ListedBefore(lines, same, ascending, x[1], x[2])}
  OBVIOUS
<1>5. \A i, j \in 1..n : <<i, j>> \in R <=> ListedBefore(lines, same, ascending, i, j)
  BY <1>4
<1>6. /\ Ordered(R, n)
      /\ \A i, j \in 1..n : <<i, j>> \in R => Millisecond(same, j) <= Millisecond(same, i)
  <2>1. Compares(R, lines, n, same, ascending)
    BY <1>5 DEF Compares
  <2> QED
    BY <1>2, <2>1, LinesCompare
<1>7. PICK rank : \A i \in 1..n : rank[i] = Cardinality({j \in 1..n : <<j, i>> \in R})
  <2>1. PICK f : f = [i \in 1..n |-> Cardinality({j \in 1..n : <<j, i>> \in R})]
    OBVIOUS
  <2>2. \A i \in 1..n : f[i] = Cardinality({j \in 1..n : <<j, i>> \in R})
    BY <2>1
  <2> QED
    BY <2>2
<1>8. /\ \A i \in 1..n : rank[i] \in 0..n - 1
      /\ \A i, j \in 1..n : rank[i] = rank[j] => i = j
      /\ \A i, j \in 1..n : rank[i] < rank[j] => <<i, j>> \in R
      /\ \A k \in 0..n - 1 : \E i \in 1..n : rank[i] = k
  <2>1. Counts(rank, R, n)
    BY <1>7 DEF Counts
  <2> QED
    BY <1>6, <2>1, Places
<1>9. PICK p : p = [k \in 1..n |-> CHOOSE i \in 1..n : rank[i] = k - 1]
  OBVIOUS
<1>10. ASSUME NEW k \in 1..n PROVE p[k] \in 1..n /\ rank[p[k]] = k - 1
  <2>1. \E i \in 1..n : rank[i] = k - 1
    BY <1>8
  <2>2. p[k] = CHOOSE i \in 1..n : rank[i] = k - 1
    BY <1>9
  <2> QED
    BY <2>1, <2>2, Zenon
<1>11. s = [k \in 1..n |-> lines[p[k]]]
  <2>1. \A i \in 1..n : rank[i] = Cardinality({j \in 1..n : ListedBefore(lines, same, ascending, j, i)})
    <3>1. ASSUME NEW i \in 1..n
          PROVE  {j \in 1..n : <<j, i>> \in R} = {j \in 1..n : ListedBefore(lines, same, ascending, j, i)}
      BY <1>5
    <3> QED
      BY <1>7, <3>1
  <2>2. ASSUME NEW k \in 1..n
        PROVE  lines[p[k]] = lines[CHOOSE i \in 1..n :
                  Cardinality({j \in 1..n : ListedBefore(lines, same, ascending, j, i)}) = k - 1]
    <3>1. p[k] = CHOOSE i \in 1..n : rank[i] = k - 1
      BY <1>9
    <3> QED
      BY <2>1, <3>1
  <2>3. s = [k \in 1..n |-> lines[CHOOSE i \in 1..n :
                  Cardinality({j \in 1..n : ListedBefore(lines, same, ascending, j, i)}) = k - 1]]
    BY <1>1, <1>3 DEF NewestFirst
  <2> QED
    BY <2>2, <2>3
<1>12. p \in [1..n -> 1..n]
  BY <1>9, <1>10
<1>13. \A a, b \in 1..n : p[a] = p[b] => a = b
  <2>1. ASSUME NEW a \in 1..n, NEW b \in 1..n, p[a] = p[b] PROVE a - 1 = b - 1
    BY <1>10, <2>1
  <2> QED
    BY <2>1
<1>14. ASSUME NEW i \in 1..n PROVE \E a \in 1..n : p[a] = i
  <2>1. PICK a \in 1..n : a = rank[i] + 1
    BY <1>8
  <2>2. rank[p[a]] = rank[i]
    <3>1. rank[i] \in 0..n - 1
      BY <1>8
    <3> QED
      BY <1>10, <2>1, <3>1
  <2>3. p[a] = i
    BY <1>8, <1>10, <2>2
  <2> QED
    BY <2>3
<1>15. ASSUME NEW a \in 1..n, NEW b \in 1..n, a < b
       PROVE  Millisecond(same, p[b]) <= Millisecond(same, p[a])
  <2>1. rank[p[a]] < rank[p[b]]
    BY <1>10, <1>15
  <2> QED
    BY <1>6, <1>8, <1>10, <2>1
<1>16. Sorts(p, s, lines, same)
  BY <1>1, <1>11, <1>12, <1>13, <1>14, <1>15 DEF Sorts
<1> QED
  BY <1>3, <1>16

\* Events on record have a place, and what was written later has a later one.
LEMMA PlacesPass ==
  ASSUME QueueInv, LinesInv, NEW same
  PROVE  /\ \A e \in Recorded : At(e, order, same) \in Nat
         /\ \A d, e : Before(d, e) => At(d, order, same) <= At(e, order, same)
<1>0. PICK o : o = order
  OBVIOUS
<1>1. /\ Len(o) \in Nat /\ \A i, j \in 1..Len(o) : o[i] = o[j] => i = j
      /\ \A e : e \in Recorded <=> \E i \in 1..Len(o) : o[i] = e
  BY <1>0, RecordedWhen DEF LinesInv
<1>2. \A k \in 1..Len(o) : At(o[k], o, same) = Millisecond(same, k)
  BY <1>1, PlaceInLines
<1>3. ASSUME NEW e \in Recorded PROVE At(e, o, same) \in Nat
  <2>1. PICK k \in 1..Len(o) : o[k] = e
    BY <1>1
  <2>2. k \in Nat
    BY <1>1
  <2> QED
    BY <1>2, <2>1, <2>2, MillisecondsPass
<1>4. ASSUME NEW d, NEW e, Before(d, e) PROVE At(d, o, same) <= At(e, o, same)
  <2>1. PICK i, j \in 1..Len(o) : i < j /\ o[i] = d /\ o[j] = e
    BY <1>0, <1>4 DEF Before
  <2>2. i \in Nat /\ j \in Nat /\ i <= j
    BY <1>1, <2>1
  <2>3. Millisecond(same, i) <= Millisecond(same, j)
    BY <2>2, MillisecondsPass
  <2> QED
    BY <1>2, <2>1, <2>3
<1> QED
  BY <1>0, <1>3, <1>4

\* What the file backend lists.
LEMMA FileListIsNewest ==
  ASSUME QueueInv, FilesInv, LinesInv, NEW out, out = Shown(AllCollected, FALSE, 0, {})
  PROVE  /\ NewestOf(out.events, Keeps, order, {})
         /\ out.hasMore <=> Len(out.events) < Cardinality(Keeps)
<1>1. PICK m \in 0..Oldest + 1 : /\ Gathered(AllCollected, m)
                                 /\ m = Oldest + 1 \/ Len(AllCollected) > ListLimit
  BY CollectsNewest
<1>2. PICK c : c = AllCollected
  OBVIOUS
<1>3. PICK K, O : K = Keeps /\ O = order
  OBVIOUS
<1>4. m \in Nat /\ \A g \in Gens : g \in Nat /\ (g \in 0..m - 1 \/ (g >= m /\ m # Oldest + 1))
  BY AuditTrailAssumption DEF Gens
<1>5. \A g \in 0..m - 1 : g \in Gens
  BY AuditTrailAssumption DEF Gens
<1>6. /\ \A e : e \in K <=> \E g \in Gens : \E i \in 1..Len(files[g]) :
                               files[g][i].ok /\ files[g][i].ev = e
      /\ K \subseteq Recorded
  BY <1>3, LinesWhen DEF LinesInv
<1>7. IsFiniteSet(K)
  BY <1>6, SpoiltFinite, FS_Subset
<1>8. c \in Seq(Events) /\ Len(c) \in Nat
  BY <1>1, <1>2 DEF Gathered
<1>9. \A a, b \in 1..Len(c) : a < b => Before(c[b], c[a])
  BY <1>1, <1>2 DEF Gathered
<1>10. \A a \in 1..Len(c) : \E g \in 0..m - 1 : \E i \in 1..Len(files[g]) :
          files[g][i].ok /\ files[g][i].ev = c[a]
  BY <1>1, <1>2 DEF Gathered
<1>11. \A a \in 1..Len(c) : c[a] \in K
  BY <1>5, <1>6, <1>10
<1>12. \A a, b \in 1..Len(c) : c[a] = c[b] => a = b
  <2>1. ASSUME NEW a \in 1..Len(c), NEW b \in 1..Len(c), a < b PROVE c[a] # c[b]
    <3>1. Before(c[b], c[a]) /\ c[a] \in Recorded
      BY <1>6, <1>9, <1>11, <2>1
    <3>2. ~Before(c[a], c[a])
      BY <3>1, WrittenOnce DEF LinesInv
    <3> QED
      BY <3>1, <3>2
  <2> QED
    BY <1>8, <2>1
<1>13. ASSUME NEW e \in K, \A b \in 1..Len(c) : c[b] # e, NEW a \in 1..Len(c)
       PROVE  Before(e, c[a]) /\ Len(c) > ListLimit
  <2>1. PICK h \in Gens : \E j \in 1..Len(files[h]) : files[h][j].ok /\ files[h][j].ev = e
    BY <1>6
  <2>2. PICK j \in 1..Len(files[h]) : files[h][j].ok /\ files[h][j].ev = e
    BY <2>1
  <2>3. h \notin 0..m - 1
    BY <1>1, <1>2, <1>13, <2>2 DEF Gathered
  <2>4. PICK g \in 0..m - 1 : \E i \in 1..Len(files[g]) : files[g][i].ok /\ files[g][i].ev = c[a]
    BY <1>10
  <2>5. PICK i \in 1..Len(files[g]) : files[g][i].ok /\ files[g][i].ev = c[a]
    BY <2>4
  <2>6. g \in Gens /\ Older(h, j, g, i) /\ m # Oldest + 1
    BY <1>4, <1>5, <2>3 DEF Older
  <2>7. e \in Recorded /\ c[a] \in Recorded
    BY <1>6, <1>11
  <2>8. Before(e, c[a])
    BY <2>2, <2>5, <2>6, <2>7 DEF LinesInv, InOrder
  <2> QED
    BY <1>1, <1>2, <2>6, <2>8
<1>14. (\A e \in K : \E a \in 1..Len(c) : c[a] = e) \/ Len(c) > ListLimit
  <2>1. CASE m = Oldest + 1
    <3>1. ASSUME NEW e \in K PROVE \E a \in 1..Len(c) : c[a] = e
      <4>1. PICK h \in Gens : \E j \in 1..Len(files[h]) : files[h][j].ok /\ files[h][j].ev = e
        BY <1>6
      <4>2. PICK j \in 1..Len(files[h]) : files[h][j].ok /\ files[h][j].ev = e
        BY <4>1
      <4>3. h \in 0..m - 1
        BY <1>4, <2>1
      <4> QED
        BY <1>1, <1>2, <4>2, <4>3 DEF Gathered
    <3> QED
      BY <3>1
  <2> QED
    BY <1>1, <1>2, <2>1
<1>15. /\ \A e \in K : At(e, O, {}) \in Nat
       /\ \A d, e : Before(d, e) => At(d, O, {}) <= At(e, O, {})
  BY <1>3, <1>6, PlacesPass
<1>16. PICK s : s = SubSeq(c, 1, IF Len(c) < ListLimit THEN Len(c) ELSE ListLimit)
  OBVIOUS
<1>17. NewestOf(s, K, O, {}) /\ (Len(s) < Cardinality(K) <=> Len(c) > ListLimit)
  <2>1. \A a, b \in 1..Len(c) : a < b => At(c[b], O, {}) <= At(c[a], O, {})
    BY <1>9, <1>15
  <2>2. \A e \in K : \A a \in 1..Len(c) :
           (\A b \in 1..Len(c) : c[b] # e) => At(e, O, {}) <= At(c[a], O, {})
    BY <1>13, <1>15
  <2> QED
    BY <1>7, <1>8, <1>11, <1>12, <1>14, <1>15, <1>16, <2>1, <2>2, CutIsNewest
<1> QED
  BY <1>2, <1>3, <1>16, <1>17 DEF Shown

\* What list() makes of the lines of a helper.
LEMMA HelperListIsNewest ==
  ASSUME QueueInv, LinesInv, NEW n \in Windows, NEW same, NEW ascending \in BOOLEAN,
         NEW out, out = HelperLists(n, same, ascending), NEW lines, lines = Window(n)
  PROVE  /\ NewestOf(out.events, ToSet(lines), lines, same)
         /\ Len(out.events) < Cardinality(ToSet(lines)) => out.hasMore
         /\ ~out.hasMore => n < ReaderLines
<1>1. PICK o, L : o = order /\ L = Len(order)
  OBVIOUS
<1>2. o \in Seq(Events) /\ L = Len(o) /\ L \in Nat /\ n \in Nat /\ n <= L /\ n <= ReaderLines
  BY <1>1, RecordedWhen, AuditTrailAssumption DEF QueueInv, Windows
<1>3. lines = SubSeq(o, L - n + 1, L)
  BY <1>1 DEF Window
<1>4. /\ lines \in Seq(Events) /\ Len(lines) = n
      /\ \A i \in 1..n : L - n + i \in 1..L /\ lines[i] = o[L - n + i] /\ lines[i] \in Events
  <2>1. L - n + 1 \in 1..L + 1 /\ L \in Int
    BY <1>2
  <2>2. lines \in Seq(Events) /\ Len(lines) = n
    BY <1>2, <1>3, <2>1
  <2>3. \A i \in 1..n : L - n + i \in 1..L /\ lines[i] = o[L - n + i]
    BY <1>2, <1>3, <2>1
  <2>4. \A i \in 1..n : lines[i] \in Events
    BY <2>2
  <2> QED
    BY <2>2, <2>3, <2>4
<1>5. \A i, j \in 1..n : lines[i] = lines[j] => i = j
  <2>1. \A i, j \in 1..L : o[i] = o[j] => i = j
    BY <1>1 DEF LinesInv
  <2>2. ASSUME NEW i \in 1..n, NEW j \in 1..n, lines[i] = lines[j] PROVE i = j
    <3>1. L - n + i = L - n + j
      BY <1>4, <2>1, <2>2
    <3> QED
      BY <1>2, <3>1
  <2> QED
    BY <2>2
<1>7. PICK c : c = NewestFirst(lines, same, ascending)
  OBVIOUS
<1>8. PICK p \in [1..n -> 1..n] :
         /\ c = [k \in 1..n |-> lines[p[k]]]
         /\ \A a, b \in 1..n : p[a] = p[b] => a = b
         /\ \A i \in 1..n : \E a \in 1..n : p[a] = i
         /\ \A a, b \in 1..n : a < b => Millisecond(same, p[b]) <= Millisecond(same, p[a])
  <2>1. PICK p : Sorts(p, c, lines, same)
    BY <1>4, <1>7, NewestFirstSorts
  <2> QED
    BY <1>4, <2>1 DEF Sorts
<1>9. \A k \in 1..n : p[k] \in 1..n /\ c[k] = lines[p[k]]
  BY <1>8
<1>10. c \in Seq(Events) /\ Len(c) = n
  <2>1. \A k \in 1..n : c[k] \in Events
    BY <1>4, <1>9
  <2>2. c \in [1..n -> Events]
    BY <1>8, <2>1
  <2> QED
    BY <1>2, <2>2
<1>11. PICK read : read = ToSet(lines)
  OBVIOUS
<1>12. \A e : e \in read <=> \E i \in 1..n : lines[i] = e
  <2>1. DOMAIN lines = 1..n
    BY <1>4
  <2> QED
    BY <1>11, <2>1 DEF ToSet
<1>13. IsFiniteSet(read)
  <2>1. read \subseteq Recorded
    BY <1>1, <1>4, <1>12, RecordedWhen
  <2> QED
    BY <2>1, SpoiltFinite, FS_Subset
<1>14. \A k \in 1..n : At(lines[k], lines, same) = Millisecond(same, k)
  <2>1. \A i, j \in 1..Len(lines) : lines[i] = lines[j] => i = j
    BY <1>4, <1>5
  <2>2. \A k \in 1..Len(lines) : At(lines[k], lines, same) = Millisecond(same, k)
    BY <2>1, PlaceInLines
  <2> QED
    BY <1>4, <2>2
<1>15. \A e \in read : At(e, lines, same) \in Nat
  <2>1. ASSUME NEW k \in 1..n PROVE Millisecond(same, k) \in Nat
    <3>1. k \in Nat
      BY <1>2
    <3> QED
      BY <3>1, MillisecondsPass
  <2> QED
    BY <1>12, <1>14, <2>1
<1>16. ASSUME NEW a \in 1..n, NEW b \in 1..n, a < b
       PROVE  At(c[b], lines, same) <= At(c[a], lines, same)
  <2>1. /\ At(c[a], lines, same) = Millisecond(same, p[a])
        /\ At(c[b], lines, same) = Millisecond(same, p[b])
    BY <1>9, <1>14
  <2> QED
    BY <1>8, <1>16, <2>1
<1>17. \A a, b \in 1..n : c[a] = c[b] => a = b
  BY <1>5, <1>8, <1>9
<1>18. (\A a \in 1..n : c[a] \in read) /\ (\A e \in read : \E a \in 1..n : c[a] = e)
  BY <1>8, <1>9, <1>12
<1>19. PICK s : s = SubSeq(c, 1, IF Len(c) < ListLimit THEN Len(c) ELSE ListLimit)
  OBVIOUS
<1>20. NewestOf(s, read, lines, same) /\ (Len(s) < Cardinality(read) <=> Len(c) > ListLimit)
  <2>1. \A e \in read : \A a \in 1..Len(c) :
           (\A b \in 1..Len(c) : c[b] # e) => At(e, lines, same) <= At(c[a], lines, same)
    BY <1>10, <1>18
  <2> QED
    BY <1>10, <1>13, <1>15, <1>16, <1>17, <1>18, <1>19, <2>1, CutIsNewest
<1>21. out.events = s /\ (out.hasMore <=> Len(c) > ListLimit \/ n = ReaderLines)
  BY <1>7, <1>19 DEF HelperLists, Shown
<1> QED
  BY <1>2, <1>11, <1>20, <1>21, AuditTrailAssumption

-----------------------------------------------------------------------------
\* A list is there for the reader that has just been answered.
Listed == Heard /\ ListingIsNewest

\* What ListingIsNewest says of one list.
ListsNewest(l, file, keeps, o) ==
    LET lines == IF file THEN o ELSE SubSeq(o, Len(o) - l.read + 1, Len(o))
        read  == IF file THEN keeps ELSE ToSet(lines)
    IN  /\ NewestOf(l.events, read, lines, l.same)
        /\ Len(l.events) < Cardinality(read) => l.hasMore
        /\ file => (l.hasMore <=> Len(l.events) < Cardinality(read))
        /\ ~file /\ ~l.hasMore => l.read < ReaderLines

\* It depends on the list, what can be read back and what was written.
LEMMA ListedWhen ==
  ASSUME FilesInv, FilesInv'
  PROVE  /\ Listed <=> /\ listing.done => reply[Reader] = "ok"
                       /\ listing.done => ListsNewest(listing, backend = "file", Keeps, order)
         /\ Listed' <=> /\ listing'.done => reply'[Reader] = "ok"
                        /\ listing'.done => ListsNewest(listing', backend' = "file", Keeps', order')
<1>1. (backend = "file" \/ backend = "helper") /\ (backend' = "file" \/ backend' = "helper")
  BY AuditTrailAssumption DEF FilesInv
<1>2. ListingIsNewest <=> (listing.done => ListsNewest(listing, backend = "file", Keeps, order))
  BY <1>1 DEF ListingIsNewest, ListsNewest, Window
<1>3. ListingIsNewest' <=>
         (listing'.done => ListsNewest(listing', backend' = "file", Keeps', order'))
  BY <1>1 DEF ListingIsNewest, ListsNewest, Window
<1> QED
  BY <1>2, <1>3 DEF Listed, Heard

\* It stays while the log is not written.
LEMMA ListingRests ==
  ASSUME FilesInv, FilesInv', Listed, UNCHANGED <<backend, files, order, listing>>,
         reply[Reader] = "ok" => reply'[Reader] = "ok"
  PROVE  Listed'
<1>1. Keeps' = Keeps
  BY DEF Keeps, Readable
<1> QED
  BY <1>1, ListedWhen

\* There is none before, or after, the reader has it.
LEMMA NothingListed ==
  ASSUME FilesInv, FilesInv', \/ ~listing'.done
                              \/ Listed /\ Quiet /\ UNCHANGED listing
  PROVE  Listed'
<1>1. CASE ~listing'.done
  BY <1>1, ListedWhen
<1>2. CASE Listed /\ Quiet /\ UNCHANGED listing
  <2>1. ~listing.done
    BY <1>2, ListedWhen DEF Quiet
  <2> QED
    BY <1>1, <1>2, <2>1
<1> QED
  BY <1>1, <1>2

\* The reads.
LEMMA ReadLists ==
  ASSUME QueueInv, FilesInv, FilesInv', LinesInv, Listed, Quiet, Reads
  PROVE  Listed'
<1>1. UNCHANGED <<backend, files, order>>
  BY DEF Reads, logged
<1>2. Keeps' = Keeps
  BY <1>1 DEF Keeps, Readable
<1>3. CASE backend = "file" /\ reply'[Reader] = "ok" /\ listing' = Shown(AllCollected, FALSE, 0, {})
  <2>1. /\ NewestOf(listing'.events, Keeps, order, {})
        /\ listing'.hasMore <=> Len(listing'.events) < Cardinality(Keeps)
    BY <1>3, FileListIsNewest
  <2>2. listing'.same = {}
    BY <1>3 DEF Shown
  <2>3. ListsNewest(listing', TRUE, Keeps, order)
    BY <2>1, <2>2 DEF ListsNewest
  <2> QED
    BY <1>1, <1>2, <1>3, <2>3, ListedWhen
<1>4. CASE /\ backend = "helper" /\ reply'[Reader] = "ok"
           /\ \E n \in Windows, ascending \in BOOLEAN :
                 \E same \in SUBSET (1..n - 1) : listing' = HelperLists(n, same, ascending)
  <2>1. PICK n \in Windows, ascending \in BOOLEAN :
           \E same \in SUBSET (1..n - 1) : listing' = HelperLists(n, same, ascending)
    BY <1>4
  <2>2. PICK same \in SUBSET (1..n - 1) : listing' = HelperLists(n, same, ascending)
    BY <2>1
  <2>3. PICK lines : lines = Window(n)
    OBVIOUS
  <2>4. /\ NewestOf(listing'.events, ToSet(lines), lines, same)
        /\ Len(listing'.events) < Cardinality(ToSet(lines)) => listing'.hasMore
        /\ ~listing'.hasMore => n < ReaderLines
    BY <2>2, <2>3, HelperListIsNewest
  <2>5. listing'.same = same /\ listing'.read = n
    BY <2>2 DEF HelperLists, Shown
  <2>6. ListsNewest(listing', FALSE, Keeps, order)
    BY <2>3, <2>4, <2>5 DEF ListsNewest, Window
  <2> QED
    BY <1>1, <1>2, <1>4, <2>6, ListedWhen
<1>5. CASE UNCHANGED listing
  BY <1>5, NothingListed
<1> QED
  BY <1>3, <1>4, <1>5 DEF Reads

\* Every step keeps the list until its reader has it: while the reader has not
\* taken it, nothing is written.
LEMMA ListedStep ==
  ASSUME Sound, FilesInv', LogInv, Listed, [Next]_vars
  PROVE  Listed'
<1>1. QueueInv /\ FilesInv /\ LinesInv /\ CallTypes /\ Reader \notin Transfers
  BY FileTransferAssumption, AuditTrailAssumption DEF Sound, TruthInv, LogInv
<1>2. ASSUME NEW t \in Transfers, NEW ev, Submit(t, ev) PROVE Listed'
  <2>1. UNCHANGED <<backend, files, order, listing>> /\ reply'[Reader] = reply[Reader]
    BY <1>1, <1>2 DEF Submit, logged, QueueInv
  <2> QED
    BY <1>1, <2>1, ListingRests
<1>3. ASSUME UNCHANGED <<backend, files, order, listing>>, reply'[Reader] = reply[Reader]
      PROVE  Listed'
  BY <1>1, <1>3, ListingRests
<1>4. ASSUME NEW t \in Transfers, Call(t) \/ Answering(t) PROVE Listed'
  <2>1. CASE AttemptFails(t) \/ Closes(t)
    BY <1>1, <1>3, <2>1 DEF AttemptFails, Closes, QueueInv, logged
  <2>2. CASE Call(t)
    BY <1>2, <2>2 DEF Call
  <2>3. CASE Attempted(t)
    <3>1. CASE \E e : Terminal(t, e)
      BY <1>2, <3>1 DEF Terminal
    <3>2. CASE /\ reply' = [reply EXCEPT ![t] = "none"]
               /\ UNCHANGED <<backend, files, listing, logged>>
      BY <1>1, <1>3, <3>2 DEF QueueInv, logged
    <3> QED
      BY <2>3, <3>1, <3>2 DEF Attempted
  <2> QED
    BY <1>4, <2>1, <2>2, <2>3 DEF Answering
<1>5. ASSUME NEW t \in Transfers, Directory(t) PROVE Listed'
  <2>1. CASE Release(t)
    BY <1>2, <2>1 DEF Release, Terminal
  <2>2. CASE NoTrail
    BY <1>3, <2>2 DEF NoTrail, audit
  <2> QED
    BY <1>5, <2>1, <2>2 DEF Directory, Root, Lock, Scan, Create, Write, Link, Verify, Cleanup, Read
<1>6. CASE AuditAtRest /\ Storage
  <2>1. CASE Reads
    BY <1>1, <1>6, <2>1, ReadLists DEF AuditAtRest
  <2>2. CASE UNCHANGED listing
    BY <1>1, <1>6, <2>2, NothingListed DEF AuditAtRest
  <2> QED
    BY <1>6, <2>1, <2>2 DEF Storage, RemovesOldest, Renames, Appends, Syncs, FileFails,
       HelperWrites, HelperFails, ReadFails
<1>7. CASE OperationStarts
  <2>1. UNCHANGED <<backend, files, order, listing>>
    BY <1>7 DEF OperationStarts, logged
  <2>2. reply[Reader] = "ok" => reply'[Reader] = "ok"
    <3>1. 1 \in 1..Len(queue) /\ Head1 = queue[1]
      BY <1>1, <1>7 DEF OperationStarts, QueueInv, Head1
    <3>2. ~Head1.late => reply[Head1.by] = "waiting"
      BY <1>1, <3>1 DEF QueueInv
    <3>3. UNCHANGED reply \/ (~Head1.late /\ reply' = [reply EXCEPT ![Head1.by] = "failed"])
      BY <1>7 DEF OperationStarts, Rejects, Ends
    <3> QED
      BY <1>1, <3>2, <3>3 DEF QueueInv
  <2> QED
    BY <1>1, <2>1, <2>2, ListingRests
<1>8. CASE \E c \in Transfers \cup {Reader} : CallerDeadline(c)
  BY <1>1, <1>8, NothingListed DEF CallerDeadline
<1>9. CASE Lists
  BY <1>1, <1>9, NothingListed DEF Lists, AuditAtRest, Submit
<1>10. CASE ListAnswered \/ AuditRestarts
  BY <1>1, <1>10, NothingListed DEF ListAnswered, AuditRestarts, NoList
<1>11. CASE UNCHANGED audit
  BY <1>3, <1>11 DEF audit
<1> QED
  BY <1>4, <1>5, <1>6, <1>7, <1>8, <1>9, <1>10, <1>11
  DEF Next, Resumed, SomeTimer, Timers, AuditLog, Deadline, Shutdown, Restart, vars

\* A list is the newest of what was read, newest first and each event once, and
\* it says whether there is more (AuditTrail.ListingIsNewest).
THEOREM ListingStaysNewest == Spec => []ListingIsNewest
<1>1. Init => (LogInv /\ FreshInv) /\ Listed
  <2>1. Init => Listed
    BY DEF Init, AuditInit, NoList, Listed, Heard, ListingIsNewest
  <2> QED
    BY <2>1, TrailInit
<1>2. Sound /\ Sound' /\ ((LogInv /\ FreshInv) /\ Listed) /\ [Next]_vars
         => ((LogInv /\ FreshInv) /\ Listed)'
  <2>1. Sound' => FilesInv'
    BY DEF Sound
  <2> QED
    BY <2>1, TrailStep, ListedStep
<1>3. Listed => ListingIsNewest
  BY DEF Listed
<1> QED
  BY <1>1, <1>2, <1>3, SoundInvariant, PTL DEF Spec

==============================================================================
