----------------------- MODULE BackgroundJobsRecovery -----------------------
(***************************************************************************)
(* What the record files and the request IDs give a client, proved for      *)
(* every set of jobs and requests, every capacity and every combination of  *)
(* crashes, restarts and faults: the store can always be opened again, a    *)
(* retry never runs a command twice, and no limit is exceeded.              *)
(***************************************************************************)
EXTENDS BackgroundJobsProofs

-----------------------------------------------------------------------------
(* The queue of the store.  Every operation in it that was not abandoned is *)
(* awaited by its owner, and no owner waits for two: what is due from       *)
(* position n on lies in a set W and is there once.  A cleanup belongs to   *)
(* no job.                                                                  *)

Sound(q, n, W) ==
    \A i \in n .. Len(q) :
        /\ q[i] \in W
        /\ \A k \in n .. Len(q) : q[i] = q[k] /\ q[i].op # "cleanup" => i = k

Minus(W, t) == IF t.op = "cleanup" THEN W ELSE W \ {t}

\* An operation of job j is in q.
Carries(q, j) == \E i \in 1 .. Len(q) : q[i].job = j /\ q[i].op # "cleanup"

\* q is p without its element i.
Shortens(q, p, i) ==
    /\ q \in Seq(Tickets) /\ p \in Seq(Tickets) /\ i \in 1 .. Len(p)
    /\ Len(q) = Len(p) - 1
    /\ \A k \in 1 .. Len(q) : q[k] = IF k < i THEN p[k] ELSE p[k + 1]

\* Taking the first operation shortens a queue,
LEMMA TailShortens ==
  ASSUME NEW p \in Seq(Tickets), p # <<>> PROVE Shortens(Tail(p), p, 1)
<1>1. /\ Tail(p) \in Seq(Tickets) /\ Len(Tail(p)) = Len(p) - 1
      /\ \A i \in 1 .. Len(Tail(p)) : Tail(p)[i] = p[i + 1]
  BY HeadTailProperties
<1>2. 1 \in 1 .. Len(p)
  BY EmptySeq, LenProperties
<1> QED
  BY <1>1, <1>2 DEF Shortens

\* and so does taking any other.
LEMMA RemoveAtShortens ==
  ASSUME NEW p \in Seq(Tickets), NEW i \in 1 .. Len(p) PROVE Shortens(RemoveAt(p, i), p, i)
<1> DEFINE a == SubSeq(p, 1, i - 1)
           b == SubSeq(p, i + 1, Len(p))
<1>1. Len(p) \in Nat /\ i \in Nat /\ 1 <= i /\ i <= Len(p)
  BY LenProperties
<1>2. /\ a \in Seq(Tickets) /\ Len(a) = i - 1
      /\ \A k \in 1 .. i - 1 : a[k] = p[k]
  BY <1>1
<1>3. /\ b \in Seq(Tickets) /\ Len(b) = Len(p) - i
      /\ \A k \in 1 .. Len(p) - i : b[k] = p[k + i]
  BY <1>1
<1>4. /\ a \o b \in Seq(Tickets) /\ Len(a \o b) = Len(a) + Len(b)
      /\ \A k \in 1 .. Len(a) + Len(b) :
            (a \o b)[k] = IF k <= Len(a) THEN a[k] ELSE b[k - Len(a)]
  BY <1>2, <1>3, ConcatProperties
<1>5. RemoveAt(p, i) = a \o b
  BY DEF RemoveAt
<1> HIDE DEF a, b
<1>6. Len(a \o b) = Len(p) - 1
  BY <1>1, <1>2, <1>3, <1>4
<1>7. ASSUME NEW k \in 1 .. Len(p) - 1
      PROVE  (a \o b)[k] = IF k < i THEN p[k] ELSE p[k + 1]
  <2>1. CASE k < i
    <3>1. k \in 1 .. i - 1 /\ k <= Len(a) /\ k \in 1 .. Len(a) + Len(b)
      BY <1>1, <1>2, <1>3, <1>7, <2>1
    <3> QED BY <1>2, <1>4, <2>1, <3>1
  <2>2. CASE ~(k < i)
    <3>1. /\ ~(k <= Len(a)) /\ k \in 1 .. Len(a) + Len(b)
          /\ k - Len(a) \in 1 .. Len(p) - i /\ k - Len(a) + i = k + 1
      BY <1>1, <1>2, <1>3, <1>7, <2>2
    <3> QED BY <1>3, <1>4, <2>2, <3>1
  <2> QED BY <2>1, <2>2
<1> QED
  BY <1>1, <1>4, <1>5, <1>6, <1>7 DEF Shortens

\* What is due stays so when a due operation leaves, and nobody is left to
\* wait for that one.
LEMMA SoundShorter ==
  ASSUME NEW q, NEW p, NEW i, NEW W, NEW n \in {1, 2},
         Shortens(q, p, i), Sound(p, n, W), i \in n .. Len(p)
  PROVE  Sound(q, n, Minus(W, p[i]))
<1> DEFINE g(k) == IF k < i THEN k ELSE k + 1
<1>1. Len(p) \in Nat /\ Len(q) = Len(p) - 1 /\ i \in Nat /\ n <= i /\ i <= Len(p)
  BY LenProperties DEF Shortens
<1>2. ASSUME NEW k \in n .. Len(q)
      PROVE  g(k) \in n .. Len(p) /\ g(k) # i /\ q[k] = p[g(k)]
  BY <1>1, <1>2 DEF Shortens
<1>3. ASSUME NEW k \in n .. Len(q), NEW m \in n .. Len(q), g(k) = g(m) PROVE k = m
  BY <1>1, <1>3
<1> HIDE DEF g
<1>4. ASSUME NEW k \in n .. Len(q) PROVE q[k] \in Minus(W, p[i])
  <2>1. g(k) \in n .. Len(p) /\ g(k) # i /\ q[k] = p[g(k)] /\ i \in n .. Len(p)
    BY <1>2, <1>4
  <2> QED
    BY <2>1 DEF Sound, Minus
<1>5. ASSUME NEW k \in n .. Len(q), NEW m \in n .. Len(q), q[k] = q[m], q[k].op # "cleanup"
      PROVE  k = m
  <2>1. g(k) \in n .. Len(p) /\ g(m) \in n .. Len(p) /\ p[g(k)] = p[g(m)]
        /\ p[g(k)].op # "cleanup"
    BY <1>2, <1>5
  <2>2. g(k) = g(m)
    BY <2>1 DEF Sound
  <2> QED
    BY <1>3, <2>2
<1> QED
  BY <1>4, <1>5 DEF Sound

\* What is due is all that is left when an abandoned operation leaves.
LEMMA SoundRid ==
  ASSUME NEW q, NEW p, NEW W, Shortens(q, p, 1), Sound(p, 2, W)
  PROVE  Sound(q, 1, W)
<1>1. Len(p) \in Nat /\ Len(q) = Len(p) - 1
  BY LenProperties DEF Shortens
<1>2. ASSUME NEW k \in 1 .. Len(q) PROVE k + 1 \in 2 .. Len(p) /\ q[k] = p[k + 1]
  BY <1>1, <1>2 DEF Shortens
<1>3. ASSUME NEW k \in 1 .. Len(q) PROVE q[k] \in W
  BY <1>2, <1>3 DEF Sound
<1>4. ASSUME NEW k \in 1 .. Len(q), NEW m \in 1 .. Len(q), q[k] = q[m], q[k].op # "cleanup"
      PROVE  k = m
  <2>1. k + 1 = m + 1
    BY <1>2, <1>4 DEF Sound
  <2> QED
    BY <2>1
<1> QED
  BY <1>3, <1>4 DEF Sound

\* An abandoned operation is not due, and what is due is awaited by others.
LEMMA SoundAbandons ==
  ASSUME NEW q \in Seq(Tickets), q # <<>>, NEW W, Sound(q, 1, W)
  PROVE  Sound(q, 2, Minus(W, q[1]))
<1>1. Len(q) \in Nat /\ 1 \in 1 .. Len(q) /\ \A i \in 2 .. Len(q) : i \in 1 .. Len(q) /\ i # 1
  BY EmptySeq, LenProperties
<1> QED
  BY <1>1 DEF Sound, Minus

\* An operation whose owner was not waiting for it joins the queue.
LEMMA SoundAppend ==
  ASSUME NEW q \in Seq(Tickets), NEW n \in {1, 2}, NEW W, NEW V, NEW t \in Tickets,
         Sound(q, n, W), W \subseteq V, t \notin W \/ t.op = "cleanup", t \in V
  PROVE  Sound(Append(q, t), n, V)
<1> DEFINE p == Append(q, t)
<1>1. /\ Len(q) \in Nat /\ Len(p) = Len(q) + 1 /\ p[Len(q) + 1] = t
      /\ \A i \in 1 .. Len(q) : p[i] = q[i]
  BY AppendProperties, LenProperties
<1> HIDE DEF p
<1>2. ASSUME NEW i \in n .. Len(p)
      PROVE  \/ i \in n .. Len(q) /\ p[i] = q[i]
             \/ i = Len(q) + 1 /\ p[i] = t
  BY <1>1, <1>2
<1>3. \A i \in n .. Len(q) : q[i] \in W
  BY DEF Sound
<1>4. ASSUME NEW i \in n .. Len(p), NEW k \in n .. Len(p), p[i] = p[k], p[i].op # "cleanup"
      PROVE  i = k
  <2>1. CASE i \in n .. Len(q) /\ k \in n .. Len(q) /\ p[i] = q[i] /\ p[k] = q[k]
    BY <1>4, <2>1 DEF Sound
  <2> QED
    BY <1>2, <1>3, <1>4, <2>1
<1> QED
  BY <1>2, <1>3, <1>4 DEF Sound, p

\* Owners may start to wait.
LEMMA SoundGrows ==
  ASSUME NEW q, NEW n, NEW W, NEW V, Sound(q, n, W), W \subseteq V
  PROVE  Sound(q, n, V)
  BY DEF Sound

\* What a queue and the operations appended to it consist of.
LEMMA ConcatElements ==
  ASSUME NEW q \in Seq(Tickets), NEW m \in Nat, NEW f \in [1 .. m -> Tickets]
  PROVE  /\ q \o f \in Seq(Tickets) /\ Len(q) \in Nat /\ Len(q \o f) = Len(q) + m
         /\ \A i \in 1 .. Len(q) + m :
               (q \o f)[i] = IF i <= Len(q) THEN q[i] ELSE f[i - Len(q)]
<1>1. f \in Seq(Tickets) /\ Len(f) = m
  <2>1. f \in Seq(Tickets)
    BY FunctionIsSeq
  <2> QED BY <2>1
<1> QED
  BY <1>1, ConcatProperties, LenProperties

\* The starts of one pump pass join the queue.
LEMMA SoundConcat ==
  ASSUME NEW q \in Seq(Tickets), NEW n \in {1, 2}, NEW W, NEW V, NEW m \in Nat,
         NEW f \in [1 .. m -> Tickets],
         Sound(q, n, W), W \subseteq V, \A i \in 1 .. m : f[i] \in V /\ f[i] \notin W,
         \A i, k \in 1 .. m : f[i] = f[k] => i = k
  PROVE  Sound(q \o f, n, V)
<1> DEFINE p == q \o f
<1>2. /\ Len(q) \in Nat /\ Len(p) = Len(q) + m
      /\ \A i \in 1 .. Len(q) + m : p[i] = IF i <= Len(q) THEN q[i] ELSE f[i - Len(q)]
  BY ConcatElements
<1> HIDE DEF p
<1>3. ASSUME NEW i \in n .. Len(p)
      PROVE  \/ i \in n .. Len(q) /\ p[i] = q[i]
             \/ i - Len(q) \in 1 .. m /\ p[i] = f[i - Len(q)]
  BY <1>2, <1>3
<1>4. \A i \in n .. Len(q) : q[i] \in W
  BY DEF Sound
<1>5. ASSUME NEW i \in n .. Len(p), NEW k \in n .. Len(p), p[i] = p[k], p[i].op # "cleanup"
      PROVE  i = k
  <2>1. CASE i \in n .. Len(q) /\ k \in n .. Len(q) /\ p[i] = q[i] /\ p[k] = q[k]
    BY <1>5, <2>1 DEF Sound
  <2>2. CASE i - Len(q) \in 1 .. m /\ k - Len(q) \in 1 .. m /\ p[i] = f[i - Len(q)]
             /\ p[k] = f[k - Len(q)]
    <3>1. i - Len(q) = k - Len(q)
      BY <1>5, <2>2
    <3> QED
      BY <1>2, <1>5, <3>1
  <2>3. p[i].op # "cleanup" /\ p[i] = p[k]
    BY <1>5
  <2>4. \A u \in 1 .. m : f[u] \notin W
    OBVIOUS
  <2> QED
    BY <1>3, <1>4, <2>1, <2>2, <2>3, <2>4
<1>6. \A i \in n .. Len(p) : p[i] \in V
  BY <1>3, <1>4
<1> QED
  BY <1>5, <1>6 DEF Sound, p

\* A shorter queue carries no other jobs, an appended operation brings its own.
LEMMA CarriesShorter ==
  ASSUME NEW q, NEW p, NEW i, NEW j, Shortens(q, p, i), Carries(q, j)
  PROVE  Carries(p, j)
<1>1. PICK k \in 1 .. Len(q) : q[k].job = j /\ q[k].op # "cleanup"
  BY DEF Carries
<1>2. Len(p) \in Nat /\ Len(q) = Len(p) - 1
  BY LenProperties DEF Shortens
<1>3. /\ k \in 1 .. Len(p) /\ k + 1 \in 1 .. Len(p)
      /\ q[k] = IF k < i THEN p[k] ELSE p[k + 1]
  BY <1>1, <1>2 DEF Shortens
<1> QED
  BY <1>1, <1>3 DEF Carries

\* A queue with one more operation carries the jobs it did, and that one's.
LEMMA CarriesAppend ==
  ASSUME NEW q \in Seq(Tickets), NEW t \in Tickets, NEW j, Carries(Append(q, t), j)
  PROVE  Carries(q, j) \/ t.job = j
<1> DEFINE p == Append(q, t)
<1>1. /\ Len(q) \in Nat /\ Len(p) = Len(q) + 1 /\ p[Len(q) + 1] = t
      /\ \A i \in 1 .. Len(q) : p[i] = q[i]
  BY AppendProperties, LenProperties
<1>2. PICK k \in 1 .. Len(p) : p[k].job = j /\ p[k].op # "cleanup"
  BY DEF Carries
<1> HIDE DEF p
<1>3. k \in 1 .. Len(q) \/ k = Len(q) + 1
  BY <1>1, <1>2
<1> QED
  BY <1>1, <1>2, <1>3 DEF Carries

\* Several operations added carry no other job than theirs.
LEMMA CarriesConcat ==
  ASSUME NEW q \in Seq(Tickets), NEW m \in Nat, NEW f \in [1 .. m -> Tickets], NEW j,
         Carries(q \o f, j)
  PROVE  Carries(q, j) \/ \E i \in 1 .. m : f[i].job = j
<1> DEFINE p == q \o f
<1>2. /\ Len(q) \in Nat /\ Len(p) = Len(q) + m
      /\ \A i \in 1 .. Len(q) + m : p[i] = IF i <= Len(q) THEN q[i] ELSE f[i - Len(q)]
  BY ConcatElements
<1>3. PICK k \in 1 .. Len(p) : p[k].job = j /\ p[k].op # "cleanup"
  BY DEF Carries
<1> HIDE DEF p
<1>4. \/ k \in 1 .. Len(q) /\ p[k] = q[k]
      \/ k - Len(q) \in 1 .. m /\ p[k] = f[k - Len(q)]
  BY <1>2, <1>3
<1> QED
  BY <1>3, <1>4 DEF Carries

-----------------------------------------------------------------------------
(* The inductive invariant.  What a client may ask for again is what is on  *)
(* disk, in memory, or still being submitted; as long as no fault is        *)
(* latched, memory knows everything that is on disk, so that Duplicate sees *)
(* every job that could ever show up again under the same request.          *)

\* The oldest operation is not due once its timer has gone off.
First == IF head = "late" THEN 2 ELSE 1

Awaits == {t \in Tickets :
             /\ t.op = "accept" => sub[t.job] = "save"
             /\ t.op \in {"starting", "running", "final"} => run[t.job] = t.op
             /\ t.op \in Closers => fin[t.job][t.op] = "save"}

QueueInv == /\ head = "late" => storeFailed
            /\ Sound(storeQ, First, Awaits)

Working(j) == run[j] \notin {"idle", "end"}
Closing(j) == \E c \in Closers : fin[j][c] \in {"audit", "save"}

InMemory(j) == \/ j \in known \/ j \in active \/ sub[j] = "save"
               \/ Working(j) \/ Closing(j) \/ Carries(storeQ, j)
Touched(j) == disk[j].state # "absent" \/ InMemory(j)
Present(j) == Touched(j) \/ sub[j] \in Pending
Early      == {"attempt", "recheck", "refusing"}

Asleep == /\ active = {} /\ storeQ = <<>> /\ head = "idle" /\ fault = FALSE
          /\ \A j \in Jobs : sub[j] = "idle" /\ ~Working(j) /\ ~Closing(j)

Identity(j) ==
    /\ Present(j) => req[j] # NoRequest
    /\ \A i \in Jobs : i # j /\ req[i] = req[j] /\ Present(i) => ~Present(j)
    /\ phase = "up" /\ ~fault /\ Touched(j) => j \in known
    /\ sub[j] \in Early => ~Touched(j)
    /\ sub[j] = "failing" => fault
    /\ InMemory(j) => rec[j].state # "absent"
    /\ Closing(j) => rec[j].state # "queued"
    /\ ~stopping => fin[j]["shutdown"] \notin {"audit", "save"}

Kept(j) == /\ spawned[j] > 0 => disk[j].state # "absent" \/ j \in forgotten
           /\ run[j] \in {"running", "mode", "child"} => disk[j].state # "absent"

Waking == /\ phase # "up" => Asleep
          /\ phase = "down" => known = {}
          /\ head # "idle" /\ storeQ[1].op # "cleanup" => snap.state # "absent"

RecoveryInv == /\ QueueInv /\ Waking
               /\ \A j \in Jobs : Identity(j) /\ Kept(j)

\* The inductive invariant implies both properties.
LEMMA RecoveryImplies == TypeOK /\ RecoveryInv => StoreAlwaysOpens /\ RetriesRecover
<1> SUFFICES ASSUME TypeOK, RecoveryInv PROVE StoreAlwaysOpens /\ RetriesRecover
  OBVIOUS
<1>1. ASSUME NEW i \in Jobs, NEW j \in Jobs, i # j,
             disk[i].state # "absent", disk[j].state # "absent"
      PROVE  req[i] # req[j]
  BY <1>1 DEF RecoveryInv, Identity, Present, Touched
<1> QED
  BY <1>1 DEF StoreAlwaysOpens, OnDisk, RetriesRecover, RecoveryInv, Kept, TypeOK, HistoryType

\* The invariant holds initially.
LEMMA RecoveryInit == Init => RecoveryInv
<1> SUFFICES ASSUME Init PROVE RecoveryInv
  OBVIOUS
<1>1. Len(storeQ) = 0 /\ \A j \in Jobs : ~Carries(storeQ, j)
  BY DEF Init, Carries
<1>2. QueueInv
  BY <1>1 DEF Init, QueueInv, Sound, First
<1>3. \A j \in Jobs : ~Working(j) /\ ~Closing(j)
  BY DEF Init, Working, Closing, Closers
<1>4. \A j \in Jobs : ~Present(j)
  BY <1>1, <1>3 DEF Init, Present, Touched, InMemory, NoRecord, Pending
<1>5. \A j \in Jobs : Identity(j) /\ Kept(j)
  BY <1>3, <1>4 DEF Init, Identity, Kept, Present, Touched, Early, Closers
<1>6. Waking
  BY <1>3 DEF Init, Waking, Asleep
<1> QED
  BY <1>2, <1>5, <1>6 DEF RecoveryInv

-----------------------------------------------------------------------------
(* What a step may do to a job without disturbing the invariant             *)

\* Whoever waits for the store goes on waiting.
WaitsOn(k) ==
    /\ sub[k] = "save" => sub'[k] = "save"
    /\ run[k] \in {"starting", "running", "final"} => run'[k] = run[k]
    /\ \A c \in Closers : fin[k][c] = "save" => fin'[k][c] = "save"

\* Then what was due stays due.
LEMMA AwaitsGrow ==
  ASSUME \A k \in Jobs : WaitsOn(k) PROVE Awaits \subseteq Awaits'
<1> SUFFICES ASSUME NEW t \in Awaits PROVE t \in Awaits'
  OBVIOUS
<1>1. t \in Tickets /\ t.job \in Jobs
  BY DEF Awaits, Tickets
<1>2. WaitsOn(t.job)
  BY <1>1
<1> QED
  BY <1>1, <1>2 DEF Awaits, WaitsOn

\* A step that leaves the store alone keeps its queue in order,
LEMMA QueueStays ==
  ASSUME QueueInv, \A k \in Jobs : WaitsOn(k), UNCHANGED <<storeQ, head, storeFailed>>
  PROVE  QueueInv'
<1>1. First' = First
  BY DEF First
<1>2. Awaits \subseteq Awaits'
  BY AwaitsGrow
<1>3. Sound(storeQ, First, Awaits')
  BY <1>2, SoundGrows DEF QueueInv
<1> QED
  BY <1>1, <1>3 DEF QueueInv, Sound

\* and so does a step that only asks it for one more operation,
LEMMA QueueTakesOne ==
  ASSUME TypeOK, QueueInv, \A k \in Jobs : WaitsOn(k), NEW t \in Tickets,
         t \notin Awaits \/ t.op = "cleanup", t \in Awaits', storeQ' = Append(storeQ, t),
         UNCHANGED <<head, storeFailed>>
  PROVE  QueueInv'
<1>1. First' = First /\ First \in {1, 2}
  BY DEF First
<1>2. Awaits \subseteq Awaits' /\ storeQ \in Seq(Tickets)
  BY AwaitsGrow DEF TypeOK, StoreType
<1>3. Sound(Append(storeQ, t), First, Awaits')
  BY <1>1, <1>2, SoundAppend DEF QueueInv
<1> QED
  BY <1>1, <1>3 DEF QueueInv, Sound

\* A step that leaves the record files alone and brings no job into memory.
Mild(k) ==
    /\ WaitsOn(k)
    /\ k \in active' => k \in active
    /\ sub'[k] \in Pending => sub[k] \in Pending
    /\ \A s \in {"save", "failing"} : sub'[k] = s => sub[k] = s
    /\ sub'[k] \in Early => sub[k] \in Early
    /\ Working(k)' => Working(k) \/ k \in active
    /\ Closing(k)' => Closing(k) \/ k \in active
    /\ Carries(storeQ', k) => Carries(storeQ, k) \/ Working(k) \/ Closing(k) \/ k \in active
    /\ rec'[k].state = "absent" => rec[k].state = "absent"
    /\ Closing(k)' => rec'[k].state # "queued"
    /\ ~stopping' => fin'[k]["shutdown"] \notin {"audit", "save"}
    /\ run'[k] \in {"running", "mode", "child"} => run[k] \in {"running", "mode", "child"}
    /\ spawned'[k] > 0 => spawned[k] > 0 \/ run[k] = "mode"

\* The queue of the store goes on from q.
Extends(q) == /\ Len(q) <= Len(storeQ')
              /\ \A i \in 1 .. Len(q) : storeQ'[i] = q[i]

FilesStay == UNCHANGED <<phase, fault, known, disk, forgotten, head, snap, req>>

\* The operation in progress stays at the head.
LEMMA HeadStays ==
  ASSUME TypeOK, Extends(storeQ), head # "idle" PROVE storeQ'[1] = storeQ[1]
<1>1. 1 \in 1 .. Len(storeQ)
  BY EmptySeq, LenProperties DEF TypeOK, StoreType
<1> QED
  BY <1>1 DEF Extends

\* Such a step keeps what is known of identities and of files.
LEMMA MildKeeps ==
  ASSUME TypeOK, phase = "up", FilesStay, Waking, Extends(storeQ),
         \A k \in Jobs : Identity(k) /\ Kept(k), \A k \in Jobs : Mild(k)
  PROVE  Waking' /\ \A j \in Jobs : Identity(j)' /\ Kept(j)'
<1>1. \A k \in Jobs : InMemory(k)' => InMemory(k)
  BY DEF Mild, InMemory, FilesStay
<1>2. \A k \in Jobs : (Touched(k)' => Touched(k)) /\ (Present(k)' => Present(k))
  BY <1>1 DEF Mild, Touched, Present, FilesStay
<1>3. ASSUME NEW j \in Jobs PROVE Identity(j)'
  <2>1. Mild(j) /\ Identity(j)
    OBVIOUS
  <2>2. \A i \in Jobs : i # j /\ req'[i] = req'[j] /\ Present(i)' => ~Present(j)'
    BY <1>2, <2>1 DEF Identity, FilesStay
  <2>3. /\ Present(j)' => req'[j] # NoRequest
        /\ phase' = "up" /\ ~fault' /\ Touched(j)' => j \in known'
        /\ sub'[j] \in Early => ~Touched(j)'
        /\ sub'[j] = "failing" => fault'
        /\ InMemory(j)' => rec'[j].state # "absent"
    BY <1>1, <1>2, <2>1 DEF Identity, FilesStay, Mild
  <2>4. /\ Closing(j)' => rec'[j].state # "queued"
        /\ ~stopping' => fin'[j]["shutdown"] \notin {"audit", "save"}
    BY <2>1 DEF Mild
  <2> QED
    BY <2>2, <2>3, <2>4 DEF Identity
<1>4. ASSUME NEW j \in Jobs PROVE Kept(j)'
  <2>1. Mild(j) /\ Kept(j) /\ disk' = disk /\ forgotten' = forgotten
    BY DEF FilesStay
  <2> QED
    BY <2>1 DEF Kept, Mild
<1>5. Waking'
  <2>1. head # "idle" => storeQ'[1] = storeQ[1]
    BY HeadStays
  <2> QED
    BY <2>1 DEF Waking, FilesStay
<1> QED
  BY <1>3, <1>4, <1>5

\* A job that a step does not touch.
LEMMA MildUntouched ==
  ASSUME NEW k \in Jobs, Identity(k),
         UNCHANGED <<sub[k], run[k], fin[k], spawned[k], rec[k]>>,
         k \in active' => k \in active, stopping' = stopping,
         Carries(storeQ', k) => Carries(storeQ, k)
  PROVE  Mild(k)
<1>1. (Working(k)' => Working(k)) /\ (Closing(k)' => Closing(k))
  BY DEF Working, Closing
<1> QED
  BY <1>1 DEF Mild, WaitsOn, Identity

\* What run() makes of a record at its end is neither queued nor removed.
LEMMA FinalStates ==
  ASSUME NEW r \in Record, NEW err, NEW ab
  PROVE  /\ Published(r, err).state \notin {"queued", "absent"}
         /\ Caught(r, err, ab).state \notin {"queued", "absent"}
         /\ Evidenced(r, err, ab).state = r.state
         /\ Evidenced(Caught(r, err, ab), err, ab).state \notin {"queued", "absent"}
         /\ Evidenced([r EXCEPT !.audit = "unavailable"], err, ab).state = r.state
<1>1. /\ Evidenced(r, err, ab).state = r.state
      /\ Evidenced([r EXCEPT !.audit = "unavailable"], err, ab).state = r.state
      /\ Caught(r, err, ab).state \in {"cancelled", "failed"}
      /\ Evidenced(Caught(r, err, ab), err, ab).state \in {"cancelled", "failed"}
  BY DEF Evidenced, Caught, Record
<1>2. Published(r, err).state \in {"timed_out", "completed", "failed"}
  BY DEF Published, Record
<1> QED
  BY <1>1, <1>2

-----------------------------------------------------------------------------
(* The steps that leave the store alone, or only ask it for one operation   *)

\* Submissions, the executor, clients and the environment.
JobSteps(j, o, ok) ==
    \/ AttemptAudited(j, ok) \/ Refuse(j) \/ RefusalAudited(j, ok)
    \/ Spawn(j) \/ ExecutorRefuses(j) \/ TerminationFails(j) \/ QuarantineReleases(j)
    \/ ChildEnds(j, o) \/ Cancel(j)

QuietStep == \/ \E j \in Jobs, o \in Outcomes, ok \in BOOLEAN : JobSteps(j, o, ok)
             \/ Shutdown \/ Environment

\* A step that asks nothing of the store leaves it and the files alone,
LEMMA QuietFiles ==
  ASSUME QuietStep
  PROVE  FilesStay /\ phase = "up" /\ UNCHANGED <<storeQ, storeFailed>>
  BY DEF QuietStep, JobSteps, FilesStay, AttemptAudited, Refuse, RefusalAudited, Spawn,
     ExecutorRefuses, TerminationFails, QuarantineReleases, ChildEnds, Cancel, Shutdown,
     Environment, SyncStarts, SyncEnds, ModeChanges, SyncFrame, SubmissionFrame, RunFrame,
     process, records, store, identities

\* and it is mild.
LEMMA QuietMild ==
  ASSUME TypeOK, NEW k \in Jobs, Identity(k), QuietStep
  PROVE  Mild(k)
<1> SUFFICES ASSUME NEW j \in Jobs, NEW o \in Outcomes, NEW ok \in BOOLEAN,
                    JobSteps(j, o, ok) \/ Shutdown \/ Environment
             PROVE  Mild(k)
  <2>1. "none" \in Outcomes /\ TRUE \in BOOLEAN
    BY DEF Outcomes
  <2> QED
    BY <2>1 DEF QuietStep
<1>1. FilesStay /\ phase = "up" /\ UNCHANGED <<storeQ, storeFailed>>
  BY QuietFiles DEF QuietStep
<1>2. CASE AttemptAudited(j, ok) \/ Refuse(j) \/ RefusalAudited(j, ok)
  <2>1. UNCHANGED <<run, fin, spawned, rec, active, stopping>>
    BY <1>2 DEF AttemptAudited, Refuse, RefusalAudited, SubmissionFrame, process, records
  <2>2. CASE k # j
    <3>1. sub'[k] = sub[k]
      BY <1>2, <2>2 DEF AttemptAudited, Refuse, RefusalAudited, TypeOK, ProgramsType
    <3> QED
      BY <1>1, <2>1, <3>1, MildUntouched
  <2>3. CASE k = j
    <3>1. /\ sub[k] \in {"attempt", "recheck", "refusing", "failing"}
          /\ sub'[k] \in {"refused", "refusing", "recheck"}
          /\ sub'[k] \in Early => sub[k] \in Early
      BY <1>2, <2>3 DEF AttemptAudited, Refuse, RefusalAudited, TypeOK, ProgramsType, Early
    <3>2. (Working(k)' => Working(k)) /\ (Closing(k)' => Closing(k))
      BY <2>1 DEF Working, Closing
    <3> QED
      BY <1>1, <2>1, <3>1, <3>2 DEF Mild, WaitsOn, Pending, Identity
  <2> QED
    BY <1>1, <2>2, <2>3
<1>3. CASE \/ Spawn(j) \/ ExecutorRefuses(j) \/ TerminationFails(j)
           \/ QuarantineReleases(j) \/ ChildEnds(j, o)
  <2>1. UNCHANGED <<sub, fin, active, stopping>>
    BY <1>3 DEF Spawn, ExecutorRefuses, TerminationFails, QuarantineReleases, ChildEnds,
       RunFrame, process
  <2>2. CASE k # j
    <3>1. UNCHANGED <<run[k], spawned[k], rec[k]>>
      BY <1>3, <2>2 DEF Spawn, ExecutorRefuses, TerminationFails, QuarantineReleases,
         ChildEnds, TypeOK, ProgramsType, HistoryType, RecordsType
    <3> QED
      BY <1>1, <2>1, <3>1, MildUntouched
  <2>3. CASE k = j
    <3>1. /\ run'[k] = run[k] \/ /\ run[k] \in {"mode", "child"}
                                 /\ run'[k] \in {"child", "blocked", "failed", "completed"}
          /\ spawned'[k] = spawned[k] \/ run[k] = "mode"
          /\ rec'[k].state \in {rec[k].state, "finalizing"}
      BY <1>3, <2>3 DEF Spawn, ExecutorRefuses, TerminationFails, QuarantineReleases,
         ChildEnds, TypeOK, ProgramsType, HistoryType, RecordsType, Record
    <3>2. (Working(k)' => Working(k)) /\ (Closing(k)' => Closing(k))
      BY <2>1, <3>1 DEF Working, Closing
    <3> QED
      BY <1>1, <2>1, <3>1, <3>2 DEF Mild, WaitsOn, Identity
  <2> QED
    BY <1>1, <2>2, <2>3
<1>4. CASE Cancel(j)
  <2>1. UNCHANGED <<sub, run, active, spawned, stopping>>
    BY <1>4 DEF Cancel, process
  <2>2. j \in active /\ rec[k] \in Record /\ rec[j] \in Record
    BY <1>4 DEF Cancel, TypeOK, RecordsType
  <2>3. CASE k # j
    <3>1. fin'[k] = fin[k] /\ rec'[k] = rec[k]
      BY <1>4, <2>3 DEF Cancel, TypeOK, ProgramsType, RecordsType
    <3> QED
      BY <1>1, <2>1, <3>1, MildUntouched
  <2>4. CASE k = j
    <3>1. \/ /\ rec[k].state = "queued" /\ rec'[k].state = "cancelled"
             /\ fin'[k] = [fin[k] EXCEPT !["client"] = "audit"]
          \/ rec'[k].state = rec[k].state /\ fin'[k] = fin[k]
      <4>1. CASE /\ rec[j].state = "queued"
                 /\ rec' = [rec EXCEPT ![j].state = "cancelled"]
                 /\ fin' = [fin EXCEPT ![j]["client"] = "audit"]
        BY <2>2, <2>4, <4>1 DEF TypeOK, ProgramsType, RecordsType, Record
      <4>2. CASE rec' = [rec EXCEPT ![j].term = "requested"] /\ UNCHANGED fin
        BY <2>2, <2>4, <4>2 DEF TypeOK, RecordsType, Record
      <4> QED
        BY <1>4, <4>1, <4>2 DEF Cancel
    <3>2. \A c \in Closers : fin[k][c] = "save" => fin'[k][c] = "save"
      BY <3>1 DEF Identity, Closing, Closers, TypeOK, ProgramsType
    <3>3. fin'[k]["shutdown"] = fin[k]["shutdown"]
      BY <3>1 DEF Closers, TypeOK, ProgramsType
    <3>4. Closing(k)' => rec'[k].state # "queued"
      BY <3>1 DEF Identity, Closing
    <3>5. Working(k)' => Working(k)
      BY <2>1 DEF Working
    <3>6. rec'[k].state = "absent" => rec[k].state = "absent"
      BY <3>1
    <3> QED
      BY <1>1, <2>1, <2>2, <2>4, <3>2, <3>3, <3>4, <3>5, <3>6 DEF Mild, WaitsOn, Identity
  <2> QED
    BY <1>1, <2>3, <2>4
<1>5. CASE Shutdown
  <2>1. UNCHANGED <<sub, run, active, spawned>> /\ stopping' /\ ~stopping
    BY <1>5 DEF Shutdown
  <2>2. Working(k)' => Working(k)
    BY <2>1 DEF Working
  <2>3. CASE k \in Unstarted
    <3>1. /\ k \in active
          /\ rec'[k].state = "cancelled"
          /\ fin'[k] = [fin[k] EXCEPT !["shutdown"] = "audit"]
      BY <1>5, <2>3 DEF Shutdown, Unstarted, TypeOK, RecordsType, Record
    <3>2. \A c \in Closers : fin[k][c] = "save" => fin'[k][c] = "save"
      BY <2>1, <3>1 DEF Identity, Closers, TypeOK, ProgramsType
    <3> QED
      BY <1>1, <2>1, <2>2, <3>1, <3>2 DEF Mild, WaitsOn
  <2>4. CASE k \notin Unstarted
    <3>1. fin'[k] = fin[k] /\ rec'[k] = rec[k]
      BY <1>5, <2>4 DEF Shutdown
    <3>2. Closing(k)' => Closing(k)
      BY <3>1 DEF Closing
    <3> QED
      BY <1>1, <2>1, <2>2, <3>1, <3>2 DEF Mild, WaitsOn, Identity
  <2> QED
    BY <1>1, <2>3, <2>4
<1>6. CASE Environment
  <2>1. UNCHANGED <<sub, run, fin, spawned, rec, active, stopping>>
    BY <1>6 DEF Environment, SyncStarts, SyncEnds, ModeChanges, SyncFrame, programs, records,
       process
  <2> QED
    BY <1>1, <2>1, MildUntouched
<1> QED
  BY <1>2, <1>3, <1>4, <1>5, <1>6 DEF JobSteps

\* The ends of run() and of finishQueued ask the store for their last save.
LEMMA LastMild ==
  ASSUME TypeOK, NEW j \in Jobs, NEW ok \in BOOLEAN, NEW c \in Closers,
         NEW k \in Jobs, Identity(k),
         \/ CompletionAudited(j, ok) \/ FailureAudited(j, ok) \/ OrphanAudited(j, ok)
         \/ FinishAudited(j, c, ok)
  PROVE  /\ Mild(k) /\ FilesStay /\ phase = "up" /\ storeFailed' = storeFailed
         /\ \E o \in Ops : /\ Op(j, o) \notin Awaits /\ Op(j, o) \in Awaits'
                           /\ storeQ' = Append(storeQ, Op(j, o))
<1> rec[k] \in Record /\ rec[j] \in Record /\ storeQ \in Seq(Tickets)
  BY DEF TypeOK, RecordsType, StoreType
<1>1. FilesStay /\ phase = "up" /\ UNCHANGED <<sub, storeFailed, stopping, spawned>>
  BY DEF FilesStay, CompletionAudited, FailureAudited, OrphanAudited, FinishAudited, Finalize,
     RunFrame, process, identities
<1>2. CASE CompletionAudited(j, ok) \/ FailureAudited(j, ok) \/ OrphanAudited(j, ok)
  <2>1. Finalize(j) /\ run[j] \in {"completed", "blocked", "failed", "orphan"}
    BY <1>2 DEF CompletionAudited, FailureAudited, OrphanAudited
  <2>2. UNCHANGED <<active, fin>> /\ storeQ' = Append(storeQ, Op(j, "final"))
    BY <2>1 DEF Finalize
  <2>3. Op(j, "final") \in Tickets
    BY OpType DEF Ops
  <2>4. Carries(storeQ', k) => Carries(storeQ, k) \/ k = j
    BY <2>2, <2>3, CarriesAppend DEF Op
  <2>5. run'[k] = IF k = j THEN "final" ELSE run[k]
    BY <2>1 DEF Finalize, TypeOK, ProgramsType
  <2>6. Closing(k)' => Closing(k)
    BY <2>2 DEF Closing
  <2>7. rec'[k].state \notin {"queued", "absent"} \/ rec'[k].state = rec[k].state
    <3>1. CASE k = j
      <4> DEFINE r == rec[k]
                 ab == k \in aborted
      <4>1. rec'[k] \in {Published(r, outcome[k]), Evidenced(r, "storage", ab),
                         Evidenced([r EXCEPT !.audit = "unavailable"], "storage", ab)}
                        \cup {Evidenced(Caught(r, err, ab), err, ab) :
                                 err \in {"audit", outcome[k]}}
        BY <1>2, <3>1 DEF CompletionAudited, FailureAudited, OrphanAudited, TypeOK, RecordsType
      <4>2. r \in Record
        OBVIOUS
      <4> HIDE DEF r, ab
      <4>3. rec'[k].state \notin {"queued", "absent"} \/ rec'[k].state = r.state
        BY <4>1, <4>2, FinalStates
      <4> QED
        BY <4>3 DEF r
    <3>2. CASE k # j
      BY <1>2, <3>2 DEF CompletionAudited, FailureAudited, OrphanAudited, TypeOK, RecordsType
    <3> QED
      BY <3>1, <3>2
  <2>8. k = j => Working(k)
    BY <2>1 DEF Working
  <2>9. Working(k)' => Working(k)
    BY <2>5, <2>8 DEF Working
  <2>10. Mild(k)
    BY <1>1, <2>1, <2>2, <2>4, <2>5, <2>6, <2>7, <2>8, <2>9 DEF Mild, WaitsOn, Identity
  <2>11. Op(j, "final") \notin Awaits /\ Op(j, "final") \in Awaits'
    <3>1. run'[j] = "final"
      BY <2>1 DEF Finalize, TypeOK, ProgramsType
    <3> QED
      BY <2>1, <2>3, <3>1 DEF Awaits, Op, Closers
  <2> QED
    BY <1>1, <2>2, <2>10, <2>11 DEF Ops
<1>3. CASE FinishAudited(j, c, ok)
  <2>1. /\ fin[j][c] = "audit" /\ fin' = [fin EXCEPT ![j][c] = "save"]
        /\ active' = active \ {j} /\ run' = run
        /\ storeQ' = Append(storeQ, Op(j, c))
    BY <1>3 DEF FinishAudited, Leaves
  <2>2. Op(j, c) \in Tickets
    BY OpType DEF Ops
  <2>3. Carries(storeQ', k) => Carries(storeQ, k) \/ k = j
    BY <2>1, <2>2, CarriesAppend DEF Op
  <2>4. /\ fin'[k] = IF k = j THEN [fin[k] EXCEPT ![c] = "save"] ELSE fin[k]
        /\ fin[k] \in [Closers -> {"idle", "audit", "save", "end"}]
    BY <2>1 DEF TypeOK, ProgramsType
  <2>5. rec'[k].state = rec[k].state
    <3>1. PICK a : rec' = [rec EXCEPT ![j].audit = a]
      BY <1>3 DEF FinishAudited
    <3> QED
      BY <3>1 DEF TypeOK, RecordsType, Record
  <2>6. k = j => Closing(k)
    BY <2>1 DEF Closing
  <2>7. Closing(k)' => Closing(k)
    BY <2>4, <2>6 DEF Closing
  <2>8. Working(k)' => Working(k)
    BY <2>1 DEF Working
  <2>9. fin'[k]["shutdown"] \in {"audit", "save"} => fin[k]["shutdown"] \in {"audit", "save"}
    BY <2>1, <2>4 DEF Closers
  <2>10. \A x \in Closers : fin[k][x] = "save" => fin'[k][x] = "save"
    BY <2>4
  <2>11. Mild(k)
    BY <1>1, <2>1, <2>3, <2>5, <2>6, <2>7, <2>8, <2>9, <2>10 DEF Mild, WaitsOn, Identity
  <2>12. Op(j, c) \notin Awaits /\ Op(j, c) \in Awaits'
    <3>1. fin'[j][c] = "save"
      BY <2>1 DEF TypeOK, ProgramsType
    <3> QED
      BY <2>1, <2>2, <3>1 DEF Awaits, Op, Closers
  <2> QED
    BY <1>1, <2>1, <2>11, <2>12 DEF Ops
<1> QED
  BY <1>2, <1>3

\* The invariant survives all of these.
LEMMA QuietKeeps == ASSUME TypeOK, RecoveryInv, QuietStep PROVE RecoveryInv'
<1>1. /\ \A k \in Jobs : Mild(k)
      /\ FilesStay /\ phase = "up" /\ UNCHANGED <<storeQ, storeFailed>>
  BY QuietFiles, QuietMild DEF RecoveryInv
<1>2. QueueInv'
  BY <1>1, QueueStays DEF Mild, FilesStay, RecoveryInv
<1>3. Waking' /\ \A k \in Jobs : Identity(k)' /\ Kept(k)'
  <2>1. Extends(storeQ)
    BY <1>1 DEF Extends
  <2> QED
    BY <1>1, <2>1, MildKeeps DEF RecoveryInv
<1> QED
  BY <1>2, <1>3 DEF RecoveryInv

\* The last entry of a command asks for its last write and disturbs nothing.
LEMMA LastKeeps ==
  ASSUME TypeOK, RecoveryInv, NEW j \in Jobs, NEW ok \in BOOLEAN, NEW c \in Closers,
         \/ CompletionAudited(j, ok) \/ FailureAudited(j, ok) \/ OrphanAudited(j, ok)
         \/ FinishAudited(j, c, ok)
  PROVE  RecoveryInv'
<1>1. /\ \A k \in Jobs : Mild(k)
      /\ FilesStay /\ phase = "up" /\ UNCHANGED storeFailed
  BY LastMild DEF RecoveryInv
<1>2. PICK o \in Ops : /\ Op(j, o) \notin Awaits /\ Op(j, o) \in Awaits'
                       /\ storeQ' = Append(storeQ, Op(j, o))
  BY LastMild DEF RecoveryInv
<1>3. QueueInv'
  BY <1>1, <1>2, QueueTakesOne, OpType DEF Mild, FilesStay, RecoveryInv
<1>4. Waking' /\ \A k \in Jobs : Identity(k)' /\ Kept(k)'
  <2>1. Op(j, o) \in Tickets
    BY OpType
  <2>2. Extends(storeQ)
    BY <1>2, <2>1, AppendProperties DEF Extends, TypeOK, StoreType
  <2> QED
    BY <1>1, <2>2, MildKeeps DEF RecoveryInv
<1> QED
  BY <1>3, <1>4 DEF RecoveryInv

-----------------------------------------------------------------------------
(* The steps that bring a job into memory, and the life of the process      *)

\* A submission draws a job ID of which nothing is left, for a request of
\* which nothing is left either.
LEMMA SubmitKeeps ==
  ASSUME TypeOK, RecoveryInv, NEW j \in Jobs, NEW r \in Requests, Submit(j, r)
  PROVE  RecoveryInv'
<1>1. /\ UNCHANGED <<phase, fault, known, disk, forgotten, head, snap, storeFailed, storeQ,
                     active, run, fin, rec, spawned, stopping>>
      /\ phase = "up" /\ ~fault /\ req[j] = NoRequest /\ r # NoRequest
      /\ \A k \in Jobs : req[k] = r => sub[k] \notin Pending /\ k \notin known
  BY BackgroundJobsAssumption DEF Submit, Duplicate, process, records, store
<1>2. ASSUME NEW k \in Jobs
      PROVE  /\ sub'[k] = IF k = j THEN "attempt" ELSE sub[k]
             /\ req'[k] = IF k = j THEN r ELSE req[k]
  BY DEF Submit, TypeOK, ProgramsType, HistoryType
<1>3. ~Present(j)
  BY <1>1 DEF RecoveryInv, Identity
<1>4. \A k \in Jobs : (Working(k)' <=> Working(k)) /\ (Closing(k)' <=> Closing(k))
  BY <1>1 DEF Working, Closing
<1>5. \A k \in Jobs : InMemory(k)' <=> InMemory(k)
  <2>1. ASSUME NEW k \in Jobs PROVE sub'[k] = "save" <=> sub[k] = "save"
    BY <1>2, <1>3 DEF Present, Pending
  <2> QED
    BY <1>1, <1>4, <2>1 DEF InMemory
<1>6. \A k \in Jobs : /\ Touched(k)' <=> Touched(k)
                      /\ Present(k)' <=> Present(k) \/ k = j
  BY <1>1, <1>2, <1>5 DEF Touched, Present, Pending
<1>7. ASSUME NEW k \in Jobs, req[k] = r PROVE ~Present(k)
  BY <1>1, <1>7 DEF RecoveryInv, Identity, Present
<1>8. ASSUME NEW k \in Jobs PROVE Identity(k)' /\ Kept(k)'
  <2>1. Identity(k) /\ Kept(k)
    BY DEF RecoveryInv
  <2>2. \A i \in Jobs : i # k /\ req'[i] = req'[k] /\ Present(i)' => ~Present(k)'
    BY <1>2, <1>6, <1>7, <2>1 DEF Identity
  <2>3. Present(k)' => req'[k] # NoRequest
    BY <1>1, <1>2, <1>6, <2>1 DEF Identity
  <2>4. sub'[k] \in Early => ~Touched(k)'
    BY <1>2, <1>3, <1>6, <2>1 DEF Identity, Present
  <2>5. sub'[k] = "failing" => fault'
    BY <1>1, <1>2, <2>1 DEF Identity
  <2> QED
    BY <1>1, <1>4, <1>5, <1>6, <2>1, <2>2, <2>3, <2>4, <2>5 DEF Identity, Kept
<1>9. QueueInv'
  <2>1. \A k \in Jobs : WaitsOn(k)
    BY <1>1, <1>2, <1>3 DEF WaitsOn, Present, Pending
  <2> QED
    BY <1>1, <2>1, QueueStays DEF RecoveryInv
<1> QED
  BY <1>1, <1>8, <1>9 DEF RecoveryInv, Waking

\* An admission brings the job into memory with a queued record.
LEMMA AdmitKeeps ==
  ASSUME TypeOK, RecoveryInv, NEW j \in Jobs, Admit(j) PROVE RecoveryInv'
<1>1. /\ UNCHANGED <<phase, fault, disk, forgotten, head, snap, storeFailed, run, fin,
                     spawned, stopping, req>>
      /\ phase = "up" /\ sub[j] = "recheck"
      /\ known' = known \cup {j} /\ active' = active \cup {j}
      /\ storeQ' = Append(storeQ, Op(j, "accept"))
  BY DEF Admit, SubmissionFrame, process, identities
<1>2. Op(j, "accept") \in Tickets
  BY OpType DEF Ops
<1>3. ASSUME NEW k \in Jobs
      PROVE  /\ sub'[k] = IF k = j THEN "save" ELSE sub[k]
             /\ rec'[k] = IF k = j THEN NewRecord ELSE rec[k]
  BY DEF Admit, TypeOK, ProgramsType, RecordsType
<1>4. Present(j) /\ ~Touched(j)
  BY <1>1 DEF RecoveryInv, Identity, Present, Pending, Early
<1>5. \A k \in Jobs : (Working(k)' <=> Working(k)) /\ (Closing(k)' <=> Closing(k))
  BY <1>1 DEF Working, Closing
<1>6. ASSUME NEW k \in Jobs PROVE InMemory(k)' => InMemory(k) \/ k = j
  <2>1. Carries(storeQ', k) => Carries(storeQ, k) \/ k = j
    BY <1>1, <1>2, CarriesAppend DEF Op, TypeOK, StoreType
  <2> QED
    BY <1>1, <1>3, <1>5, <2>1 DEF InMemory
<1>7. \A k \in Jobs : /\ Touched(k)' => Touched(k) \/ k = j
                      /\ Present(k)' => Present(k)
  BY <1>1, <1>3, <1>4, <1>6 DEF Touched, Present
<1>8. ASSUME NEW k \in Jobs PROVE Identity(k)' /\ Kept(k)'
  <2>1. Identity(k) /\ Kept(k)
    BY DEF RecoveryInv
  <2>2. NewRecord.state = "queued"
    BY DEF NewRecord, NoRecord
  <2>3. Closing(k)' => rec'[k].state # "queued"
    BY <1>3, <1>4, <1>5, <2>1 DEF Identity, Touched, InMemory
  <2>4. InMemory(k)' => rec'[k].state # "absent"
    BY <1>3, <1>6, <2>1, <2>2 DEF Identity
  <2>5. /\ phase' = "up" /\ ~fault' /\ Touched(k)' => k \in known'
        /\ sub'[k] \in Early => ~Touched(k)'
        /\ sub'[k] = "failing" => fault'
        /\ ~stopping' => fin'[k]["shutdown"] \notin {"audit", "save"}
    BY <1>1, <1>3, <1>7, <2>1 DEF Identity, Early
  <2>6. /\ Present(k)' => req'[k] # NoRequest
        /\ \A i \in Jobs : i # k /\ req'[i] = req'[k] /\ Present(i)' => ~Present(k)'
    BY <1>1, <1>7, <2>1 DEF Identity
  <2> QED
    BY <1>1, <2>1, <2>3, <2>4, <2>5, <2>6 DEF Identity, Kept
<1>9. QueueInv'
  <2>1. \A k \in Jobs : WaitsOn(k)
    BY <1>1, <1>3 DEF WaitsOn
  <2>2. Op(j, "accept") \notin Awaits /\ Op(j, "accept") \in Awaits'
    BY <1>1, <1>2, <1>3 DEF Awaits, Op, Closers
  <2> QED
    BY <1>1, <1>2, <2>1, <2>2, QueueTakesOne DEF RecoveryInv
<1>10. Waking'
  <2>1. Extends(storeQ)
    BY <1>1, <1>2, AppendProperties DEF Extends, TypeOK, StoreType
  <2> QED
    BY <1>1, <2>1, HeadStays DEF RecoveryInv, Waking
<1> QED
  BY <1>8, <1>9, <1>10 DEF RecoveryInv

\* A cleanup joins the queue for no job in particular.
LEMMA CleanupKeeps == ASSUME TypeOK, RecoveryInv, PumpCleans PROVE RecoveryInv'
<1>1. /\ FilesStay /\ phase = "up"
      /\ UNCHANGED <<storeFailed, sub, run, fin, spawned, rec, active, stopping>>
  BY DEF PumpCleans, FilesStay, process, records, identities
<1>2. PICK j \in Jobs : storeQ' = Append(storeQ, Op(j, "cleanup"))
  <2>1. Aged \subseteq Jobs
    BY DEF Aged, TypeOK, RecordsType
  <2> QED
    BY <2>1 DEF PumpCleans
<1> DEFINE t == Op(j, "cleanup")
<1>3. t \in Tickets /\ t.op = "cleanup" /\ t \in Awaits'
  <2>1. t \in Tickets
    BY OpType DEF Ops
  <2> QED
    BY <2>1 DEF Op, Awaits, Closers
<1>4. ASSUME NEW k \in Jobs PROVE Carries(storeQ', k) => Carries(storeQ, k)
  <2>1. storeQ \in Seq(Tickets)
    BY DEF TypeOK, StoreType
  <2>2. /\ Len(storeQ) \in Nat /\ Len(storeQ') = Len(storeQ) + 1
        /\ storeQ'[Len(storeQ) + 1] = t
        /\ \A i \in 1 .. Len(storeQ) : storeQ'[i] = storeQ[i]
    BY <1>2, <1>3, <2>1, AppendProperties, LenProperties
  <2>3. \A i \in 1 .. Len(storeQ') : i \in 1 .. Len(storeQ) \/ i = Len(storeQ) + 1
    BY <2>2
  <2> HIDE DEF t
  <2> QED
    BY <1>3, <2>2, <2>3 DEF Carries
<1> HIDE DEF t
<1>5. \A k \in Jobs : Mild(k)
  BY <1>1, <1>4, MildUntouched DEF RecoveryInv
<1>6. QueueInv'
  BY <1>1, <1>2, <1>3, <1>5, QueueTakesOne DEF Mild, FilesStay, RecoveryInv, t
<1>7. Extends(storeQ)
  BY <1>2, <1>3, AppendProperties DEF Extends, TypeOK, StoreType, t
<1> QED
  BY <1>1, <1>5, <1>6, <1>7, MildKeeps DEF RecoveryInv

\* The process is gone: only what is on disk is left.
LEMMA StopKeeps == ASSUME TypeOK, RecoveryInv, Stop PROVE RecoveryInv'
<1>1. UNCHANGED <<disk, forgotten, req, spawned>> /\ storeQ' = <<>> /\ head' = "idle"
  BY DEF Stop, identities
<1>2. Len(storeQ') = 0 /\ \A k \in Jobs : ~Carries(storeQ', k)
  BY <1>1 DEF Carries
<1>3. \A k \in Jobs : ~Working(k)' /\ ~Closing(k)'
  BY DEF Stop, Working, Closing, Closers
<1>4. \A k \in Jobs : ~InMemory(k)' /\ sub'[k] = "idle" /\ run'[k] = "idle"
                      /\ fin'[k]["shutdown"] = "idle"
  BY <1>2, <1>3 DEF Stop, InMemory, Closers
<1>5. \A k \in Jobs : (Present(k)' => Present(k)) /\ (Touched(k)' => Touched(k))
  BY <1>1, <1>4 DEF Present, Touched, Pending
<1>6. phase' = "down"
  BY DEF Stop
<1>7. ASSUME NEW k \in Jobs PROVE Identity(k)' /\ Kept(k)'
  <2>1. Identity(k) /\ Kept(k)
    BY DEF RecoveryInv
  <2>2. \A i \in Jobs : i # k /\ req'[i] = req'[k] /\ Present(i)' => ~Present(k)'
    BY <1>1, <1>5, <2>1 DEF Identity
  <2> QED
    BY <1>1, <1>3, <1>4, <1>5, <1>6, <2>1, <2>2 DEF Identity, Kept, Early
<1>8. QueueInv'
  BY <1>1, <1>2 DEF QueueInv, Sound, First
<1>9. Waking'
  BY <1>3, <1>4 DEF Stop, Waking, Asleep
<1> QED
  BY <1>7, <1>8, <1>9 DEF RecoveryInv

\* Restart and stuttering leave everything as it is.
LEMMA RestartKeeps ==
  ASSUME TypeOK, RecoveryInv, Restart \/ UNCHANGED vars PROVE RecoveryInv'
<1>1. UNCHANGED <<fault, known, disk, forgotten, head, snap, storeFailed, storeQ, active, sub,
                  run, fin, rec, spawned, stopping, req>>
  <2>1. CASE Restart
    BY <2>1 DEF Restart, records, programs, store, identities
  <2>2. CASE UNCHANGED vars
    BY <2>2 DEF vars, process, records, programs, store, identities
  <2> QED
    BY <2>1, <2>2
<1>2. \/ phase' = phase
      \/ phase = "down" /\ phase' = "boot"
  <2>1. CASE Restart
    BY <2>1 DEF Restart
  <2>2. CASE UNCHANGED vars
    <3>1. process' = process
      BY <2>2 DEF vars
    <3> QED
      BY <3>1 DEF process
  <2> QED
    BY <2>1, <2>2
<1>3. \A k \in Jobs : /\ Working(k)' <=> Working(k)
                      /\ Closing(k)' <=> Closing(k)
                      /\ InMemory(k)' <=> InMemory(k)
                      /\ Touched(k)' <=> Touched(k)
                      /\ Present(k)' <=> Present(k)
  BY <1>1 DEF Working, Closing, InMemory, Touched, Present
<1>4. ASSUME NEW k \in Jobs PROVE Identity(k)' /\ Kept(k)'
  <2>1. Identity(k) /\ Kept(k)
    BY DEF RecoveryInv
  <2> QED
    BY <1>1, <1>2, <1>3, <2>1 DEF Identity, Kept
<1>5. QueueInv'
  <2>1. \A k \in Jobs : WaitsOn(k)
    BY <1>1 DEF WaitsOn
  <2> QED
    BY <1>1, <2>1, QueueStays DEF RecoveryInv
<1>6. Waking'
  BY <1>1, <1>2, <1>3 DEF RecoveryInv, Waking, Asleep
<1> QED
  BY <1>4, <1>5, <1>6 DEF RecoveryInv

\* While the service starts, memory holds nothing but records it has read.
LEMMA BootReadsKeeps ==
  ASSUME TypeOK, RecoveryInv, NEW j \in Jobs, BootReads(j) PROVE RecoveryInv'
<1>1. /\ UNCHANGED <<phase, fault, forgotten, head, snap, storeFailed, storeQ, active, sub,
                     run, fin, spawned, stopping, req>>
      /\ phase = "boot" /\ known' = known \cup {j} /\ disk[j].state # "absent"
  BY DEF BootReads, BootFrame, OnDisk, programs, identities
<1>2. ASSUME NEW k \in Jobs
      PROVE  /\ k = j => rec'[k].state # "absent" /\ disk'[k].state # "absent"
             /\ k # j => rec'[k] = rec[k] /\ disk'[k] = disk[k]
  BY <1>1 DEF BootReads, Interrupted, TypeOK, RecordsType
<1>3. \A k \in Jobs : (Working(k)' <=> Working(k)) /\ (Closing(k)' <=> Closing(k))
  BY <1>1 DEF Working, Closing
<1>4. \A k \in Jobs : InMemory(k)' => InMemory(k) \/ k = j
  BY <1>1, <1>3 DEF InMemory
<1>5. \A k \in Jobs : (Touched(k)' <=> Touched(k)) /\ (Present(k)' <=> Present(k))
  <2>1. \A k \in Jobs : InMemory(k) => InMemory(k)'
    BY <1>1, <1>3 DEF InMemory
  <2> QED
    BY <1>1, <1>2, <1>4, <2>1 DEF Touched, Present
<1>6. Asleep /\ Asleep'
  <2>1. Asleep
    BY <1>1 DEF RecoveryInv, Waking
  <2> QED
    BY <1>1, <1>3, <2>1 DEF Asleep
<1>7. ASSUME NEW k \in Jobs PROVE Identity(k)' /\ Kept(k)'
  <2>1. Identity(k) /\ Kept(k) /\ ~Closing(k) /\ sub[k] = "idle"
    BY <1>6 DEF RecoveryInv, Asleep
  <2>2. \A i \in Jobs : i # k /\ req'[i] = req'[k] /\ Present(i)' => ~Present(k)'
    BY <1>1, <1>5, <2>1 DEF Identity
  <2> QED
    BY <1>1, <1>2, <1>3, <1>4, <1>5, <2>1, <2>2 DEF Identity, Kept, Early
<1>8. QueueInv'
  <2>1. \A k \in Jobs : WaitsOn(k)
    BY <1>1 DEF WaitsOn
  <2> QED
    BY <1>1, <2>1, QueueStays DEF RecoveryInv
<1> QED
  BY <1>1, <1>6, <1>7, <1>8 DEF RecoveryInv, Waking

\* The service opens knowing every record that is on disk.
LEMMA BootCompletesKeeps == ASSUME TypeOK, RecoveryInv, BootCompletes PROVE RecoveryInv'
<1>1. /\ UNCHANGED <<fault, head, snap, storeFailed, storeQ, active, sub, run, fin, rec,
                     spawned, stopping, req>>
      /\ phase = "boot" /\ phase' = "up"
      /\ \A k \in Jobs : disk[k].state # "absent" => k \in known
  BY DEF BootCompletes, BootFrame, OnDisk, programs, identities
<1>2. PICK gone : /\ disk' = Without(gone) /\ known' = known \ gone
                  /\ forgotten' = forgotten \cup gone
  BY DEF BootCompletes
<1>3. \A k \in Jobs : /\ k \in gone => disk'[k].state = "absent"
                      /\ k \notin gone => disk'[k] = disk[k]
  BY <1>2 DEF Without, NoRecord
<1>4. Asleep
  BY <1>1 DEF RecoveryInv, Waking
<1>5. \A k \in Jobs : (Working(k)' <=> Working(k)) /\ (Closing(k)' <=> Closing(k))
  BY <1>1 DEF Working, Closing
<1>6. \A k \in Jobs : /\ InMemory(k)' => InMemory(k)
                      /\ Touched(k)' => Touched(k)
                      /\ Present(k)' => Present(k)
  BY <1>1, <1>2, <1>3, <1>5 DEF InMemory, Touched, Present
<1>7. \A k \in Jobs : ~Carries(storeQ, k)
  BY <1>4 DEF Asleep, Carries
<1>8. ASSUME NEW k \in Jobs PROVE Identity(k)' /\ Kept(k)'
  <2>1. Identity(k) /\ Kept(k) /\ ~Closing(k) /\ ~Working(k) /\ sub[k] = "idle"
        /\ k \notin active
    BY <1>4 DEF RecoveryInv, Asleep
  <2>2. \A i \in Jobs : i # k /\ req'[i] = req'[k] /\ Present(i)' => ~Present(k)'
    BY <1>1, <1>6, <2>1 DEF Identity
  <2>3. Touched(k)' => k \in known'
    BY <1>1, <1>2, <1>3, <1>5, <1>7, <2>1 DEF Touched, InMemory
  <2>4. Kept(k)'
    BY <1>1, <1>2, <1>3, <2>1 DEF Kept, Working
  <2> QED
    BY <1>1, <1>5, <1>6, <2>1, <2>2, <2>3, <2>4 DEF Identity, Early
<1>9. QueueInv'
  <2>1. \A k \in Jobs : WaitsOn(k)
    BY <1>1 DEF WaitsOn
  <2> QED
    BY <1>1, <2>1, QueueStays DEF RecoveryInv
<1> QED
  BY <1>1, <1>4, <1>8, <1>9 DEF RecoveryInv, Waking, Asleep

-----------------------------------------------------------------------------
(* One pass of the pump                                                     *)

\* What a pass does to job k, and to the queue q it goes on from.
Passed(k, q) ==
    /\ run[k] \in {"starting", "running", "final"} => run'[k] = run[k]
    /\ \A c \in Closers : fin[k][c] = "save" => fin'[k][c] = "save"
    /\ Working(k)' => Working(k) \/ k \in active
    /\ Closing(k)' => Closing(k) \/ k \in active
    /\ Carries(storeQ', k) => Carries(q, k) \/ k \in active
    /\ rec'[k].state = "absent" => rec[k].state = "absent"
    /\ Closing(k)' => rec'[k].state # "queued"
    /\ fin'[k]["shutdown"] = fin[k]["shutdown"]
    /\ run'[k] \in {"running", "mode", "child"} => run'[k] = run[k]

\* A pass that changes nothing.
LEMMA PassedNothing ==
  ASSUME NEW k \in Jobs, NEW q, Identity(k),
         UNCHANGED <<run[k], fin[k], rec[k]>>, Carries(storeQ', k) => Carries(q, k)
  PROVE  Passed(k, q)
<1>1. (Working(k)' => Working(k)) /\ (Closing(k)' => Closing(k))
  BY DEF Working, Closing
<1> QED
  BY <1>1 DEF Passed, Identity

\* A pass starts queued jobs, and adds their starts to the queue.
LEMMA PassStarts ==
  ASSUME TypeOK, StartInv, NEW q \in Seq(Tickets), PumpStarts(q)
  PROVE  /\ \A k \in Jobs : Identity(k) => Passed(k, q)
         /\ Extends(q)
         /\ \A n \in {1, 2}, W \in SUBSET Awaits :
               Sound(q, n, W) /\ W \subseteq Awaits' => Sound(storeQ', n, Awaits')
<1>1. PICK m, first, S : Started(q, m, first, S)
  BY PumpStartsShape
<1>2. /\ m \in Nat /\ first \in [1 .. m -> Queued] /\ S = {first[i] : i \in 1 .. m}
      /\ \A i, k \in 1 .. m : i < k => rank[first[i]] < rank[first[k]]
      /\ storeQ' = q \o [i \in 1 .. m |-> Op(first[i], "starting")] /\ fin' = fin
  BY <1>1 DEF Started
<1>3. /\ \A k \in S : rec[k].state = "queued" /\ k \in active /\ k \in Jobs
      /\ \A i \in 1 .. m : first[i] \in S
  BY <1>2, QueuedFinite DEF Queued
<1> DEFINE f == [i \in 1 .. m |-> Op(first[i], "starting")]
<1>4. f \in [1 .. m -> Tickets]
  BY <1>2, <1>3, OpType DEF Ops
<1>5. \A i \in 1 .. m : /\ f[i] = Op(first[i], "starting")
                        /\ f[i].job = first[i]
  BY DEF Op
<1>6. \A k \in S : run[k] = "idle" /\ run'[k] = "starting" /\ rec'[k].state = "starting"
  <2> SUFFICES ASSUME NEW k \in S
               PROVE  run[k] = "idle" /\ run'[k] = "starting" /\ rec'[k].state = "starting"
    OBVIOUS
  <2>1. JobInv(k) /\ rec[k] \in Record
    BY <1>3 DEF StartInv, TypeOK, RecordsType
  <2>2. run[k] = "idle"
    BY <1>3, <2>1 DEF JobInv, Unused
  <2>3. run'[k] = "starting" /\ rec'[k] = [rec[k] EXCEPT !.state = "starting"]
    BY <1>1, <1>3 DEF Started
  <2> QED
    BY <2>1, <2>2, <2>3 DEF Record
<1>7. \A k \in Jobs \ S : run'[k] = run[k] /\ rec'[k] = rec[k]
  BY <1>1 DEF Started
<1> HIDE DEF f
<1>8. ASSUME NEW k \in Jobs, Identity(k) PROVE Passed(k, q)
  <2>1. Carries(storeQ', k) => Carries(q, k) \/ k \in S
    <3>1. Carries(q \o f, k) => Carries(q, k) \/ \E i \in 1 .. m : f[i].job = k
      BY <1>2, <1>4, CarriesConcat
    <3> QED
      BY <1>2, <1>3, <1>5, <3>1 DEF f
  <2>2. CASE k \in S
    <3>1. Closing(k)' => Closing(k)
      BY <1>2 DEF Closing
    <3> QED
      BY <1>2, <1>3, <1>6, <2>2, <3>1 DEF Passed
  <2>3. CASE k \notin S
    BY <1>2, <1>7, <1>8, <2>1, <2>3, PassedNothing
  <2> QED
    BY <2>2, <2>3
<1>9. Extends(q)
  <2>1. /\ Len(q) \in Nat
        /\ \A i \in 1 .. Len(q) + m : (q \o f)[i] = IF i <= Len(q) THEN q[i] ELSE f[i - Len(q)]
    BY <1>2, <1>4, ConcatElements
  <2>2. \A i \in 1 .. Len(q) : i \in 1 .. Len(q) + m /\ i <= Len(q)
    BY <1>2, <2>1
  <2> QED
    BY <1>2, <2>1, <2>2 DEF Extends, f
<1>10. ASSUME NEW n \in {1, 2}, NEW W \in SUBSET Awaits, Sound(q, n, W), W \subseteq Awaits'
       PROVE  Sound(storeQ', n, Awaits')
  <2>1. \A i \in 1 .. m : f[i] \notin W /\ f[i] \in Awaits'
    <3> SUFFICES ASSUME NEW i \in 1 .. m PROVE f[i] \notin Awaits /\ f[i] \in Awaits'
      BY <1>10
    <3>1. run[first[i]] = "idle" /\ run'[first[i]] = "starting"
      BY <1>3, <1>6
    <3>2. f[i] \in Tickets /\ f[i].op = "starting" /\ f[i].job = first[i]
      BY <1>4, <1>5 DEF Op
    <3> QED
      BY <3>1, <3>2 DEF Awaits, Closers
  <2>2. ASSUME NEW i \in 1 .. m, NEW k \in 1 .. m, f[i] = f[k] PROVE i = k
    <3>1. first[i] = first[k]
      BY <1>5, <2>2
    <3>2. first[i] \in Jobs /\ rank[first[i]] \in Nat
      BY <1>3 DEF TypeOK, RecordsType
    <3>3. ~(i < k) /\ ~(k < i)
      <4> DEFINE x == rank[first[i]]
                 y == rank[first[k]]
      <4>1. (i < k => x < y) /\ (k < i => y < x)
        BY <1>2
      <4>2. x = y /\ x \in Nat
        BY <3>1, <3>2
      <4> HIDE DEF x, y
      <4> QED
        BY <4>1, <4>2
    <3> QED
      BY <1>2, <2>2, <3>3
  <2>3. Sound(q \o f, n, Awaits')
    BY <1>2, <1>4, <1>10, <2>1, <2>2, SoundConcat
  <2> QED
    BY <1>2, <2>3 DEF f
<1> QED
  BY <1>8, <1>9, <1>10

\* So does a pass that expires a job, or that has nothing to do.
LEMMA PassEffect ==
  ASSUME TypeOK, StartInv, NEW q \in Seq(Tickets), PumpPass(q)
  PROVE  /\ \A k \in Jobs : Identity(k) => Passed(k, q)
         /\ Extends(q)
         /\ \A n \in {1, 2}, W \in SUBSET Awaits :
               Sound(q, n, W) /\ W \subseteq Awaits' => Sound(storeQ', n, Awaits')
<1>1. CASE PumpStarts(q)
  BY <1>1, PassStarts
<1>2. CASE storeQ' = q
  <2>1. \A n \in {1, 2}, W \in SUBSET Awaits :
           Sound(q, n, W) /\ W \subseteq Awaits' => Sound(storeQ', n, Awaits')
    BY <1>2, SoundGrows
  <2>2. Extends(q)
    BY <1>2 DEF Extends
  <2>3. ASSUME NEW k \in Jobs, Identity(k), PumpExpires(q) PROVE Passed(k, q)
    <3>1. PICK j \in Least(rank, Queued) :
             /\ rec' = [rec EXCEPT ![j].state = "failed"]
             /\ fin' = [fin EXCEPT ![j]["pump"] = "audit"]
      BY <2>3 DEF PumpExpires
    <3>2. j \in Jobs /\ j \in active /\ rec[j].state = "queued" /\ run' = run
      BY <2>3, QueuedFinite DEF Least, Queued, PumpExpires
    <3>3. CASE k = j
      <4>1. rec'[k].state = "failed" /\ fin'[k] = [fin[k] EXCEPT !["pump"] = "audit"]
        BY <3>1, <3>2, <3>3 DEF TypeOK, RecordsType, ProgramsType, Record
      <4>2. \A c \in Closers : fin[k][c] = "save" => fin'[k][c] = "save"
        BY <2>3, <3>2, <3>3 DEF Identity, Closing
      <4>3. fin'[k]["shutdown"] = fin[k]["shutdown"]
        BY <4>1 DEF TypeOK, ProgramsType, Closers
      <4>4. Working(k)' => Working(k)
        BY <3>2 DEF Working
      <4> QED
        BY <1>2, <3>2, <3>3, <4>1, <4>2, <4>3, <4>4 DEF Passed
    <3>4. CASE k # j
      <4>1. rec'[k] = rec[k] /\ fin'[k] = fin[k]
        BY <3>1, <3>4 DEF TypeOK, RecordsType, ProgramsType
      <4> QED
        BY <1>2, <2>3, <3>2, <4>1, PassedNothing
    <3> QED
      BY <3>3, <3>4
  <2>4. ASSUME NEW k \in Jobs, Identity(k), UNCHANGED <<rec, slot, run, fin>>
        PROVE  Passed(k, q)
    BY <1>2, <2>4, PassedNothing
  <2>5. PumpStarts(q) \/ PumpExpires(q) \/ UNCHANGED <<rec, slot, run, fin>>
    BY DEF PumpPass
  <2> QED
    BY <1>1, <2>1, <2>2, <2>3, <2>4, <2>5
<1> QED
  BY <1>1, <1>2 DEF PumpPass, PumpExpires

\* A pass started by the timer or resumed keeps the invariant.
LEMMA PumpingKeeps ==
  ASSUME TypeOK, StartInv, RecoveryInv, Pump \/ PumpResumes PROVE RecoveryInv'
<1>1. /\ PumpPass(storeQ) /\ FilesStay /\ phase = "up"
      /\ UNCHANGED <<storeFailed, sub, active, spawned, stopping>>
  BY DEF Pump, PumpResumes, PumpFrame, FilesStay, process, identities
<1>2. storeQ \in Seq(Tickets)
  BY DEF TypeOK, StoreType
<1>3. \A k \in Jobs : Passed(k, storeQ)
  BY <1>1, <1>2, PassEffect DEF RecoveryInv
<1>4. ASSUME NEW k \in Jobs PROVE Mild(k)
  BY <1>1, <1>3 DEF Mild, Passed, WaitsOn, RecoveryInv, Identity
<1>5. QueueInv'
  <2>1. First \in {1, 2} /\ First' = First
    BY <1>1 DEF First, FilesStay
  <2>2. Awaits \subseteq Awaits'
    BY <1>4, AwaitsGrow DEF Mild
  <2>3. Sound(storeQ', First, Awaits')
    BY <1>1, <1>2, <2>1, <2>2, PassEffect DEF RecoveryInv, QueueInv
  <2> QED
    BY <1>1, <2>1, <2>3 DEF RecoveryInv, QueueInv, Sound, FilesStay
<1>6. Extends(storeQ)
  BY <1>1, <1>2, PassEffect
<1> QED
  BY <1>1, <1>4, <1>5, <1>6, MildKeeps DEF RecoveryInv

-----------------------------------------------------------------------------
(* The answer to a store operation                                          *)

\* Two operations of one job and one kind are the same.
LEMMA SameTicket ==
  ASSUME NEW t \in Tickets, NEW u \in Tickets, t.job = u.job, t.op = u.op PROVE t = u
  BY DEF Tickets

\* Everyone but the one who is answered goes on waiting.
LEMMA MinusAwaits ==
  ASSUME NEW t \in Tickets,
         \A k \in Jobs :
            /\ sub[k] = "save" /\ (k # t.job \/ t.op # "accept") => sub'[k] = "save"
            /\ run[k] \in {"starting", "running", "final"} /\ (k # t.job \/ t.op # run[k])
                  => run'[k] = run[k]
            /\ \A c \in Closers : fin[k][c] = "save" /\ (k # t.job \/ t.op # c)
                  => fin'[k][c] = "save"
  PROVE  Minus(Awaits, t) \subseteq Awaits' /\ Minus(Awaits, t) \subseteq Awaits
<1> SUFFICES ASSUME NEW u \in Minus(Awaits, t) PROVE u \in Awaits' /\ u \in Awaits
  OBVIOUS
<1>1. u \in Awaits /\ u \in Tickets /\ u.job \in Jobs /\ (u # t \/ t.op = "cleanup")
  BY DEF Minus, Awaits, Tickets
<1>2. u.op # "cleanup" => u.job # t.job \/ u.op # t.op
  BY <1>1, SameTicket
<1>3. u.op = "accept" => sub[u.job] = "save" /\ sub'[u.job] = "save"
  BY <1>1, <1>2 DEF Awaits
<1>4. u.op \in {"starting", "running", "final"} => run'[u.job] = u.op
  BY <1>1, <1>2 DEF Awaits
<1>5. u.op \in Closers => fin'[u.job][u.op] = "save"
  BY <1>1, <1>2 DEF Awaits, Closers
<1> QED
  BY <1>1, <1>3, <1>4, <1>5 DEF Awaits

\* What the answer does to job k, and to the queue q that is left.
Answered(k, t, ok, q) ==
    /\ k \in active' => k \in active
    /\ sub'[k] \in Pending => sub[k] \in Pending
    /\ sub'[k] = "save" => sub[k] = "save"
    /\ sub'[k] \in Early => sub[k] \in Early
    /\ sub'[k] = "failing" => sub[k] = "failing" \/ fault'
    /\ Working(k)' => Working(k) \/ k \in active
    /\ Closing(k)' => Closing(k) \/ k \in active
    /\ Carries(storeQ', k) => Carries(q, k) \/ Working(k) \/ k \in active
    /\ rec'[k].state = "absent" => rec[k].state = "absent"
    /\ Closing(k)' => rec'[k].state # "queued"
    /\ fin'[k]["shutdown"] \in {"audit", "save"} => fin[k]["shutdown"] \in {"audit", "save"}
    /\ run'[k] \in {"running", "mode", "child"} =>
          run[k] \in {"running", "mode", "child"} \/ (ok /\ k = t.job /\ t.op = "starting")

\* What it does to the queue.
LeftSound(t, q) ==
    /\ Extends(q)
    /\ \A n \in {1, 2} : Sound(q, n, Minus(Awaits, t)) => Sound(storeQ', n, Awaits')

\* An answer that does not touch a job, or only advances its program counter.
LEMMA AnsweredUntouched ==
  ASSUME NEW k \in Jobs, Identity(k), NEW t, NEW ok, NEW q, storeQ' = q,
         k \in active' => k \in active, UNCHANGED <<sub[k], run[k], fin[k], rec[k]>>
  PROVE  Answered(k, t, ok, q)
<1>1. (Working(k)' => Working(k)) /\ (Closing(k)' => Closing(k))
  BY DEF Working, Closing
<1> QED
  BY <1>1 DEF Answered, Identity

\* A queue that is left as it is.
LEMMA LeftAsItIs ==
  ASSUME NEW t \in Tickets, NEW q, storeQ' = q, Minus(Awaits, t) \subseteq Awaits'
  PROVE  LeftSound(t, q)
<1>1. Extends(q)
  BY DEF Extends
<1> QED
  BY <1>1, SoundGrows DEF LeftSound

\* The answer to an acceptance.
LEMMA AcceptAnswered ==
  ASSUME TypeOK, StartInv, NEW t \in Tickets, NEW ok \in BOOLEAN, NEW q \in Seq(Tickets),
         t.op = "accept", sub[t.job] = "save", AcceptSaved(t.job, ok, q),
         \A k \in Jobs : Identity(k)
  PROVE  /\ \A k \in Jobs : Answered(k, t, ok, q)
         /\ LeftSound(t, q) /\ (fault => fault') /\ (~ok => fault')
<1>1. t.job \in Jobs
  BY DEF Tickets
<1>2. ASSUME NEW k \in Jobs
      PROVE  sub'[k] = IF k = t.job THEN IF ok THEN "accepted" ELSE "failing" ELSE sub[k]
  BY <1>1 DEF AcceptSaved, TypeOK, ProgramsType
<1>3. (fault => fault') /\ (~ok => fault') /\ active' \subseteq active
  BY DEF AcceptSaved, Leaves
<1>4. CASE ok /\ MayPump
  <2>1. PumpPass(q)
    BY <1>4 DEF AcceptSaved, PumpNow
  <2>2. \A k \in Jobs : Passed(k, q)
    BY <2>1, PassEffect
  <2>3. ASSUME NEW k \in Jobs PROVE Answered(k, t, ok, q)
    <3>1. Passed(k, q)
      BY <2>2
    <3> QED
      BY <1>2, <1>3, <1>4, <3>1 DEF Answered, Passed, Pending, Early
  <2>4. LeftSound(t, q)
    <3>1. Extends(q) /\ \A n \in {1, 2}, W \in SUBSET Awaits :
             Sound(q, n, W) /\ W \subseteq Awaits' => Sound(storeQ', n, Awaits')
      BY <2>1, PassEffect
    <3>2. \A k \in Jobs : /\ run[k] \in {"starting", "running", "final"} => run'[k] = run[k]
                          /\ \A c \in Closers : fin[k][c] = "save" => fin'[k][c] = "save"
      BY <2>2 DEF Passed
    <3>3. Minus(Awaits, t) \subseteq Awaits' /\ Minus(Awaits, t) \subseteq Awaits
      BY <1>2, <3>2, MinusAwaits
    <3> QED
      BY <3>1, <3>3 DEF LeftSound
  <2> QED
    BY <1>3, <2>3, <2>4
<1>5. CASE ~(ok /\ MayPump)
  <2>1. storeQ' = q /\ UNCHANGED <<rec, run, fin>>
    BY <1>5 DEF AcceptSaved, PumpNow
  <2>2. LeftSound(t, q)
    <3>1. Minus(Awaits, t) \subseteq Awaits'
      BY <1>2, <2>1, MinusAwaits
    <3> QED
      BY <2>1, <3>1, LeftAsItIs
  <2>3. ASSUME NEW k \in Jobs PROVE Answered(k, t, ok, q)
    <3>1. (Working(k)' => Working(k)) /\ (Closing(k)' => Closing(k))
      BY <2>1 DEF Working, Closing
    <3> QED
      BY <1>2, <1>3, <2>1, <2>3, <3>1 DEF Answered, Identity, Pending, Early
  <2> QED
    BY <1>3, <2>2, <2>3
<1> QED
  BY <1>4, <1>5

\* The answer to one of run()'s first two saves.
LEMMA RunAnswered ==
  ASSUME TypeOK, NEW t \in Tickets, NEW ok \in BOOLEAN, NEW q \in Seq(Tickets),
         t.op \in {"starting", "running"}, run[t.job] = t.op, RunSaved(t.job, ok, q),
         \A k \in Jobs : Identity(k)
  PROVE  (\A k \in Jobs : Answered(k, t, ok, q)) /\ LeftSound(t, q) /\ (fault => fault')
<1> DEFINE j == t.job
<1>1. j \in Jobs /\ rec[j] \in Record /\ UNCHANGED <<sub, fault, active, fin>>
  BY DEF Tickets, RunSaved, TypeOK, RecordsType
<1>2. /\ run'[j] \in {"running", "mode", "orphan"}
      /\ run'[j] = "running" => ok /\ t.op = "starting" /\ storeQ' = Append(q, Op(j, "running"))
      /\ run'[j] = "mode" => t.op = "running"
      /\ run'[j] # "running" => storeQ' = q
      /\ \A k \in Jobs : k # j => run'[k] = run[k]
  BY <1>1 DEF RunSaved, After, TypeOK, ProgramsType
<1>3. /\ rec'[j].state \in {rec[j].state, "running", "cancelled", "failed"}
      /\ \A k \in Jobs : k # j => rec'[k] = rec[k]
  <2>1. rec' \in {rec, [rec EXCEPT ![j].state = "running"],
                  [rec EXCEPT ![j] = Caught(rec[j], "storage", j \in aborted)]}
    BY DEF RunSaved
  <2>2. Caught(rec[j], "storage", j \in aborted).state \in {"cancelled", "failed"}
    BY <1>1 DEF Caught, Record
  <2> QED
    BY <1>1, <2>1, <2>2 DEF Record, TypeOK, RecordsType
<1> HIDE DEF j
<1>4. Op(j, "running") \in Tickets /\ Op(j, "running").job = j
  BY <1>1, OpType DEF Ops, Op
<1>5. \A k \in Jobs : Carries(storeQ', k) => Carries(q, k) \/ k = j
  BY <1>2, <1>4, CarriesAppend
<1>6. Working(j)
  BY DEF Working, j
<1>7. ASSUME NEW k \in Jobs PROVE Answered(k, t, ok, q)
  <2>1. (Closing(k)' => Closing(k)) /\ (Working(k)' => Working(k))
    BY <1>1, <1>2, <1>6 DEF Closing, Working
  <2> QED
    BY <1>1, <1>2, <1>3, <1>5, <1>6, <2>1 DEF Answered, Identity, j
<1>8. LeftSound(t, q)
  <2>1. Minus(Awaits, t) \subseteq Awaits' /\ Minus(Awaits, t) \subseteq Awaits
    BY <1>1, <1>2, MinusAwaits DEF j
  <2>2. CASE storeQ' = q
    BY <2>1, <2>2, LeftAsItIs
  <2>3. CASE storeQ' = Append(q, Op(j, "running")) /\ run'[j] = "running" /\ run[j] = "starting"
    <3>1. Op(j, "running") \notin Awaits /\ Op(j, "running") \in Awaits'
      BY <1>4, <2>3 DEF Awaits, Op, Closers
    <3>2. ASSUME NEW n \in {1, 2}, Sound(q, n, Minus(Awaits, t)) PROVE Sound(storeQ', n, Awaits')
      <4>1. Sound(Append(q, Op(j, "running")), n, Awaits')
        BY <1>4, <2>1, <3>1, <3>2, SoundAppend
      <4> QED
        BY <2>3, <4>1
    <3>3. Extends(q)
      BY <1>4, <2>3, AppendProperties DEF Extends
    <3> QED
      BY <3>2, <3>3 DEF LeftSound
  <2> QED
    BY <1>2, <2>2, <2>3 DEF j
<1> QED
  BY <1>1, <1>7, <1>8

\* The answers to the last saves, and to a cleanup.
LEMMA OtherAnswered ==
  ASSUME TypeOK, NEW t \in Tickets, NEW ok \in BOOLEAN, NEW q \in Seq(Tickets),
         \/ t.op = "final" /\ run[t.job] = "final" /\ FinalSaved(t.job, ok, q)
         \/ t.op \in Closers /\ fin[t.job][t.op] = "save" /\ FinishSaved(t.job, t.op, ok, q)
         \/ t.op = "cleanup" /\ CleanupDone(ok, q),
         \A k \in Jobs : Identity(k)
  PROVE  (\A k \in Jobs : Answered(k, t, ok, q)) /\ LeftSound(t, q) /\ (fault => fault')
<1>1. t.job \in Jobs /\ storeQ' = q /\ sub' = sub /\ active' \subseteq active /\ (fault => fault')
  BY DEF Tickets, FinalSaved, FinishSaved, CleanupDone, Fail, Leaves
<1>2. ASSUME NEW k \in Jobs
      PROVE  /\ rec'[k].state = rec[k].state
             /\ run'[k] = run[k] \/ (k = t.job /\ t.op = "final" /\ run'[k] = "end")
  <2>1. rec[t.job] \in Record /\ rec[k] \in Record
    BY <1>1 DEF TypeOK, RecordsType
  <2>2. CASE t.op = "final" /\ FinalSaved(t.job, ok, q)
    <3>1. run'[k] = IF k = t.job THEN "end" ELSE run[k]
      BY <1>1, <2>2 DEF FinalSaved, TypeOK, ProgramsType
    <3>2. Withheld(rec[t.job]).state = rec[t.job].state
      BY <2>1 DEF Withheld, Record
    <3>3. rec' = rec \/ rec' = [rec EXCEPT ![t.job] = Withheld(rec[t.job])]
      BY <2>2 DEF FinalSaved
    <3>4. rec'[k].state = rec[k].state
      BY <1>1, <3>2, <3>3 DEF TypeOK, RecordsType
    <3> QED
      BY <2>2, <3>1, <3>4
  <2>3. CASE FinishSaved(t.job, t.op, ok, q) \/ CleanupDone(ok, q)
    BY <2>3 DEF FinishSaved, CleanupDone
  <2> QED
    BY <2>2, <2>3
<1>3. ASSUME NEW k \in Jobs, NEW c \in Closers
      PROVE  fin'[k][c] = fin[k][c] \/ (k = t.job /\ t.op = c /\ fin'[k][c] = "end")
  BY <1>1 DEF FinalSaved, FinishSaved, CleanupDone, TypeOK, ProgramsType
<1>4. ASSUME NEW k \in Jobs PROVE Answered(k, t, ok, q)
  <2>1. (Closing(k)' => Closing(k)) /\ (Working(k)' => Working(k))
    BY <1>2, <1>3 DEF Closing, Working
  <2>2. fin'[k]["shutdown"] \in {"audit", "save"} => fin[k]["shutdown"] \in {"audit", "save"}
    BY <1>3 DEF Closers
  <2> QED
    BY <1>1, <1>2, <2>1, <2>2 DEF Answered, Identity
<1>5. LeftSound(t, q)
  <2>1. t.op = "final" => run[t.job] = "final"
    BY DEF Closers
  <2>2. Minus(Awaits, t) \subseteq Awaits'
    BY <1>1, <1>2, <1>3, <2>1, MinusAwaits
  <2> QED
    BY <1>1, <2>2, LeftAsItIs
<1> QED
  BY <1>1, <1>4, <1>5

\* The answer to any operation.
LEMMA SettleAnswered ==
  ASSUME TypeOK, StartInv, NEW t \in Tickets, NEW ok \in BOOLEAN, NEW q \in Seq(Tickets),
         Settle(t, ok, q), \A k \in Jobs : Identity(k)
  PROVE  /\ \A k \in Jobs : Answered(k, t, ok, q)
         /\ LeftSound(t, q)
         /\ fault => fault'
         /\ ~ok /\ t.op = "accept" => fault'
         /\ UNCHANGED <<phase, stopping, req, spawned, attempted>>
<1>1. UNCHANGED <<phase, stopping, req, spawned, attempted>>
  BY DEF Settle, process, identities, audit
<1>2. CASE t.op = "accept" /\ sub[t.job] = "save" /\ AcceptSaved(t.job, ok, q)
  BY <1>1, <1>2, AcceptAnswered
<1>3. CASE t.op \in {"starting", "running"} /\ run[t.job] = t.op /\ RunSaved(t.job, ok, q)
  BY <1>1, <1>3, RunAnswered
<1>4. CASE \/ t.op = "final" /\ run[t.job] = "final" /\ FinalSaved(t.job, ok, q)
           \/ t.op \in Closers /\ fin[t.job][t.op] = "save" /\ FinishSaved(t.job, t.op, ok, q)
           \/ t.op = "cleanup" /\ CleanupDone(ok, q)
  <2>1. t.op # "accept"
    BY <1>4 DEF Closers
  <2> QED
    BY <1>1, <1>4, <2>1, OtherAnswered
<1> QED
  BY <1>2, <1>3, <1>4 DEF Settle

-----------------------------------------------------------------------------
(* The steps of the store                                                   *)

\* An aged record is all that is left of its job: nobody is working on it,
\* and no operation of it is in the queue.
LEMMA AgedAlone ==
  ASSUME TypeOK, QueueInv, NEW k \in Aged
  PROVE  /\ k \in Jobs /\ k \in known /\ k \notin active /\ sub[k] \notin Pending
         /\ ~Working(k) /\ ~Closing(k) /\ ~Carries(storeQ, k)
<1>1. /\ k \in known /\ k \notin active /\ sub[k] \notin Pending /\ run[k] \in {"idle", "end"}
      /\ \A c \in Closers : fin[k][c] \in {"idle", "end"}
      /\ ~storeFailed
  BY DEF Aged
<1>2. ~Working(k) /\ ~Closing(k)
  BY <1>1 DEF Working, Closing
<1>3. First = 1
  BY <1>1 DEF First, QueueInv
<1>4. ASSUME NEW i \in 1 .. Len(storeQ), storeQ[i].job = k, storeQ[i].op # "cleanup"
      PROVE  FALSE
  <2>1. storeQ[i] \in Awaits
    BY <1>3 DEF QueueInv, Sound
  <2>2. storeQ[i].op \in Ops \ {"cleanup"}
    BY <1>4, <2>1 DEF Awaits, Tickets
  <2>3. CASE storeQ[i].op = "accept"
    BY <1>1, <1>4, <2>1, <2>3 DEF Awaits, Pending
  <2>4. CASE storeQ[i].op \in {"starting", "running", "final"}
    BY <1>1, <1>4, <2>1, <2>4 DEF Awaits
  <2>5. CASE storeQ[i].op \in Closers
    BY <1>1, <1>4, <2>1, <2>5 DEF Awaits
  <2> QED
    BY <2>2, <2>3, <2>4, <2>5 DEF Ops
<1> QED
  BY <1>1, <1>2, <1>4 DEF Carries, TypeOK, RecordsType

\* What the operation t does to the files and to the map, removing gone.
Files(t, ok, gone) ==
    /\ gone \subseteq Aged
    /\ known' \subseteq known /\ \A k \in known \ known' : k \in gone \/ fault'
    /\ known' \cap gone = {}
    /\ forgotten' = forgotten \cup gone
    /\ \A k \in gone : disk'[k].state = "absent"
    /\ \A k \in Jobs \ gone :
          disk'[k] = disk[k] \/ (k = t.job /\ t.op # "cleanup" /\ disk'[k].state # "absent")
    /\ ok /\ t.op \in {"starting", "running"} => disk'[t.job].state # "absent"

\* The operation t is in the queue, and q is what is left of it.
Takes(t, q) ==
    /\ t \in Tickets /\ q \in Seq(Tickets)
    /\ t.op # "cleanup" => Carries(storeQ, t.job)
    /\ \A k \in Jobs : Carries(q, k) => Carries(storeQ, k)

\* An operation that is answered, or ends late, keeps identities and files.
LEMMA FilesKeep ==
  ASSUME TypeOK, RecoveryInv, NEW t, NEW ok \in BOOLEAN, NEW q, NEW gone,
         phase = "up", Takes(t, q), Files(t, ok, gone),
         \A k \in Jobs : Answered(k, t, ok, q), fault => fault',
         UNCHANGED <<phase, stopping, req, spawned>>
  PROVE  \A k \in Jobs : Identity(k)' /\ Kept(k)'
<1>1. ASSUME NEW k \in Jobs
      PROVE  /\ InMemory(k)' => InMemory(k)
             /\ Touched(k)' => Touched(k)
             /\ Present(k)' => Present(k)
  <2>1. Answered(k, t, ok, q)
    OBVIOUS
  <2>2. InMemory(k)' => InMemory(k)
    BY <2>1 DEF Answered, InMemory, Takes, Files
  <2>3. disk'[k].state # "absent" => Touched(k)
    BY DEF Takes, Files, Touched, InMemory
  <2> QED
    BY <2>1, <2>2, <2>3 DEF Touched, Present, Answered
<1>2. ASSUME NEW k \in gone PROVE ~Touched(k)'
  <2>1. /\ k \in Jobs /\ k \in known /\ k \notin active /\ sub[k] \notin Pending
        /\ ~Working(k) /\ ~Closing(k) /\ ~Carries(storeQ, k)
    BY AgedAlone DEF Files, RecoveryInv
  <2>2. Answered(k, t, ok, q)
    BY <2>1
  <2>3. ~InMemory(k)'
    BY <2>1, <2>2 DEF Answered, InMemory, Takes, Files, Pending
  <2> QED
    BY <2>3 DEF Touched, Files
<1>3. ASSUME NEW k \in Jobs PROVE Identity(k)'
  <2>1. Identity(k) /\ Answered(k, t, ok, q)
    BY DEF RecoveryInv
  <2>2. \A i \in Jobs : i # k /\ req'[i] = req'[k] /\ Present(i)' => ~Present(k)'
    BY <1>1, <2>1 DEF Identity
  <2>3. phase' = "up" /\ ~fault' /\ Touched(k)' => k \in known'
    BY <1>1, <1>2, <2>1 DEF Identity, Files
  <2>4. /\ Present(k)' => req'[k] # NoRequest
        /\ sub'[k] \in Early => ~Touched(k)'
        /\ sub'[k] = "failing" => fault'
    BY <1>1, <2>1 DEF Identity, Answered
  <2>5. /\ InMemory(k)' => rec'[k].state # "absent"
        /\ Closing(k)' => rec'[k].state # "queued"
        /\ ~stopping' => fin'[k]["shutdown"] \notin {"audit", "save"}
    BY <1>1, <2>1 DEF Identity, Answered
  <2> QED
    BY <2>2, <2>3, <2>4, <2>5 DEF Identity
<1>4. ASSUME NEW k \in Jobs PROVE Kept(k)'
  <2>1. Kept(k) /\ Answered(k, t, ok, q)
    BY DEF RecoveryInv
  <2>2. spawned'[k] > 0 => disk'[k].state # "absent" \/ k \in forgotten'
    BY <2>1 DEF Kept, Files
  <2>3. ASSUME run'[k] \in {"running", "mode", "child"} PROVE disk'[k].state # "absent"
    <3>1. CASE run[k] \in {"running", "mode", "child"}
      <4>1. k \notin gone
        BY <3>1, AgedAlone DEF Files, RecoveryInv, Working
      <4> QED
        BY <2>1, <3>1, <4>1 DEF Kept, Files
    <3>2. CASE ok /\ k = t.job /\ t.op = "starting"
      BY <3>2 DEF Files
    <3> QED
      BY <2>1, <2>3, <3>1, <3>2 DEF Answered
  <2> QED
    BY <2>2, <2>3 DEF Kept
<1> QED
  BY <1>3, <1>4

\* An operation whose record lands writes a real record.
LEMMA LandsFiles ==
  ASSUME TypeOK, RecoveryInv, NEW t \in Tickets, NEW ok \in BOOLEAN,
         NEW gone \in Removable(t), Lands(t, gone),
         t.op # "cleanup" => Carries(storeQ, t.job) /\ snap.state # "absent",
         known' \subseteq known \ gone, \A k \in known \ known' : k \in gone \/ fault',
         forgotten' = forgotten \cup gone
  PROVE  Files(t, ok, gone)
<1>1. t.job \in Jobs /\ gone \subseteq Aged
  BY DEF Tickets, Removable
<1>2. t.op # "cleanup" => t.job \notin gone /\ rec[t.job].state # "absent"
  <2> SUFFICES ASSUME t.op # "cleanup"
               PROVE  t.job \notin gone /\ rec[t.job].state # "absent"
    OBVIOUS
  <2>1. Identity(t.job) /\ InMemory(t.job)
    BY <1>1 DEF RecoveryInv, InMemory
  <2> QED
    BY <1>1, <2>1, AgedAlone DEF Identity, RecoveryInv
<1>3. PICK r \in {snap, rec[t.job]} :
         disk' = IF t.op = "cleanup" THEN Without(gone)
                 ELSE [Without(gone) EXCEPT ![t.job] = r]
  BY DEF Lands
<1>4. gone \subseteq Jobs
  BY RemovableType
<1>5. \A k \in Jobs : Without(gone)[k] = IF k \in gone THEN NoRecord ELSE disk[k]
  BY DEF Without
<1>6. ASSUME NEW k \in Jobs
      PROVE  disk'[k] = IF k = t.job /\ t.op # "cleanup" THEN r ELSE Without(gone)[k]
  BY <1>3 DEF Without
<1>7. NoRecord.state = "absent" /\ (t.op # "cleanup" => r.state # "absent")
  BY <1>2, <1>3 DEF NoRecord
<1> QED
  BY <1>1, <1>2, <1>4, <1>5, <1>6, <1>7 DEF Files

\* So does a commit.
LEMMA PersistFiles ==
  ASSUME TypeOK, RecoveryInv, NEW t \in Tickets, NEW ok \in BOOLEAN,
         NEW gone \in Removable(t), Persist(t, gone),
         t.op # "cleanup" => Carries(storeQ, t.job) /\ snap.state # "absent"
  PROVE  Files(t, ok, gone)
  BY LandsFiles DEF Persist

\* An operation need not remove anything.
LEMMA NothingRemoved == ASSUME NEW t PROVE {} \in Removable(t)
  BY DEF Removable

\* A rejection leaves the file of its own record alone, or has written it.
LEMMA RejectedFiles ==
  ASSUME TypeOK, RecoveryInv, NEW t \in Tickets, NEW gone \in Removable(t),
         t.op = "accept" => fault',
         \/ Rejected(t, gone)
         \/ /\ Overran(t, gone)
            /\ t.op # "cleanup" => Carries(storeQ, t.job) /\ snap.state # "absent"
  PROVE  Files(t, FALSE, gone)
<1>1. gone \subseteq Jobs /\ gone \subseteq Aged
  BY RemovableType DEF Removable
<1>2. /\ known' \subseteq known
      /\ \A k \in known \ known' : k \in gone \/ fault'
      /\ known' \cap gone = {} /\ forgotten' = forgotten \cup gone
  BY DEF Rejected, Overran, Forgets
<1>3. CASE Rejected(t, gone)
  <2>1. NoRecord.state = "absent"
    BY DEF NoRecord
  <2>2. \A k \in Jobs : disk'[k] = IF k \in gone THEN NoRecord ELSE disk[k]
    BY <1>3 DEF Rejected, Without
  <2> QED
    BY <1>1, <1>2, <2>1, <2>2 DEF Files
<1>4. CASE Overran(t, gone) /\ (t.op # "cleanup" => Carries(storeQ, t.job)
                                                  /\ snap.state # "absent")
  BY <1>2, <1>4, LandsFiles DEF Overran
<1> QED
  BY <1>3, <1>4

\* Taking an operation out of the queue.
LEMMA OneTaken ==
  ASSUME TypeOK, NEW i \in 1 .. Len(storeQ), NEW q, Shortens(q, storeQ, i)
  PROVE  Takes(storeQ[i], q)
<1>1. storeQ[i] \in Tickets /\ q \in Seq(Tickets)
  BY QueueParts DEF Shortens
<1>2. storeQ[i].op # "cleanup" => Carries(storeQ, storeQ[i].job)
  BY DEF Carries
<1>3. \A k \in Jobs : Carries(q, k) => Carries(storeQ, k)
  BY CarriesShorter
<1> QED
  BY <1>1, <1>2, <1>3 DEF Takes

\* The head of a queue in progress.
LEMMA HeadParts ==
  ASSUME TypeOK, head # "idle"
  PROVE  /\ storeQ # <<>> /\ storeQ \in Seq(Tickets) /\ 1 \in 1 .. Len(storeQ)
         /\ storeQ[1] \in Tickets /\ Tail(storeQ) \in Seq(Tickets)
         /\ Shortens(Tail(storeQ), storeQ, 1) /\ Takes(storeQ[1], Tail(storeQ))
         /\ storeQ[1].op # "cleanup" => Carries(storeQ, storeQ[1].job)
<1>1. storeQ # <<>> /\ storeQ \in Seq(Tickets)
  BY DEF TypeOK, StoreType
<1>2. 1 \in 1 .. Len(storeQ) /\ Shortens(Tail(storeQ), storeQ, 1)
  BY <1>1, TailShortens, EmptySeq, LenProperties
<1>3. Takes(storeQ[1], Tail(storeQ))
  BY <1>2, OneTaken
<1> QED
  BY <1>1, <1>2, <1>3 DEF Takes

\* The answered operation of a running store leaves the queue in order.
LEMMA HeadAnswered ==
  ASSUME TypeOK, StartInv, RecoveryInv, head = "busy", NEW ok \in BOOLEAN,
         Settle(storeQ[1], ok, Tail(storeQ))
  PROVE  Sound(storeQ', 1, Awaits') /\ Extends(Tail(storeQ))
<1>1. LeftSound(storeQ[1], Tail(storeQ))
  BY HeadParts, SettleAnswered DEF RecoveryInv
<1>2. Sound(Tail(storeQ), 1, Minus(Awaits, storeQ[1]))
  BY HeadParts, SoundShorter DEF RecoveryInv, QueueInv, First
<1> QED
  BY <1>1, <1>2 DEF LeftSound

\* The service stays up, and only the operation in progress matters.
LEMMA StillAwake ==
  ASSUME phase' = "up",
         head' # "idle" => storeQ'[1].op = "cleanup" \/ snap'.state # "absent"
  PROVE  Waking'
  BY DEF Waking

\* A write that ends in time keeps the invariant,
LEMMA CommitKeeps == ASSUME TypeOK, StartInv, RecoveryInv, StoreCommits PROVE RecoveryInv'
<1>1. /\ phase = "up" /\ head = "busy" /\ head' = "idle" /\ storeFailed' = storeFailed
      /\ Settle(storeQ[1], TRUE, Tail(storeQ))
  BY DEF StoreCommits
<1>2. PICK gone \in Removable(storeQ[1]) : Persist(storeQ[1], gone)
  BY DEF StoreCommits
<1>3. storeQ[1] \in Tickets /\ Tail(storeQ) \in Seq(Tickets) /\ Takes(storeQ[1], Tail(storeQ))
      /\ (storeQ[1].op # "cleanup" => Carries(storeQ, storeQ[1].job) /\ snap.state # "absent")
  BY <1>1, HeadParts DEF RecoveryInv, Waking
<1>4. Files(storeQ[1], TRUE, gone)
  BY <1>2, <1>3, PersistFiles
<1>5. /\ \A k \in Jobs : Answered(k, storeQ[1], TRUE, Tail(storeQ))
      /\ fault => fault'
      /\ UNCHANGED <<phase, stopping, req, spawned>>
  BY <1>1, <1>3, SettleAnswered DEF RecoveryInv
<1>6. \A k \in Jobs : Identity(k)' /\ Kept(k)'
  BY <1>1, <1>3, <1>4, <1>5, FilesKeep
<1>7. QueueInv'
  <2>1. Sound(storeQ', 1, Awaits') /\ First' = 1
    BY <1>1, HeadAnswered DEF First
  <2> QED
    BY <1>1, <2>1 DEF QueueInv, Sound
<1>8. Waking'
  BY <1>1, <1>5, StillAwake
<1> QED
  BY <1>6, <1>7, <1>8 DEF RecoveryInv

\* so does a write that fails,
LEMMA FailKeeps == ASSUME TypeOK, StartInv, RecoveryInv, StoreFails PROVE RecoveryInv'
<1>1. /\ phase = "up" /\ head = "busy" /\ storeFailed'
      /\ Settle(storeQ[1], FALSE, Tail(storeQ))
      /\ head' \in {"busy", "idle"}
      /\ head' = "busy" => Len(storeQ) > 1 /\ snap' = rec[storeQ[2].job]
  BY DEF StoreFails
<1>2. PICK gone \in Removable(storeQ[1]) :
         Rejected(storeQ[1], gone) \/ Overran(storeQ[1], gone)
  BY DEF StoreFails
<1>3. storeQ[1] \in Tickets /\ Tail(storeQ) \in Seq(Tickets) /\ Takes(storeQ[1], Tail(storeQ))
      /\ (storeQ[1].op # "cleanup" => Carries(storeQ, storeQ[1].job) /\ snap.state # "absent")
  BY <1>1, HeadParts DEF RecoveryInv, Waking
<1>4. /\ \A k \in Jobs : Answered(k, storeQ[1], FALSE, Tail(storeQ))
      /\ fault => fault'
      /\ storeQ[1].op = "accept" => fault'
      /\ UNCHANGED <<phase, stopping, req, spawned>>
  BY <1>1, <1>3, SettleAnswered DEF RecoveryInv
<1>5. Files(storeQ[1], FALSE, gone)
  BY <1>2, <1>3, <1>4, RejectedFiles
<1>6. \A k \in Jobs : Identity(k)' /\ Kept(k)'
  BY <1>1, <1>3, <1>4, <1>5, FilesKeep
<1>7. QueueInv'
  <2>1. Sound(storeQ', 1, Awaits') /\ First' = 1
    BY <1>1, HeadAnswered DEF First
  <2> QED
    BY <1>1, <2>1 DEF QueueInv, Sound
<1>8. Waking'
  <2> SUFFICES ASSUME head' = "busy", storeQ'[1].op # "cleanup" PROVE snap'.state # "absent"
    BY <1>1, <1>4, StillAwake
  <2>1. 2 \in 1 .. Len(storeQ) /\ 1 \in 1 .. Len(Tail(storeQ)) /\ Tail(storeQ)[1] = storeQ[2]
    <3>1. Shortens(Tail(storeQ), storeQ, 1) /\ Len(storeQ) \in Nat
      BY <1>1, HeadParts, LenProperties
    <3> QED
      BY <1>1, <3>1 DEF Shortens
  <2>2. storeQ'[1] = storeQ[2]
    BY <1>1, <2>1, HeadAnswered DEF Extends
  <2>3. storeQ[2].job \in Jobs /\ Carries(storeQ, storeQ[2].job)
    BY <2>1, <2>2, QueueParts DEF Tickets, Carries
  <2> QED
    BY <1>1, <2>3 DEF RecoveryInv, Identity, InMemory
<1> QED
  BY <1>6, <1>7, <1>8 DEF RecoveryInv

\* one whose caller gives up on it while it goes on,
LEMMA TimeOutKeeps == ASSUME TypeOK, StartInv, RecoveryInv, StoreTimesOut PROVE RecoveryInv'
<1>1. /\ phase = "up" /\ head = "busy" /\ head' = "late" /\ storeFailed' /\ snap' = snap
      /\ Settle(storeQ[1], FALSE, storeQ) /\ Rejected(storeQ[1], {})
  BY DEF StoreTimesOut
<1>2. /\ storeQ[1] \in Tickets /\ storeQ \in Seq(Tickets) /\ storeQ # <<>>
      /\ Takes(storeQ[1], storeQ)
  BY <1>1, HeadParts DEF Takes
<1>3. /\ \A k \in Jobs : Answered(k, storeQ[1], FALSE, storeQ)
      /\ LeftSound(storeQ[1], storeQ)
      /\ fault => fault'
      /\ storeQ[1].op = "accept" => fault'
      /\ UNCHANGED <<phase, stopping, req, spawned>>
  BY <1>1, <1>2, SettleAnswered DEF RecoveryInv
<1>4. Files(storeQ[1], FALSE, {})
  BY <1>1, <1>2, <1>3, NothingRemoved, RejectedFiles
<1>5. \A k \in Jobs : Identity(k)' /\ Kept(k)'
  BY <1>1, <1>2, <1>3, <1>4, FilesKeep
<1>6. QueueInv'
  <2>1. Sound(storeQ, 2, Minus(Awaits, storeQ[1]))
    BY <1>1, <1>2, SoundAbandons DEF RecoveryInv, QueueInv, First
  <2>2. Sound(storeQ', 2, Awaits') /\ First' = 2
    BY <1>1, <1>3, <2>1 DEF LeftSound, First
  <2> QED
    BY <1>1, <2>2 DEF QueueInv, Sound
<1>7. Waking'
  <2>1. storeQ'[1] = storeQ[1]
    BY <1>1, <1>3, HeadStays DEF LeftSound
  <2> QED
    BY <1>1, <1>3, <2>1, StillAwake DEF RecoveryInv, Waking
<1> QED
  BY <1>5, <1>6, <1>7 DEF RecoveryInv

\* and one refused because another is stuck.
LEMMA RefuseKeeps == ASSUME TypeOK, StartInv, RecoveryInv, StoreRefuses PROVE RecoveryInv'
<1>1. phase = "up" /\ UNCHANGED <<head, snap, storeFailed>>
  BY DEF StoreRefuses
<1>2. PICK i \in 1 .. Len(storeQ) :
         /\ i > 1 \/ head = "idle"
         /\ Settle(storeQ[i], FALSE, RemoveAt(storeQ, i))
         /\ Rejected(storeQ[i], {})
  BY DEF StoreRefuses
<1> DEFINE t == storeQ[i]
           q == RemoveAt(storeQ, i)
<1>3. Shortens(q, storeQ, i) /\ Takes(t, q) /\ t \in Tickets /\ q \in Seq(Tickets)
  BY QueueParts, RemoveAtShortens, OneTaken DEF TypeOK, StoreType
<1>4. /\ \A k \in Jobs : Answered(k, t, FALSE, q)
      /\ LeftSound(t, q)
      /\ fault => fault'
      /\ t.op = "accept" => fault'
      /\ UNCHANGED <<phase, stopping, req, spawned>>
  BY <1>2, <1>3, SettleAnswered DEF RecoveryInv
<1>5. Files(t, FALSE, {})
  BY <1>2, <1>3, <1>4, NothingRemoved, RejectedFiles
<1> HIDE DEF q
<1>6. \A k \in Jobs : Identity(k)' /\ Kept(k)'
  BY <1>1, <1>3, <1>4, <1>5, FilesKeep
<1>7. QueueInv'
  <2>1. First \in {1, 2} /\ First' = First /\ i \in First .. Len(storeQ)
    BY <1>1, <1>2 DEF First
  <2>2. Sound(q, First, Minus(Awaits, t))
    BY <1>3, <2>1, SoundShorter DEF RecoveryInv, QueueInv
  <2>3. Sound(storeQ', First, Awaits')
    BY <1>4, <2>1, <2>2 DEF LeftSound
  <2> QED
    BY <1>1, <2>1, <2>3 DEF RecoveryInv, QueueInv, Sound
<1>8. Waking'
  <2> SUFFICES ASSUME head # "idle" PROVE storeQ'[1] = storeQ[1]
    BY <1>1, <1>4, StillAwake DEF RecoveryInv, Waking
  <2>1. 1 \in 1 .. Len(q) /\ q[1] = storeQ[1]
    <3>1. Len(storeQ) \in Nat /\ i > 1
      BY <1>2, LenProperties DEF TypeOK, StoreType
    <3> QED
      BY <1>3, <3>1 DEF Shortens
  <2> QED
    BY <1>4, <2>1 DEF LeftSound, Extends
<1> QED
  BY <1>6, <1>7, <1>8 DEF RecoveryInv

\* An abandoned operation that ends late answers nobody.
LEMMA LateKeeps == ASSUME TypeOK, RecoveryInv, StoreEndsLate PROVE RecoveryInv'
<1>1. /\ phase = "up" /\ head = "late" /\ head' = "idle" /\ storeQ' = Tail(storeQ)
      /\ UNCHANGED <<phase, stopping, req, spawned, fault, storeFailed, sub, run, fin, rec,
                     active>>
  BY DEF StoreEndsLate, process, programs, identities
<1>2. storeQ[1] \in Tickets /\ Takes(storeQ[1], Tail(storeQ))
      /\ (storeQ[1].op # "cleanup" => Carries(storeQ, storeQ[1].job) /\ snap.state # "absent")
  BY <1>1, HeadParts DEF RecoveryInv, Waking
<1>3. \E gone : Files(storeQ[1], FALSE, gone)
  <2>1. CASE \E gone \in Removable(storeQ[1]) : Persist(storeQ[1], gone)
    BY <1>2, <2>1, PersistFiles
  <2>2. CASE UNCHANGED <<disk, known, forgotten>>
    <3>1. Files(storeQ[1], FALSE, {})
      BY <2>2 DEF Files
    <3> QED
      BY <3>1
  <2> QED
    BY <2>1, <2>2 DEF StoreEndsLate
<1>4. \A k \in Jobs : Answered(k, storeQ[1], FALSE, Tail(storeQ))
  BY <1>1, AnsweredUntouched DEF RecoveryInv
<1>5. \A k \in Jobs : Identity(k)' /\ Kept(k)'
  BY <1>1, <1>2, <1>3, <1>4, FilesKeep
<1>6. QueueInv'
  <2>1. \A k \in Jobs : WaitsOn(k)
    BY <1>1 DEF WaitsOn
  <2>2. Awaits \subseteq Awaits' /\ First' = 1
    BY <1>1, <2>1, AwaitsGrow DEF First
  <2>3. Sound(Tail(storeQ), 1, Awaits)
    BY <1>1, HeadParts, SoundRid DEF RecoveryInv, QueueInv, First
  <2>4. Sound(storeQ', 1, Awaits')
    BY <1>1, <2>2, <2>3, SoundGrows
  <2> QED
    BY <1>1, <2>2, <2>4 DEF QueueInv, Sound
<1>7. Waking'
  BY <1>1, StillAwake
<1> QED
  BY <1>5, <1>6, <1>7 DEF RecoveryInv

\* The oldest operation starts with the record its job has.
LEMMA BeginKeeps == ASSUME TypeOK, RecoveryInv, StoreBegins PROVE RecoveryInv'
<1>1. /\ phase = "up" /\ head = "idle" /\ head' = "busy" /\ storeQ # <<>>
      /\ snap' = rec[storeQ[1].job]
      /\ UNCHANGED <<phase, fault, known, disk, forgotten, storeFailed, storeQ, active, sub,
                     run, fin, rec, spawned, stopping, req>>
  BY DEF StoreBegins, process, records, programs, identities
<1>2. \A k \in Jobs : /\ Working(k)' <=> Working(k)
                      /\ Closing(k)' <=> Closing(k)
                      /\ InMemory(k)' <=> InMemory(k)
                      /\ Touched(k)' <=> Touched(k)
                      /\ Present(k)' <=> Present(k)
  BY <1>1 DEF Working, Closing, InMemory, Touched, Present
<1>3. ASSUME NEW k \in Jobs PROVE Identity(k)' /\ Kept(k)'
  <2>1. Identity(k) /\ Kept(k)
    BY DEF RecoveryInv
  <2> QED
    BY <1>1, <1>2, <2>1 DEF Identity, Kept
<1>4. QueueInv'
  <2>1. \A k \in Jobs : WaitsOn(k)
    BY <1>1 DEF WaitsOn
  <2>2. Awaits \subseteq Awaits' /\ First' = 1 /\ First = 1
    BY <1>1, <2>1, AwaitsGrow DEF First
  <2>3. Sound(storeQ, 1, Awaits')
    BY <2>2, SoundGrows DEF RecoveryInv, QueueInv
  <2> QED
    BY <1>1, <2>2, <2>3 DEF QueueInv, Sound
<1>5. Waking'
  <2> SUFFICES ASSUME storeQ[1].op # "cleanup" PROVE rec[storeQ[1].job].state # "absent"
    BY <1>1, StillAwake
  <2>1. 1 \in 1 .. Len(storeQ) /\ storeQ[1].job \in Jobs
    BY <1>1, QueueParts, EmptySeq, LenProperties DEF TypeOK, StoreType, Tickets
  <2>2. Carries(storeQ, storeQ[1].job)
    BY <2>1 DEF Carries
  <2> QED
    BY <2>1, <2>2 DEF RecoveryInv, Identity, InMemory
<1> QED
  BY <1>3, <1>4, <1>5 DEF RecoveryInv

-----------------------------------------------------------------------------
\* Every step keeps the invariant.
LEMMA RecoveryStep == ASSUME TypeOK, StartInv, RecoveryInv, [Next]_vars PROVE RecoveryInv'
<1>1. CASE QuietStep
  BY <1>1, QuietKeeps
<1>2. CASE \E j \in Jobs, ok \in BOOLEAN, c \in Closers :
              \/ CompletionAudited(j, ok) \/ FailureAudited(j, ok) \/ OrphanAudited(j, ok)
              \/ FinishAudited(j, c, ok)
  BY <1>2, LastKeeps
<1>3. CASE Storing
  BY <1>3, BeginKeeps, CommitKeeps, FailKeeps, TimeOutKeeps, LateKeeps, RefuseKeeps
  DEF Storing
<1>4. CASE Pump \/ PumpResumes \/ PumpCleans
  BY <1>4, PumpingKeeps, CleanupKeeps
<1>5. CASE Lifecycle
  BY <1>1, <1>5, StopKeeps, RestartKeeps, BootReadsKeeps, BootCompletesKeeps
  DEF Lifecycle, Exit, Crash, Boot, QuietStep
<1>6. CASE \E j \in Jobs : (\E r \in Requests : Submit(j, r)) \/ Admit(j)
  BY <1>6, SubmitKeeps, AdmitKeeps
<1>7. CASE UNCHANGED vars
  BY <1>7, RestartKeeps
<1>8. "none" \in Outcomes /\ TRUE \in BOOLEAN /\ "client" \in Closers
  BY DEF Outcomes, Closers
<1> QED
  BY <1>1, <1>2, <1>3, <1>4, <1>5, <1>6, <1>7, <1>8
  DEF Next, Client, Submission, Running, Finishing, Pumping, QuietStep, JobSteps

\* The inductive invariant holds throughout: queue, memory and files agree on
\* which jobs there are, whatever fails.
THEOREM RecoveryInvariant == Spec => []RecoveryInv
<1>1. Init => RecoveryInv
  BY RecoveryInit
<1>2. TypeOK /\ StartInv /\ RecoveryInv /\ [Next]_vars => RecoveryInv'
  BY RecoveryStep
<1> QED
  BY <1>1, <1>2, TypeCorrect, StartInvariant, PTL DEF Spec

\* The service can always be started again: initialize() never finds two
\* record files of one request.
THEOREM StoreOpens == Spec => []StoreAlwaysOpens
  BY RecoveryInvariant, TypeCorrect, RecoveryImplies, PTL

\* A client that retries a request never gets its command run twice, unless
\* the record of the first run was removed after its retention: also when an
\* answer was lost, a write timed out and took effect late, or the service
\* was restarted.
THEOREM RetryNeverRunsTwice == Spec => []RetriesRecover
  BY RecoveryInvariant, TypeCorrect, RecoveryImplies, PTL

-----------------------------------------------------------------------------
(* The limit of records.  As long as no fault is latched whatever is in the *)
(* files is known, and an admission counts what is known.  A rejected       *)
(* acceptance is forgotten although its record may be in its file, but it   *)
(* latches the fault, and then only the operation in progress can still     *)
(* reach the files: Reachable counts them together.                         *)

Ahead     == IF head # "idle" /\ storeQ[1].op # "cleanup" THEN {storeQ[1].job} ELSE {}
Reachable == OnDisk \cup Ahead

RecordsInv == /\ Cardinality(known) <= MaxRecords
              /\ Cardinality(Reachable) <= MaxRecords
              /\ phase = "boot" => known \subseteq OnDisk
              /\ fault => storeFailed

\* Fewer jobs are within the limit, too.
LEMMA FewerJobs ==
  ASSUME NEW S \in SUBSET Jobs, Cardinality(S) <= MaxRecords, NEW T, T \subseteq S
  PROVE  Cardinality(T) <= MaxRecords
<1>1. IsFiniteSet(S)
  BY BackgroundJobsAssumption, FS_Subset
<1>2. Cardinality(T) <= Cardinality(S) /\ Cardinality(T) \in Nat /\ Cardinality(S) \in Nat
  BY <1>1, FS_Subset, FS_CardinalityType
<1> DEFINE m == Cardinality(S)
           n == Cardinality(T)
<1>3. n <= m /\ m <= MaxRecords /\ n \in Nat /\ m \in Nat /\ MaxRecords \in Nat
  BY <1>2, BackgroundJobsAssumption
<1> HIDE DEF m, n
<1>4. n <= MaxRecords
  BY <1>3
<1> QED
  BY <1>4 DEF n

\* What is reachable is on disk or carried by the queue.
LEMMA ReachableTouched ==
  ASSUME TypeOK PROVE \A k \in Reachable : k \in Jobs /\ Touched(k)
<1>1. \A k \in OnDisk : k \in Jobs /\ Touched(k)
  BY DEF OnDisk, Touched
<1>2. \A k \in Ahead : k \in Jobs /\ Touched(k)
  BY HeadParts DEF Ahead, Touched, InMemory, Tickets
<1> QED
  BY <1>1, <1>2 DEF Reachable

\* So is what is reachable after a step.
LEMMA NextReachable ==
  ASSUME TypeOK' PROVE \A k \in Reachable' : k \in Jobs /\ Touched(k)'
<1>1. \A k \in OnDisk' : k \in Jobs /\ Touched(k)'
  BY DEF OnDisk, Touched
<1>2. ASSUME NEW k \in Ahead' PROVE k \in Jobs /\ Touched(k)'
  <2>1. storeQ' \in Seq(Tickets) /\ storeQ' # <<>>
    BY DEF Ahead, TypeOK, StoreType
  <2>2. 1 \in 1 .. Len(storeQ') /\ storeQ'[1] \in Tickets
    BY <2>1, EmptySeq, LenProperties
  <2>3. k = storeQ'[1].job /\ storeQ'[1].op # "cleanup"
    BY DEF Ahead
  <2> QED
    BY <2>2, <2>3 DEF Carries, InMemory, Touched, Tickets
<1> QED
  BY <1>1, <1>2 DEF Reachable

\* The invariant bounds the files and the map.
LEMMA RecordsImply ==
  ASSUME TypeOK, RecordsInv
  PROVE  Cardinality(known) <= MaxRecords /\ Cardinality(OnDisk) <= MaxRecords
  BY FewerJobs, ReachableTouched DEF RecordsInv, Reachable

\* What a step that neither admits a job nor reads a record does: it extends
\* neither the map nor, once the fault is latched, what can reach the files.
Bounds == /\ known' \subseteq known
          /\ fault => fault'
          /\ fault => Reachable' \subseteq Reachable
          /\ fault' => fault \/ storeFailed'
          /\ \A k \in Jobs : Touched(k)' => Touched(k)
          /\ storeFailed => storeFailed'
          /\ phase = "up" /\ phase' = "up"

\* Such a step keeps the limit.
LEMMA BoundsKeep ==
  ASSUME TypeOK, TypeOK', RecoveryInv, RecoveryInv', RecordsInv, Bounds
  PROVE  RecordsInv'
<1>1. known \subseteq Jobs /\ known' \subseteq Jobs /\ Reachable \subseteq Jobs
  BY ReachableTouched DEF TypeOK, RecordsType
<1>2. Cardinality(known') <= MaxRecords
  BY <1>1, FewerJobs DEF Bounds, RecordsInv
<1>3. \A k \in Reachable' : k \in Jobs /\ Touched(k)'
  BY NextReachable
<1>4. Cardinality(Reachable') <= MaxRecords
  <2>1. CASE ~fault
    <3>1. \A k \in Jobs : Touched(k) => k \in known
      BY <2>1 DEF Bounds, RecoveryInv, Identity
    <3>2. Reachable' \subseteq known
      BY <1>3, <3>1 DEF Bounds
    <3> QED
      BY <1>1, <3>2, FewerJobs DEF RecordsInv
  <2>2. CASE fault
    BY <1>1, <2>2, FewerJobs DEF Bounds, RecordsInv
  <2> QED
    BY <2>1, <2>2
<1> QED
  BY <1>2, <1>4 DEF Bounds, RecordsInv

\* A step that leaves the files and the head of the queue alone.
LEMMA MildBounds ==
  ASSUME TypeOK, TypeOK', phase = "up", FilesStay, storeFailed' = storeFailed,
         Extends(storeQ), \A k \in Jobs : Mild(k)
  PROVE  Bounds
<1>1. Reachable' = Reachable
  <2>1. head # "idle" => storeQ'[1] = storeQ[1]
    BY HeadStays
  <2> QED
    BY <2>1 DEF Reachable, Ahead, OnDisk, FilesStay
<1>2. \A k \in Jobs : Touched(k)' => Touched(k)
  BY DEF Mild, InMemory, Touched, FilesStay
<1> QED
  BY <1>1, <1>2 DEF Bounds, FilesStay

\* The steps outside the store are of that kind, unless they admit a job.
LEMMA CalmBounds ==
  ASSUME TypeOK, TypeOK', StartInv, RecoveryInv,
         \/ QuietStep \/ Pump \/ PumpResumes \/ PumpCleans
         \/ \E j \in Jobs, ok \in BOOLEAN, c \in Closers :
               \/ CompletionAudited(j, ok) \/ FailureAudited(j, ok) \/ OrphanAudited(j, ok)
               \/ FinishAudited(j, c, ok)
  PROVE  Bounds
<1> storeQ \in Seq(Tickets)
  BY DEF TypeOK, StoreType
<1>1. CASE QuietStep
  <2>1. \A k \in Jobs : Mild(k)
    BY <1>1, QuietMild DEF RecoveryInv
  <2>2. FilesStay /\ phase = "up" /\ UNCHANGED <<storeQ, storeFailed>>
    BY <1>1, QuietFiles
  <2>3. Extends(storeQ)
    BY <2>2 DEF Extends
  <2> QED
    BY <2>1, <2>2, <2>3, MildBounds
<1>2. CASE Pump \/ PumpResumes
  <2>1. /\ PumpPass(storeQ) /\ FilesStay /\ phase = "up"
        /\ UNCHANGED <<storeFailed, sub, active, spawned, stopping>>
    BY <1>2 DEF Pump, PumpResumes, PumpFrame, FilesStay, process, identities
  <2>2. (\A k \in Jobs : Passed(k, storeQ)) /\ Extends(storeQ)
    BY <2>1, PassEffect DEF RecoveryInv
  <2>3. ASSUME NEW k \in Jobs PROVE Mild(k)
    BY <2>1, <2>2 DEF Mild, Passed, WaitsOn, RecoveryInv, Identity
  <2> QED
    BY <2>1, <2>2, <2>3, MildBounds
<1>3. CASE PumpCleans
  <2>1. PICK j \in Jobs : storeQ' = Append(storeQ, Op(j, "cleanup"))
    BY <1>3 DEF PumpCleans, Aged, TypeOK, RecordsType
  <2>2. FilesStay /\ phase = "up" /\ storeFailed' = storeFailed
        /\ UNCHANGED <<sub, run, fin, active>>
    BY <1>3 DEF PumpCleans, FilesStay, process, records, identities
  <2> DEFINE t == Op(j, "cleanup")
  <2>3. t \in Tickets /\ t.op = "cleanup"
    <3>1. t \in Tickets
      BY OpType DEF Ops
    <3> QED
      BY <3>1 DEF Op
  <2>4. Extends(storeQ)
    BY <2>1, <2>3, AppendProperties DEF Extends
  <2>5. head # "idle" => storeQ'[1] = storeQ[1]
    BY <2>4, HeadStays
  <2>6. Reachable' = Reachable
    BY <2>2, <2>5 DEF Reachable, Ahead, OnDisk, FilesStay
  <2>7. \A k \in Jobs : Carries(storeQ', k) => Carries(storeQ, k)
    <3>1. /\ Len(storeQ) \in Nat /\ Len(storeQ') = Len(storeQ) + 1
          /\ storeQ'[Len(storeQ) + 1] = t
          /\ \A i \in 1 .. Len(storeQ) : storeQ'[i] = storeQ[i]
      BY <2>1, <2>3, AppendProperties, LenProperties
    <3>2. \A i \in 1 .. Len(storeQ') : i \in 1 .. Len(storeQ) \/ i = Len(storeQ) + 1
      BY <3>1
    <3> HIDE DEF t
    <3> QED
      BY <2>3, <3>1, <3>2 DEF Carries
  <2>8. \A k \in Jobs : Touched(k)' => Touched(k)
    BY <2>2, <2>7 DEF Touched, InMemory, Working, Closing, FilesStay
  <2> QED
    BY <2>2, <2>6, <2>8 DEF Bounds, FilesStay
<1>4. ASSUME NEW j \in Jobs, NEW ok \in BOOLEAN, NEW c \in Closers,
             \/ CompletionAudited(j, ok) \/ FailureAudited(j, ok) \/ OrphanAudited(j, ok)
             \/ FinishAudited(j, c, ok)
      PROVE  Bounds
  <2>1. /\ \A k \in Jobs : Mild(k)
        /\ FilesStay /\ phase = "up" /\ UNCHANGED storeFailed
    BY <1>4, LastMild DEF RecoveryInv
  <2>2. PICK o \in Ops : storeQ' = Append(storeQ, Op(j, o))
    BY <1>4, LastMild DEF RecoveryInv
  <2>3. Extends(storeQ)
    BY <2>2, OpType, AppendProperties DEF Extends
  <2> QED
    BY <2>1, <2>3, MildBounds
<1> QED
  BY <1>1, <1>2, <1>3, <1>4

\* A step of the store that has answered t, with q left of the queue, and what
\* it may have done to the files.
LEMMA AnswerBounds ==
  ASSUME TypeOK, TypeOK', RecoveryInv, phase = "up", NEW t, NEW ok \in BOOLEAN, NEW q, NEW gone,
         Takes(t, q), Files(t, ok, gone), \A k \in Jobs : Answered(k, t, ok, q),
         fault => fault', fault' => fault \/ storeFailed', storeFailed => storeFailed',
         phase' = phase,
         fault => Reachable' \subseteq Reachable
  PROVE  Bounds
<1>1. ASSUME NEW k \in Jobs PROVE Touched(k)' => Touched(k)
  <2>1. Answered(k, t, ok, q)
    OBVIOUS
  <2>2. InMemory(k)' => InMemory(k)
    BY <2>1 DEF Answered, InMemory, Takes, Files
  <2>3. disk'[k].state # "absent" => Touched(k)
    BY DEF Takes, Files, Touched, InMemory
  <2> QED
    BY <2>2, <2>3 DEF Touched
<1>2. known' \subseteq known
  BY DEF Files
<1> QED
  BY <1>1, <1>2 DEF Bounds

\* Only an operation that fails latches the fault.
LEMMA SettleFaults ==
  ASSUME NEW t, NEW ok \in BOOLEAN, NEW q, Settle(t, ok, q), fault' PROVE fault \/ ~ok
  BY DEF Settle, AcceptSaved, RunSaved, FinalSaved, FinishSaved, CleanupDone

\* The operation in progress writes no file but the one that was reachable.
LEMMA HeadReaches ==
  ASSUME TypeOK, head # "idle", NEW ok, NEW gone, Files(storeQ[1], ok, gone)
  PROVE  OnDisk' \subseteq Reachable
<1>1. storeQ[1].op # "cleanup" => storeQ[1].job \in Reachable
  BY DEF Reachable, Ahead
<1>2. \A k \in gone : disk'[k].state = "absent"
  BY DEF Files
<1>3. \A k \in Jobs \ gone : disk[k].state # "absent" => k \in Reachable
  BY DEF Reachable, OnDisk
<1> QED
  BY <1>1, <1>2, <1>3 DEF Files, OnDisk

\* Every step of the store stays within the limit.
LEMMA StoreBounds ==
  ASSUME TypeOK, TypeOK', StartInv, RecoveryInv, RecordsInv, Storing
  PROVE  Bounds
<1> /\ storeQ \in Seq(Tickets) /\ (fault => storeFailed)
    /\ FALSE \in BOOLEAN /\ TRUE \in BOOLEAN
  BY DEF TypeOK, StoreType, RecordsInv
<1>1. CASE StoreBegins
  <2>1. /\ phase = "up" /\ phase' = phase /\ ~storeFailed
        /\ UNCHANGED <<fault, known, disk, storeFailed, storeQ, sub, run, fin, active>>
    BY <1>1 DEF StoreBegins, process, records, programs
  <2>2. \A k \in Jobs : Touched(k)' => Touched(k)
    BY <2>1 DEF Touched, InMemory, Working, Closing
  <2> QED
    BY <2>1, <2>2 DEF Bounds
<1>2. CASE StoreCommits
  <2>1. /\ phase = "up" /\ head = "busy" /\ head' = "idle" /\ storeFailed' = storeFailed
        /\ Settle(storeQ[1], TRUE, Tail(storeQ))
    BY <1>2 DEF StoreCommits
  <2>2. PICK gone \in Removable(storeQ[1]) : Persist(storeQ[1], gone)
    BY <1>2 DEF StoreCommits
  <2>3. /\ storeQ[1] \in Tickets /\ Tail(storeQ) \in Seq(Tickets)
        /\ Takes(storeQ[1], Tail(storeQ))
        /\ (storeQ[1].op # "cleanup" => Carries(storeQ, storeQ[1].job)
                                          /\ snap.state # "absent")
    BY <2>1, HeadParts DEF RecoveryInv, Waking
  <2>4. Files(storeQ[1], TRUE, gone)
    BY <2>2, <2>3, PersistFiles
  <2>5. /\ \A k \in Jobs : Answered(k, storeQ[1], TRUE, Tail(storeQ))
        /\ fault => fault'
        /\ phase' = phase
    BY <2>1, <2>3, SettleAnswered DEF RecoveryInv
  <2>6. fault' => fault
    BY <2>1, SettleFaults
  <2>7. Reachable' \subseteq Reachable
    BY <2>1, <2>4, HeadReaches DEF Reachable, Ahead
  <2> QED
    BY <2>1, <2>3, <2>4, <2>5, <2>6, <2>7, AnswerBounds
<1>3. CASE StoreFails
  <2>1. /\ phase = "up" /\ head = "busy" /\ storeFailed' /\ (storeFailed => head' = "idle")
        /\ Settle(storeQ[1], FALSE, Tail(storeQ))
    BY <1>3 DEF StoreFails
  <2>2. PICK gone \in Removable(storeQ[1]) :
           Rejected(storeQ[1], gone) \/ Overran(storeQ[1], gone)
    BY <1>3 DEF StoreFails
  <2>3. /\ storeQ[1] \in Tickets /\ Tail(storeQ) \in Seq(Tickets)
        /\ Takes(storeQ[1], Tail(storeQ))
        /\ (storeQ[1].op # "cleanup" => Carries(storeQ, storeQ[1].job)
                                          /\ snap.state # "absent")
    BY <2>1, HeadParts DEF RecoveryInv, Waking
  <2>4. /\ \A k \in Jobs : Answered(k, storeQ[1], FALSE, Tail(storeQ))
        /\ fault => fault'
        /\ phase' = phase
        /\ storeQ[1].op = "accept" => fault'
    BY <2>1, <2>3, SettleAnswered DEF RecoveryInv
  <2>5. Files(storeQ[1], FALSE, gone)
    BY <2>2, <2>3, <2>4, RejectedFiles
  <2>6. fault => Reachable' \subseteq Reachable
    BY <2>1, <2>5, HeadReaches DEF Reachable, Ahead
  <2> QED
    BY <2>1, <2>3, <2>4, <2>5, <2>6, AnswerBounds
<1>4. CASE StoreTimesOut
  <2>1. /\ phase = "up" /\ head = "busy" /\ head' = "late" /\ storeFailed'
        /\ Settle(storeQ[1], FALSE, storeQ) /\ Rejected(storeQ[1], {})
    BY <1>4 DEF StoreTimesOut
  <2>2. /\ storeQ[1] \in Tickets /\ storeQ # <<>> /\ Takes(storeQ[1], storeQ)
    BY <2>1, HeadParts DEF Takes
  <2>3. /\ \A k \in Jobs : Answered(k, storeQ[1], FALSE, storeQ)
        /\ Extends(storeQ)
        /\ fault => fault'
        /\ phase' = phase
        /\ storeQ[1].op = "accept" => fault'
    BY <2>1, <2>2, SettleAnswered DEF RecoveryInv, LeftSound
  <2>4. Files(storeQ[1], FALSE, {})
    BY <2>1, <2>2, <2>3, NothingRemoved, RejectedFiles
  <2>5. OnDisk' \subseteq Reachable
    BY <2>1, <2>4, HeadReaches
  <2>6. storeQ'[1] = storeQ[1]
    BY <2>1, <2>3, HeadStays
  <2>7. Reachable' \subseteq Reachable
    BY <2>1, <2>5, <2>6 DEF Reachable, Ahead
  <2> QED
    BY <2>1, <2>2, <2>3, <2>4, <2>7, AnswerBounds
<1>5. CASE StoreEndsLate
  <2>1. /\ phase = "up" /\ head = "late" /\ head' = "idle" /\ storeQ' = Tail(storeQ)
        /\ UNCHANGED <<phase, fault, storeFailed, sub, run, fin, rec, active>>
    BY <1>5 DEF StoreEndsLate, process, programs
  <2>2. storeQ[1] \in Tickets /\ Takes(storeQ[1], Tail(storeQ))
        /\ (storeQ[1].op # "cleanup" => Carries(storeQ, storeQ[1].job)
                                          /\ snap.state # "absent")
    BY <2>1, HeadParts DEF RecoveryInv, Waking
  <2>3. PICK gone : Files(storeQ[1], FALSE, gone)
    <3>1. CASE \E gone \in Removable(storeQ[1]) : Persist(storeQ[1], gone)
      BY <2>2, <3>1, PersistFiles
    <3>2. CASE UNCHANGED <<disk, known, forgotten>>
      <4>1. Files(storeQ[1], FALSE, {})
        BY <3>2 DEF Files
      <4> QED
        BY <4>1
    <3> QED
      BY <1>5, <3>1, <3>2 DEF StoreEndsLate
  <2>4. \A k \in Jobs : Answered(k, storeQ[1], FALSE, Tail(storeQ))
    BY <2>1, AnsweredUntouched DEF RecoveryInv
  <2>5. Reachable' \subseteq Reachable
    BY <2>1, <2>3, HeadReaches DEF Reachable, Ahead
  <2> QED
    BY <2>1, <2>2, <2>3, <2>4, <2>5, AnswerBounds
<1>6. CASE StoreRefuses
  <2>1. PICK i \in 1 .. Len(storeQ) :
           /\ i > 1 \/ head = "idle"
           /\ Settle(storeQ[i], FALSE, RemoveAt(storeQ, i))
           /\ Rejected(storeQ[i], {})
    BY <1>6 DEF StoreRefuses
  <2>2. phase = "up" /\ UNCHANGED <<head, storeFailed>> /\ storeFailed
    BY <1>6 DEF StoreRefuses
  <2> DEFINE t == storeQ[i]
             q == RemoveAt(storeQ, i)
  <2>3. Shortens(q, storeQ, i) /\ Takes(t, q) /\ t \in Tickets /\ q \in Seq(Tickets)
    BY QueueParts, RemoveAtShortens, OneTaken
  <2>4. /\ \A k \in Jobs : Answered(k, t, FALSE, q)
        /\ Extends(q)
        /\ fault => fault'
        /\ phase' = phase
        /\ t.op = "accept" => fault'
    BY <2>1, <2>3, SettleAnswered DEF RecoveryInv, LeftSound
  <2>5. Files(t, FALSE, {})
    BY <2>1, <2>3, <2>4, NothingRemoved, RejectedFiles
  <2> HIDE DEF q
  <2>6. head # "idle" => storeQ'[1] = storeQ[1]
    <3> SUFFICES ASSUME head # "idle" PROVE storeQ'[1] = storeQ[1]
      OBVIOUS
    <3>1. Len(storeQ) \in Nat /\ i > 1
      BY <2>1, LenProperties
    <3>2. 1 \in 1 .. Len(q) /\ q[1] = storeQ[1]
      BY <2>3, <3>1 DEF Shortens
    <3> QED
      BY <2>4, <3>2 DEF Extends
  <2>7. OnDisk' \subseteq OnDisk
    BY <2>1 DEF Rejected, Without, OnDisk
  <2>8. Reachable' \subseteq Reachable
    BY <2>2, <2>6, <2>7 DEF Reachable, Ahead
  <2> QED
    BY <2>2, <2>3, <2>4, <2>5, <2>8, AnswerBounds
<1> QED
  BY <1>1, <1>2, <1>3, <1>4, <1>5, <1>6 DEF Storing

\* An admission counts what is known, and what it admits is known.
LEMMA AdmitLimited ==
  ASSUME TypeOK, TypeOK', RecoveryInv, RecordsInv, NEW j \in Jobs, Admit(j) PROVE RecordsInv'
<1>1. /\ UNCHANGED <<phase, fault, disk, head, storeFailed>> /\ phase = "up"
      /\ known' = known \cup {j} /\ storeQ' = Append(storeQ, Op(j, "accept"))
      /\ ~(Cardinality(known) >= MaxRecords)
  BY DEF Admit, Full, SubmissionFrame, process
<1>2. IsFiniteSet(known)
  BY BackgroundJobsAssumption, FS_Subset DEF TypeOK, RecordsType
<1>3. Cardinality(known') <= MaxRecords
  <2> DEFINE c == Cardinality(known)
             d == Cardinality(known \cup {j})
  <2>1. d = (IF j \in known THEN c ELSE c + 1) /\ c \in Nat /\ MaxRecords \in Nat
    BY <1>2, FS_AddElement, FS_CardinalityType, BackgroundJobsAssumption
  <2>2. ~(c >= MaxRecords) /\ known' = known \cup {j}
    BY <1>1
  <2>3. d <= MaxRecords
    <3> HIDE DEF c, d
    <3> QED BY <2>1, <2>2
  <2> QED
    BY <2>2, <2>3
<1>4. Reachable' = Reachable
  <2>1. Extends(storeQ)
    BY <1>1, OpType, AppendProperties DEF Extends, Ops, TypeOK, StoreType
  <2>2. head # "idle" => storeQ'[1] = storeQ[1]
    BY <2>1, HeadStays
  <2> QED
    BY <1>1, <2>2 DEF Reachable, Ahead, OnDisk
<1> QED
  BY <1>1, <1>3, <1>4 DEF RecordsInv

\* The start of the service knows only what it has read from the files.
LEMMA LifeLimited ==
  ASSUME TypeOK, TypeOK', RecoveryInv, RecordsInv,
         \/ Stop \/ Restart \/ BootCompletes \/ \E j \in Jobs : BootReads(j)
         \/ UNCHANGED vars \/ \E j \in Jobs, r \in Requests : Submit(j, r)
  PROVE  RecordsInv'
<1>1. /\ Reachable \subseteq Jobs /\ OnDisk \subseteq Reachable /\ known \subseteq Jobs
  BY ReachableTouched DEF Reachable, TypeOK, RecordsType
<1>2. CASE Stop
  <2>1. known' = {} /\ OnDisk' = OnDisk /\ head' = "idle" /\ phase' = "down" /\ ~fault'
    BY <1>2 DEF Stop, OnDisk
  <2>2. known' \subseteq Reachable /\ Reachable' \subseteq Reachable
    BY <2>1 DEF Reachable, Ahead
  <2> QED
    BY <1>1, <2>1, <2>2, FewerJobs DEF RecordsInv
<1>3. CASE Restart
  <2>1. /\ UNCHANGED <<fault, known, disk, head, storeQ, storeFailed>>
        /\ phase = "down"
    BY <1>3 DEF Restart, records, store
  <2>2. known = {} /\ Reachable' = Reachable
    BY <2>1 DEF RecoveryInv, Waking, Reachable, Ahead, OnDisk
  <2> QED
    BY <2>1, <2>2 DEF RecordsInv
<1>4. CASE BootCompletes
  <2>1. /\ UNCHANGED <<fault, head, storeQ, storeFailed>>
        /\ known' \subseteq known /\ OnDisk' \subseteq OnDisk /\ phase' = "up"
    BY <1>4 DEF BootCompletes, BootFrame, OnDisk, Without, NoRecord
  <2>2. Reachable' \subseteq Reachable
    BY <2>1 DEF Reachable, Ahead
  <2> QED
    BY <1>1, <2>1, <2>2, FewerJobs DEF RecordsInv
<1>5. ASSUME NEW j \in Jobs, BootReads(j) PROVE RecordsInv'
  <2>1. /\ UNCHANGED <<fault, head, storeQ, storeFailed, phase>>
        /\ phase = "boot" /\ known' = known \cup {j} /\ j \in OnDisk
    BY <1>5 DEF BootReads, BootFrame
  <2>2. OnDisk' = OnDisk
    BY <1>5 DEF BootReads, OnDisk, Interrupted, TypeOK, RecordsType
  <2>3. Reachable' = Reachable /\ known' \subseteq OnDisk' /\ known' \subseteq Reachable
    BY <1>1, <2>1, <2>2 DEF Reachable, Ahead, RecordsInv
  <2> QED
    BY <1>1, <2>1, <2>3, FewerJobs DEF RecordsInv
<1>6. CASE UNCHANGED vars \/ \E j \in Jobs, r \in Requests : Submit(j, r)
  <2>1. UNCHANGED <<fault, known, disk, head, storeQ, storeFailed, phase>>
    BY <1>6 DEF Submit, vars, process, records, store
  <2> QED
    BY <2>1 DEF RecordsInv, Reachable, Ahead, OnDisk
<1> QED
  BY <1>2, <1>3, <1>4, <1>5, <1>6

\* Every step stays within the limit.
LEMMA RecordsStep ==
  ASSUME TypeOK, TypeOK', StartInv, RecoveryInv, RecoveryInv', RecordsInv, [Next]_vars
  PROVE  RecordsInv'
<1>1. CASE QuietStep \/ Pump \/ PumpResumes \/ PumpCleans
  BY <1>1, CalmBounds, BoundsKeep
<1>2. CASE \E j \in Jobs, ok \in BOOLEAN, c \in Closers :
              \/ CompletionAudited(j, ok) \/ FailureAudited(j, ok) \/ OrphanAudited(j, ok)
              \/ FinishAudited(j, c, ok)
  BY <1>2, CalmBounds, BoundsKeep
<1>3. CASE Storing
  BY <1>3, StoreBounds, BoundsKeep
<1>4. CASE Lifecycle
  BY <1>1, <1>4, LifeLimited DEF Lifecycle, Exit, Crash, Boot, QuietStep
<1>5. CASE \E j \in Jobs : (\E r \in Requests : Submit(j, r)) \/ Admit(j)
  BY <1>5, LifeLimited, AdmitLimited
<1>6. CASE UNCHANGED vars
  BY <1>6, LifeLimited
<1>7. "none" \in Outcomes /\ TRUE \in BOOLEAN /\ "client" \in Closers
  BY DEF Outcomes, Closers
<1> QED
  BY <1>1, <1>2, <1>3, <1>4, <1>5, <1>6, <1>7
  DEF Next, Client, Submission, Running, Finishing, Pumping, QuietStep, JobSteps

\* The limit of records holds in memory and in the files throughout, although
\* a rejected or abandoned write may still reach its file.
THEOREM RecordsInvariant == Spec => []RecordsInv
<1>1. Init => RecordsInv
  <2> SUFFICES ASSUME Init PROVE RecordsInv
    OBVIOUS
  <2>1. known = {} /\ Reachable = {} /\ ~fault
    BY DEF Init, Reachable, Ahead, OnDisk, NoRecord
  <2> QED
    BY <2>1, FS_EmptySet, BackgroundJobsAssumption DEF RecordsInv
<1>2. /\ TypeOK /\ TypeOK' /\ StartInv /\ RecoveryInv /\ RecoveryInv' /\ RecordsInv
      /\ [Next]_vars
      => RecordsInv'
  BY RecordsStep
<1> QED
  BY <1>1, <1>2, TypeCorrect, StartInvariant, RecoveryInvariant, PTL DEF Spec

\* The capacity of commands, the limit of unfinished jobs and the limit of
\* records are never exceeded, in memory or in the files, whatever the limits.
THEOREM CapacityBounded == Spec => []WithinCapacity
<1>1. TypeOK /\ Bounded /\ RecordsInv => WithinCapacity
  BY RecordsImply DEF Bounded, WithinCapacity
<1> QED
  BY <1>1, TypeCorrect, CapacityInvariant, RecordsInvariant, PTL

=============================================================================
