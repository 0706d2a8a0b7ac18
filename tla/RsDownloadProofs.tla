-------------------------- MODULE RsDownloadProofs --------------------------
(***************************************************************************)
(* Proofs about RsDownload, for any file, any peers and any number of       *)
(* downloads, faults and attempts: the scheduler neither loses a block nor  *)
(* loads one twice (Accounted), a download that says it is done has the      *)
(* whole file in place (SuccessWhole), and only what happens on this        *)
(* machine leaves a file cut short at the destination                       *)
(* (OnlyLocalDamageSticks).                                                *)
(*                                                                         *)
(* The last one rests on the first: the loop ends when nothing is queued or *)
(* under way, and then every block is there (Once), stays there unless      *)
(* something local takes it, and is whole or about to be, because what is   *)
(* torn is never written (Unharmed).                                       *)
(***************************************************************************)
EXTENDS RsDownload, FiniteSetTheorems, TLAPS

Phases == {"idle", "entry", "have", "scan", "load", "build", "done", "failed"}

N == Len(HashOf)

Items(s) == {s[k] : k \in 1..Len(s)}
Distinct(s) == \A j, k \in 1..Len(s) : s[j] = s[k] => j = k

Queued == Items(pending)
Tasked == {t.part : t \in tasks}
TasksOf(p) == {t \in tasks : t.peer = p}

Shape ==
    /\ store \in [Hash -> {Absent, Filling, Torn, Whole}]
    /\ dest \in {Absent, Torn, Whole}
    /\ pc \in Phases
    /\ have \in [Hash -> SUBSET Peer]
    /\ pending \in Seq(Part)
    /\ tasks \in SUBSET Task /\ IsFiniteSet(tasks)
    /\ inFlight \in [Peer -> Int]
    /\ passed \in 0..N /\ intact \in BOOLEAN
    /\ got \in SUBSET Part
    /\ damaged \in BOOLEAN

(* Before the scan nothing is queued, under way or there. *)
Unbegun ==
    pc \in {"entry", "have"} =>
        /\ pending = <<>> /\ tasks = {} /\ got = {}
        /\ passed = 0
        /\ inFlight = [p \in Peer |-> 0]

(* Of the parts the scan has passed, in the end of all, each is queued,     *)
(* under way or there, and only once.                                      *)
Once ==
    pc \in {"scan", "load"} =>
        /\ Distinct(pending)
        /\ \A t, u \in tasks : t.part = u.part => t = u
        /\ Queued \cap Tasked = {} /\ Queued \cap got = {} /\ Tasked \cap got = {}
        /\ Queued \cup Tasked \cup got = IF pc = "scan" THEN 1..passed ELSE Part
        /\ Len(pending) + Cardinality(tasks) + Cardinality(got) = IF pc = "scan" THEN passed ELSE N
        /\ \A p \in Peer : inFlight[p] = Cardinality(TasksOf(p))
        /\ pc = "scan" => tasks = {} /\ passed < N
        /\ pc = "load" => passed = 0

(* What holds until this machine does damage: what is there stays, and is   *)
(* whole when the daemon has filled it.                                    *)
Unharmed ==
    ~damaged =>
        /\ \A h \in Hash : store[h] # Torn
        /\ pc \in {"scan", "load", "build"} => \A i \in got : store[HashOf[i]] # Absent
        /\ pc = "build" => got = Part
        /\ pc \in {"entry", "have", "scan", "load", "build"} => intact
        /\ dest = Torn => pc = "build"

Inv == Shape /\ Unbegun /\ Once /\ Unharmed /\ SuccessWhole

-----------------------------------------------------------------------------
LEMMA Parts ==
    /\ N \in Nat \ {0} /\ Part = 1..N /\ IsFiniteSet(Part)
    /\ \A i \in Part : HashOf[i] \in Hash
    /\ Absent # Torn /\ Torn # Whole /\ Whole # Absent
    /\ Filling \notin {Absent, Torn, Whole}
<1>1. N \in Nat \ {0} /\ Part = 1..N
  BY DownloadAssumption DEF N, Part
<1>2. IsFiniteSet(Part)
  BY <1>1, FS_Interval
<1> QED
  BY <1>1, <1>2, DownloadAssumption DEF N

LEMMA TailQueue ==
    ASSUME NEW S, NEW s \in Seq(S), s # <<>>, Distinct(s)
    PROVE  /\ Tail(s) \in Seq(S) /\ Head(s) \in S /\ Distinct(Tail(s))
           /\ Head(s) \in Items(s) /\ Items(Tail(s)) = Items(s) \ {Head(s)}
           /\ Len(Tail(s)) = Len(s) - 1 /\ Len(s) \in Nat \ {0}
<1> DEFINE r == Tail(s)
<1>1. /\ r \in Seq(S) /\ Len(r) = Len(s) - 1 /\ Len(s) \in Nat \ {0}
      /\ Head(s) = s[1] /\ s[1] \in S /\ 1 \in 1..Len(s)
      /\ \A k \in 1..Len(r) : r[k] = s[k + 1] /\ k + 1 \in 1..Len(s) /\ k + 1 # 1
  OBVIOUS
<1>2. \A k \in 1..Len(s) : k # 1 => k - 1 \in 1..Len(r) /\ s[k] = r[k - 1]
  BY <1>1
<1> HIDE DEF r
<1>3. Distinct(r)
  <2> SUFFICES ASSUME NEW j \in 1..Len(r), NEW k \in 1..Len(r), r[j] = r[k] PROVE j = k
    BY DEF Distinct
  <2>1. s[j + 1] = s[k + 1] /\ j + 1 \in 1..Len(s) /\ k + 1 \in 1..Len(s)
    BY <1>1
  <2>2. j + 1 = k + 1
    BY <2>1 DEF Distinct
  <2> QED
    BY <1>1, <2>2
<1>4. Items(r) = Items(s) \ {s[1]}
  <2>1. \A k \in 1..Len(r) : r[k] # s[1]
    BY <1>1 DEF Distinct
  <2>2. Items(r) \subseteq Items(s) \ {s[1]}
    BY <1>1, <2>1 DEF Items
  <2>3. Items(s) \ {s[1]} \subseteq Items(r)
    BY <1>2 DEF Items
  <2> QED
    BY <2>2, <2>3
<1> QED
  BY <1>1, <1>3, <1>4 DEF r, Items

LEMMA AppendQueue ==
    ASSUME NEW S, NEW s \in Seq(S), NEW x \in S, Distinct(s), x \notin Items(s)
    PROVE  /\ Append(s, x) \in Seq(S) /\ Append(s, x) # <<>> /\ Distinct(Append(s, x))
           /\ Items(Append(s, x)) = Items(s) \cup {x}
           /\ Len(Append(s, x)) = Len(s) + 1 /\ Len(s) \in Nat
<1> DEFINE r == Append(s, x)
<1>1. /\ r \in Seq(S) /\ Len(r) = Len(s) + 1 /\ Len(s) \in Nat /\ r[Len(r)] = x /\ r # <<>>
      /\ \A k \in 1..Len(s) : r[k] = s[k]
  OBVIOUS
<1> HIDE DEF r
<1>2. Distinct(r)
  <2>1. \A k \in 1..Len(r) : k # Len(r) => k \in 1..Len(s)
    BY <1>1
  <2>2. \A k \in 1..Len(s) : s[k] # x
    BY DEF Items
  <2> QED
    BY <1>1, <2>1, <2>2 DEF Distinct
<1>3. Items(r) = Items(s) \cup {x}
  <2>1. \A k \in 1..Len(r) : k \in 1..Len(s) \/ k = Len(r)
    BY <1>1
  <2>2. Len(r) \in 1..Len(r) /\ 1..Len(s) \subseteq 1..Len(r)
    BY <1>1
  <2> QED
    BY <1>1, <2>1, <2>2 DEF Items
<1> QED
  BY <1>1, <1>2, <1>3 DEF r

LEMMA SwapElement ==
    ASSUME NEW S, IsFiniteSet(S), NEW x \in S, NEW y, y \notin S \ {x}
    PROVE  /\ IsFiniteSet((S \ {x}) \cup {y})
           /\ Cardinality((S \ {x}) \cup {y}) = Cardinality(S)
<1> DEFINE R == S \ {x}
<1>1. IsFiniteSet(R) /\ Cardinality(R) = Cardinality(S) - 1 /\ Cardinality(S) \in Nat
  BY FS_RemoveElement, FS_CardinalityType
<1>2. y \notin R
  OBVIOUS
<1> HIDE DEF R
<1>3. IsFiniteSet(R \cup {y}) /\ Cardinality(R \cup {y}) = Cardinality(R) + 1
  BY <1>1, <1>2, FS_AddElement
<1>4. Cardinality(R \cup {y}) = Cardinality(S)
  BY <1>1, <1>3
<1> QED
  BY <1>3, <1>4 DEF R

LEMMA InitInv == Init => Inv
<1> SUFFICES ASSUME Init PROVE Inv
  OBVIOUS
<1>1. Shape
  <2>1. <<>> \in Seq(Part) /\ {} \in SUBSET Part /\ 0 \in 0..N
    BY Parts
  <2>2. /\ store \in [Hash -> {Absent, Filling, Torn, Whole}] /\ have \in [Hash -> SUBSET Peer]
        /\ inFlight \in [Peer -> Int]
    BY DEF Init
  <2>3. /\ dest \in {Absent, Torn, Whole} /\ pc \in Phases
        /\ tasks \in SUBSET Task /\ got \in SUBSET Part
        /\ intact \in BOOLEAN /\ damaged \in BOOLEAN
    BY DEF Init, Phases
  <2>4. pending \in Seq(Part) /\ passed \in 0..N /\ IsFiniteSet(tasks)
    BY <2>1, FS_EmptySet DEF Init
  <2> QED
    BY <2>2, <2>3, <2>4 DEF Shape
<1>2. Unbegun /\ Once /\ SuccessWhole
  BY DEF Init, Unbegun, Once, SuccessWhole
<1>3. Unharmed
  BY Parts DEF Init, Unharmed
<1> QED
  BY <1>1, <1>2, <1>3 DEF Inv

(* A step that begins a download, or goes through its first requests. *)
LEMMA BeginningInv ==
    ASSUME Inv, Start \/ Entry \/ Have
    PROVE  Inv'
<1>1. CASE Start
  <2>1. /\ pc \in {"idle", "failed"} /\ pc' = "entry" /\ pending' = <<>> /\ tasks' = {}
        /\ got' = {} /\ passed' = 0 /\ inFlight' = [p \in Peer |-> 0] /\ intact' = TRUE
        /\ have' = [h \in Hash |-> {}] /\ UNCHANGED <<store, dest, damaged>>
    BY <1>1 DEF Start, Fresh, Disk
  <2>2. Shape'
    BY <2>1, Parts, FS_EmptySet DEF Inv, Shape, Phases
  <2> QED
    BY <2>1, <2>2 DEF Inv, Unbegun, Once, Unharmed, SuccessWhole
<1>2. CASE Entry
  <2>1. /\ pc = "entry" /\ pc' \in {"have", "failed"}
        /\ dest # Absent => pc' = "failed"
        /\ have' = have /\ UNCHANGED <<store, dest, damaged, pending, tasks, inFlight, got, passed, intact>>
    BY <1>2 DEF Entry, World, Loading, Building
  <2>2. Shape'
    BY <2>1 DEF Inv, Shape, Phases
  <2> QED
    BY <2>1, <2>2 DEF Inv, Unbegun, Once, Unharmed, SuccessWhole
<1>3. CASE Have
  <2>1. /\ pc = "have" /\ pc' = "scan"
        /\ \E P \in SUBSET Peer : have' = [h \in Hash |-> {p \in P : h \in holds[p]}]
        /\ UNCHANGED <<store, dest, damaged, pending, tasks, inFlight, got, passed, intact>>
    BY <1>3 DEF Have, World, Disk, Building
  <2>2. Shape'
    BY <2>1 DEF Inv, Shape, Phases
  <2>3. pending = <<>> /\ tasks = {} /\ got = {} /\ passed = 0 /\ inFlight = [p \in Peer |-> 0]
    BY <2>1 DEF Inv, Unbegun
  <2>4. Once'
    <3>1. Distinct(<<>>) /\ Items(<<>>) = {} /\ Len(<<>>) = 0 /\ 1..0 = {}
      BY DEF Distinct, Items
    <3>2. Cardinality({}) = 0
      BY FS_EmptySet
    <3>3. /\ pending' = <<>> /\ tasks' = {} /\ got' = {} /\ passed' = 0 /\ pc' = "scan"
          /\ Queued' = {} /\ Tasked' = {} /\ \A p \in Peer : TasksOf(p)' = {} /\ inFlight'[p] = 0
      BY <2>1, <2>3, <3>1 DEF Queued, Tasked, TasksOf
    <3>4. Len(pending') + Cardinality(tasks') + Cardinality(got') = 0
      BY <3>1, <3>2, <3>3
    <3>5. /\ Distinct(pending') /\ Queued' \cup Tasked' \cup got' = 1..passed'
          /\ \A p \in Peer : inFlight'[p] = Cardinality(TasksOf(p)')
      BY <3>1, <3>2, <3>3
    <3> QED
      BY <3>3, <3>4, <3>5, Parts DEF Once
  <2> QED
    BY <2>1, <2>2, <2>3, <2>4 DEF Inv, Unbegun, Unharmed, SuccessWhole
<1> QED
  BY <1>1, <1>2, <1>3

LEMMA ScanInv ==
    ASSUME Inv, Scan
    PROVE  Inv'
<1> DEFINE i == passed + 1
<1>1. /\ pc = "scan"
      /\ UNCHANGED <<store, dest, damaged, have, tasks, inFlight, intact>>
      /\ \/ store[HashOf[i]] # Absent /\ got' = got \cup {i} /\ pending' = pending
         \/ pending' = Append(pending, i) /\ got' = got
      /\ \/ i < N /\ passed' = i /\ pc' = "scan"
         \/ ~(i < N) /\ passed' = 0 /\ pc' = IF pending' = <<>> THEN "build" ELSE "load"
  BY DEF Scan, HasBlock, World, Disk, N
<1>2. /\ Shape /\ Unharmed /\ SuccessWhole /\ Distinct(pending) /\ tasks = {} /\ passed < N
      /\ Queued \cap got = {} /\ Queued \cup Tasked \cup got = 1..passed
      /\ Len(pending) + Cardinality(tasks) + Cardinality(got) = passed
      /\ \A p \in Peer : inFlight[p] = Cardinality(TasksOf(p))
  BY <1>1 DEF Inv, Once
<1>3. Tasked = {} /\ Cardinality(tasks) = 0 /\ Queued \cup got = 1..passed
  BY <1>2, FS_EmptySet DEF Tasked
<1>4. i \in Part /\ i \notin Queued /\ i \notin got /\ passed \in Nat /\ 1..i = (1..passed) \cup {i}
  BY <1>2, <1>3, Parts DEF Shape
<1>5. IsFiniteSet(got) /\ Cardinality(got) \in Nat /\ Len(pending) \in Nat
  BY <1>2, Parts, FS_Subset, FS_CardinalityType DEF Shape
<1>6. /\ pending' \in Seq(Part) /\ Distinct(pending') /\ got' \in SUBSET Part
      /\ Queued' \cap got' = {} /\ Queued' \cup got' = 1..i
      /\ Len(pending') + Cardinality(got') = i
  <2>1. CASE got' = got \cup {i} /\ pending' = pending
    <3>1. Cardinality(got') = Cardinality(got) + 1
      BY <1>4, <1>5, <2>1, FS_AddElement
    <3>2. pending' \in Seq(Part) /\ got' \in SUBSET Part /\ Queued' = Queued
      BY <1>2, <1>4, <2>1 DEF Shape, Queued
    <3>3. Queued' \cap got' = {} /\ Queued' \cup got' = 1..i
      BY <1>2, <1>3, <1>4, <2>1, <3>2
    <3>4. Len(pending') + Cardinality(got') = i
      BY <1>2, <1>3, <1>4, <1>5, <2>1, <3>1
    <3> QED
      BY <1>2, <2>1, <3>2, <3>3, <3>4
  <2>2. CASE pending' = Append(pending, i) /\ got' = got
    <3>1. /\ pending' \in Seq(Part) /\ Distinct(pending') /\ Queued' = Queued \cup {i}
          /\ Len(pending') = Len(pending) + 1
      BY <1>2, <1>4, <2>2, AppendQueue DEF Shape, Queued
    <3>2. got' \in SUBSET Part /\ Queued' \cap got' = {} /\ Queued' \cup got' = 1..i
      BY <1>2, <1>3, <1>4, <2>2, <3>1 DEF Shape
    <3>3. Len(pending') + Cardinality(got') = i
      BY <1>2, <1>3, <1>4, <1>5, <2>2, <3>1
    <3> QED
      BY <3>1, <3>2, <3>3
  <2> QED
    BY <1>1, <2>1, <2>2
<1>7. pc' \in {"scan", "load", "build"} /\ passed' \in 0..N
  BY <1>1, <1>4, Parts
<1>8. Shape'
  BY <1>1, <1>2, <1>6, <1>7 DEF Shape, Phases
<1>9. ~(i < N) => i = N /\ 1..i = Part
  BY <1>4, Parts
<1>10. tasks' = {} /\ Tasked' = {} /\ \A p \in Peer : inFlight'[p] = Cardinality(TasksOf(p)')
  BY <1>1, <1>2 DEF Tasked, TasksOf
<1>11. Once'
  BY <1>1, <1>3, <1>5, <1>6, <1>9, <1>10 DEF Once
<1>12. pc' = "build" => got' = Part
  <2>1. pending' = <<>> => Queued' = {}
    BY DEF Queued, Items
  <2> QED
    BY <1>1, <1>6, <1>9, <2>1
<1>13. Unharmed'
  BY <1>1, <1>2, <1>7, <1>12 DEF Unharmed
<1> QED
  BY <1>7, <1>8, <1>11, <1>13 DEF Inv, Unbegun, SuccessWhole

(* The counts of the loop. *)
LEMMA Counts ==
    ASSUME Inv, pc = "load"
    PROVE  /\ Shape /\ Unharmed /\ Distinct(pending) /\ passed = 0
           /\ \A t, u \in tasks : t.part = u.part => t = u
           /\ Queued \cap Tasked = {} /\ Queued \cap got = {} /\ Tasked \cap got = {}
           /\ Queued \cup Tasked \cup got = Part
           /\ Len(pending) + Cardinality(tasks) + Cardinality(got) = N
           /\ \A p \in Peer : /\ inFlight[p] = Cardinality(TasksOf(p))
                              /\ IsFiniteSet(TasksOf(p)) /\ Cardinality(TasksOf(p)) \in Nat
           /\ IsFiniteSet(tasks) /\ Cardinality(tasks) \in Nat
           /\ IsFiniteSet(got) /\ Cardinality(got) \in Nat /\ Len(pending) \in Nat
<1>1. Shape /\ Unharmed /\ Once
  BY DEF Inv
<1>2. \A p \in Peer : TasksOf(p) \in SUBSET tasks
  BY DEF TasksOf
<1>3. \A p \in Peer : IsFiniteSet(TasksOf(p)) /\ Cardinality(TasksOf(p)) \in Nat
  BY <1>1, <1>2, FS_Subset, FS_CardinalityType DEF Shape
<1>4. /\ IsFiniteSet(tasks) /\ Cardinality(tasks) \in Nat
      /\ IsFiniteSet(got) /\ Cardinality(got) \in Nat /\ Len(pending) \in Nat
  <2>1. IsFiniteSet(tasks) /\ got \in SUBSET Part /\ pending \in Seq(Part)
    BY <1>1 DEF Shape
  <2>2. IsFiniteSet(got)
    BY <2>1, Parts, FS_Subset
  <2>3. Len(pending) \in Nat
    BY <2>1
  <2> QED
    BY <2>1, <2>2, <2>3, FS_CardinalityType
<1> QED
  BY <1>1, <1>3, <1>4 DEF Once

LEMMA RequestInv ==
    ASSUME Inv, Request
    PROVE  Inv'
<1>1. PICK p \in Peer :
          /\ pc = "load" /\ pending # <<>> /\ pending' = Tail(pending)
          /\ tasks' = tasks \cup {[part |-> Head(pending), peer |-> p, stalled |-> FALSE]}
          /\ inFlight' = [inFlight EXCEPT ![p] = @ + 1]
          /\ UNCHANGED <<store, dest, pc, damaged, have, got, passed, intact>>
  <2>1. /\ pc = "load" /\ pending # <<>> /\ pending' = Tail(pending)
        /\ UNCHANGED <<store, dest, pc, damaged, have, got, passed, intact>>
    BY DEF Request, Disk, World, Building
  <2>2. \A p \in Best(Candidates(HashOf[Head(pending)])) : p \in Peer
    <3>1. HashOf[Head(pending)] \in Hash
      BY <2>1, Parts DEF Inv, Shape
    <3> QED
      BY <3>1 DEF Best, Candidates, Inv, Shape
  <2> QED
    BY <2>1, <2>2 DEF Request
<1> DEFINE i == Head(pending)
           t == [part |-> i, peer |-> p, stalled |-> FALSE]
<1>2. /\ Shape /\ Unharmed /\ Distinct(pending) /\ passed = 0
      /\ \A v, u \in tasks : v.part = u.part => v = u
      /\ Queued \cap Tasked = {} /\ Queued \cap got = {} /\ Tasked \cap got = {}
      /\ Queued \cup Tasked \cup got = Part
      /\ Len(pending) + Cardinality(tasks) + Cardinality(got) = N
      /\ \A q \in Peer : /\ inFlight[q] = Cardinality(TasksOf(q))
                         /\ IsFiniteSet(TasksOf(q)) /\ Cardinality(TasksOf(q)) \in Nat
      /\ IsFiniteSet(tasks) /\ Cardinality(tasks) \in Nat
      /\ IsFiniteSet(got) /\ Cardinality(got) \in Nat /\ Len(pending) \in Nat
  BY <1>1, Counts
<1>3. /\ pending' \in Seq(Part) /\ i \in Part /\ Distinct(pending')
      /\ i \in Queued /\ Queued' = Queued \ {i}
      /\ Len(pending') = Len(pending) - 1
  BY <1>1, <1>2, TailQueue DEF Shape, Queued
<1>4. t \in Task /\ t.part = i /\ t.peer = p
  BY <1>3 DEF Task
<1> HIDE DEF i, t
<1>5. tasks' = tasks \cup {t}
  BY <1>1 DEF i, t
<1>6. t \notin tasks /\ Tasked' = Tasked \cup {i}
  <2>1. \A u \in tasks : u.part \in Tasked
    BY DEF Tasked
  <2> QED
    BY <1>2, <1>3, <1>4, <1>5, <2>1 DEF Tasked
<1>7. IsFiniteSet(tasks') /\ Cardinality(tasks') = Cardinality(tasks) + 1
  BY <1>2, <1>5, <1>6, FS_AddElement
<1>8. \A q \in Peer : inFlight'[q] = Cardinality(TasksOf(q)')
  <2> SUFFICES ASSUME NEW q \in Peer PROVE inFlight'[q] = Cardinality(TasksOf(q)')
    OBVIOUS
  <2>1. CASE q = p
    <3>1. TasksOf(q)' = TasksOf(q) \cup {t} /\ t \notin TasksOf(q)
      BY <1>4, <1>5, <1>6, <2>1 DEF TasksOf
    <3>2. Cardinality(TasksOf(q)') = Cardinality(TasksOf(q)) + 1
      BY <1>2, <3>1, FS_AddElement
    <3> QED
      BY <1>1, <1>2, <2>1, <3>2 DEF Shape
  <2>2. CASE q # p
    <3>1. TasksOf(q)' = TasksOf(q)
      BY <1>4, <1>5, <2>2 DEF TasksOf
    <3> QED
      BY <1>1, <1>2, <2>2, <3>1 DEF Shape
  <2> QED
    BY <2>1, <2>2
<1>9. Shape'
  BY <1>1, <1>2, <1>3, <1>4, <1>5, <1>7 DEF Shape
<1>10. Once'
  <2>1. \A v, u \in tasks' : v.part = u.part => v = u
    BY <1>2, <1>3, <1>4, <1>5 DEF Tasked
  <2>2. /\ Queued' \cap Tasked' = {} /\ Queued' \cap got = {} /\ Tasked' \cap got = {}
        /\ Queued' \cup Tasked' \cup got = Part
    BY <1>2, <1>3, <1>6
  <2>3. Len(pending') + Cardinality(tasks') + Cardinality(got) = N
    BY <1>2, <1>3, <1>7
  <2> QED
    BY <1>1, <1>2, <1>3, <1>8, <2>1, <2>2, <2>3 DEF Once
<1>11. Unharmed'
  BY <1>1, <1>2 DEF Unharmed
<1> QED
  BY <1>1, <1>9, <1>10, <1>11 DEF Inv, Unbegun, SuccessWhole

LEMMA StallInv ==
    ASSUME Inv, NEW t \in tasks, Stall(t)
    PROVE  Inv'
<1> DEFINE w == [t EXCEPT !.stalled = TRUE]
<1>1. /\ pc = "load" /\ tasks' = (tasks \ {t}) \cup {w}
      /\ UNCHANGED <<store, dest, pc, damaged, have, pending, inFlight, got, passed, intact>>
  BY DEF Stall, Disk, World, Building
<1>2. /\ Shape /\ Unharmed /\ Distinct(pending) /\ passed = 0
      /\ \A v, u \in tasks : v.part = u.part => v = u
      /\ Queued \cap Tasked = {} /\ Queued \cap got = {} /\ Tasked \cap got = {}
      /\ Queued \cup Tasked \cup got = Part
      /\ Len(pending) + Cardinality(tasks) + Cardinality(got) = N
      /\ \A q \in Peer : /\ inFlight[q] = Cardinality(TasksOf(q))
                         /\ IsFiniteSet(TasksOf(q)) /\ Cardinality(TasksOf(q)) \in Nat
      /\ IsFiniteSet(tasks) /\ Cardinality(tasks) \in Nat
  BY <1>1, Counts
<1>3. t \in Task /\ w \in Task /\ w.part = t.part /\ w.peer = t.peer
  BY <1>2 DEF Shape, Task
<1> HIDE DEF w
<1>4. w \notin tasks \ {t} /\ Tasked' = Tasked /\ \A v, u \in tasks' : v.part = u.part => v = u
  BY <1>1, <1>2, <1>3 DEF Tasked
<1>5. IsFiniteSet(tasks') /\ Cardinality(tasks') = Cardinality(tasks)
  BY <1>1, <1>2, <1>4, SwapElement
<1>6. \A q \in Peer : inFlight'[q] = Cardinality(TasksOf(q)')
  <2> SUFFICES ASSUME NEW q \in Peer PROVE Cardinality(TasksOf(q)') = Cardinality(TasksOf(q))
    BY <1>1, <1>2
  <2>1. CASE q = t.peer
    <3>1. TasksOf(q)' = (TasksOf(q) \ {t}) \cup {w} /\ t \in TasksOf(q) /\ w \notin TasksOf(q) \ {t}
      BY <1>1, <1>3, <1>4, <2>1 DEF TasksOf
    <3> QED
      BY <1>2, <3>1, SwapElement
  <2>2. CASE q # t.peer
    BY <1>1, <1>3, <2>2 DEF TasksOf
  <2> QED
    BY <2>1, <2>2
<1>7. Shape'
  BY <1>1, <1>2, <1>3, <1>5 DEF Shape
<1>8. Once'
  BY <1>1, <1>2, <1>4, <1>5, <1>6 DEF Once, Queued
<1>9. Unharmed'
  BY <1>1, <1>2 DEF Unharmed
<1> QED
  BY <1>1, <1>7, <1>8, <1>9 DEF Inv, Unbegun, SuccessWhole

(* What a result leaves of the requests. *)
LEMMA TakenCounts ==
    ASSUME Inv, NEW t \in tasks, Taken(t)
    PROVE  /\ t.part \in Part /\ t.part \notin Queued /\ t.part \notin got
           /\ t.part \notin Tasked' /\ Tasked = Tasked' \cup {t.part}
           /\ tasks' \in SUBSET Task /\ IsFiniteSet(tasks')
           /\ Cardinality(tasks') \in Nat /\ Cardinality(tasks) = Cardinality(tasks') + 1
           /\ tasks' \subseteq tasks
           /\ inFlight' \in [Peer -> Int]
           /\ \A q \in Peer : inFlight'[q] = Cardinality(TasksOf(q)')
           /\ pc = "load" /\ UNCHANGED <<dest, have, passed, intact>>
<1>1. /\ pc = "load" /\ tasks' = tasks \ {t}
      /\ inFlight' = [inFlight EXCEPT ![t.peer] = @ - 1]
      /\ UNCHANGED <<dest, have, passed, intact>>
  BY DEF Taken, Building
<1>2. /\ Shape /\ \A v, u \in tasks : v.part = u.part => v = u
      /\ Queued \cap Tasked = {} /\ Tasked \cap got = {}
      /\ \A q \in Peer : /\ inFlight[q] = Cardinality(TasksOf(q))
                         /\ IsFiniteSet(TasksOf(q)) /\ Cardinality(TasksOf(q)) \in Nat
      /\ IsFiniteSet(tasks) /\ Cardinality(tasks) \in Nat
  BY <1>1, Counts
<1>3. t \in Task /\ t.part \in Part /\ t.peer \in Peer /\ t.part \in Tasked
  BY <1>2 DEF Shape, Task, Tasked
<1>4. t.part \notin Tasked' /\ Tasked = Tasked' \cup {t.part}
  BY <1>1, <1>2 DEF Tasked
<1>5. /\ IsFiniteSet(tasks') /\ Cardinality(tasks') = Cardinality(tasks) - 1
      /\ Cardinality(tasks') \in Nat
  BY <1>1, <1>2, FS_RemoveElement, FS_CardinalityType
<1>6. \A q \in Peer : inFlight'[q] = Cardinality(TasksOf(q)')
  <2> SUFFICES ASSUME NEW q \in Peer PROVE inFlight'[q] = Cardinality(TasksOf(q)')
    OBVIOUS
  <2>1. CASE q = t.peer
    <3>1. TasksOf(q)' = TasksOf(q) \ {t} /\ t \in TasksOf(q)
      BY <1>1, <2>1 DEF TasksOf
    <3>2. Cardinality(TasksOf(q)') = Cardinality(TasksOf(q)) - 1
      BY <1>2, <3>1, FS_RemoveElement
    <3> QED
      BY <1>1, <1>2, <2>1, <3>2 DEF Shape
  <2>2. CASE q # t.peer
    <3>1. TasksOf(q)' = TasksOf(q)
      BY <1>1, <2>2 DEF TasksOf
    <3> QED
      BY <1>1, <1>2, <2>2, <3>1 DEF Shape
  <2> QED
    BY <2>1, <2>2
<1> QED
  BY <1>1, <1>2, <1>3, <1>4, <1>5, <1>6 DEF Shape

(* A result that ends the loop finds all parts there. *)
LEMMA LoopGoesOn ==
    ASSUME Inv, NEW t \in tasks, Taken(t), pc' = NextPc, damaged' = damaged,
           pending' \in Seq(Part), Distinct(pending'), got' \in SUBSET Part,
           Queued' \cap Tasked' = {}, Queued' \cap got' = {}, Tasked' \cap got' = {},
           Queued' \cup Tasked' \cup got' = Part,
           Len(pending') + Cardinality(tasks') + Cardinality(got') = N,
           store' \in [Hash -> {Absent, Filling, Torn, Whole}],
           \A h \in Hash : store'[h] = store[h] \/ store'[h] = Whole,
           \A i \in got' : i \in got \/ store'[HashOf[i]] # Absent
    PROVE  Inv'
<1>1. /\ tasks' \in SUBSET Task /\ IsFiniteSet(tasks') /\ tasks' \subseteq tasks
      /\ inFlight' \in [Peer -> Int] /\ \A q \in Peer : inFlight'[q] = Cardinality(TasksOf(q)')
      /\ pc = "load" /\ UNCHANGED <<dest, have, passed, intact>>
  BY TakenCounts
<1>2. /\ Shape /\ Unharmed /\ passed = 0 /\ \A v, u \in tasks : v.part = u.part => v = u
  BY <1>1, Counts
<1>3. pc' \in {"load", "build"} /\ (pc' = "build" => pending' = <<>> /\ tasks' = {})
  BY DEF NextPc
<1>4. Shape'
  BY <1>1, <1>2, <1>3 DEF Shape, Phases
<1>5. Once'
  BY <1>1, <1>2, <1>3 DEF Once
<1>6. pc' = "build" => got' = Part
  <2>1. pending' = <<>> => Queued' = {}
    BY DEF Queued, Items
  <2>2. tasks' = {} => Tasked' = {}
    BY DEF Tasked
  <2> QED
    BY <1>3, <2>1, <2>2
<1>7. Unharmed'
  <2>1. \A i \in Part : HashOf[i] \in Hash
    BY Parts
  <2> QED
    BY <1>1, <1>2, <1>3, <1>6, <2>1, Parts DEF Unharmed
<1> QED
  BY <1>3, <1>4, <1>5, <1>7 DEF Inv, Unbegun, SuccessWhole

(* A download that fails leaves what there is, or damage. *)
LEMMA FailedInv ==
    ASSUME Inv, NEW t \in tasks, Taken(t), pc' = "failed", got' = got, pending' = pending,
           store' \in [Hash -> {Absent, Filling, Torn, Whole}],
           damaged' \in BOOLEAN, damaged \/ store' # store => damaged'
    PROVE  Inv'
<1>1. /\ tasks' \in SUBSET Task /\ IsFiniteSet(tasks') /\ inFlight' \in [Peer -> Int]
      /\ pc = "load" /\ UNCHANGED <<dest, have, passed, intact>>
  BY TakenCounts
<1>2. Shape'
  BY <1>1 DEF Inv, Shape, Phases
<1> QED
  BY <1>1, <1>2 DEF Inv, Unbegun, Once, Unharmed, SuccessWhole

LEMMA ResultInv ==
    ASSUME Inv, NEW t \in tasks, Result(t)
    PROVE  Inv'
<1> DEFINE i == t.part
<1>0. Taken(t)
  BY DEF Result, BlockArrives, WrongBlockArrives, WriteFails, RequestFails
<1>1. /\ i \in Part /\ i \notin Queued /\ i \notin got /\ i \notin Tasked'
      /\ Tasked = Tasked' \cup {i} /\ tasks' \subseteq tasks
      /\ Cardinality(tasks') \in Nat /\ Cardinality(tasks) = Cardinality(tasks') + 1
      /\ pc = "load"
  BY <1>0, TakenCounts
<1>2. /\ Shape /\ Distinct(pending)
      /\ Queued \cap Tasked = {} /\ Queued \cap got = {} /\ Tasked \cap got = {}
      /\ Queued \cup Tasked \cup got = Part
      /\ Len(pending) + Cardinality(tasks) + Cardinality(got) = N
      /\ IsFiniteSet(got) /\ Cardinality(got) \in Nat /\ Len(pending) \in Nat
  BY <1>1, Counts
<1>3. CASE BlockArrives(t)
  <2>1. /\ store' = [store EXCEPT ![HashOf[i]] = IF @ = Absent THEN Whole ELSE @]
        /\ got' = got \cup {i} /\ pending' = pending /\ pc' = NextPc /\ damaged' = damaged
    BY <1>3 DEF BlockArrives
  <2>2. HashOf[i] \in Hash /\ Absent # Whole
    BY <1>1, Parts
  <2>3. /\ store' \in [Hash -> {Absent, Filling, Torn, Whole}] /\ store'[HashOf[i]] # Absent
        /\ \A h \in Hash : store'[h] = store[h] \/ store'[h] = Whole
    BY <1>2, <2>1, <2>2 DEF Shape
  <2>4. Cardinality(got') = Cardinality(got) + 1
    BY <1>1, <1>2, <2>1, FS_AddElement
  <2>5. Queued' = Queued
    BY <2>1 DEF Queued
  <2>6. /\ pending' \in Seq(Part) /\ Distinct(pending') /\ got' \in SUBSET Part
        /\ Queued' \cap Tasked' = {} /\ Queued' \cap got' = {} /\ Tasked' \cap got' = {}
        /\ Queued' \cup Tasked' \cup got' = Part
        /\ Len(pending') + Cardinality(tasks') + Cardinality(got') = N
    <3>1. pending' \in Seq(Part) /\ Distinct(pending') /\ got' \in SUBSET Part
      BY <1>1, <1>2, <2>1 DEF Shape
    <3>2. /\ Queued' \cap Tasked' = {} /\ Queued' \cap got' = {} /\ Tasked' \cap got' = {}
          /\ Queued' \cup Tasked' \cup got' = Part
      BY <1>1, <1>2, <2>1, <2>5
    <3>3. Len(pending') + Cardinality(tasks') + Cardinality(got') = N
      BY <1>1, <1>2, <2>1, <2>4
    <3> QED
      BY <3>1, <3>2, <3>3
  <2>7. \A j \in got' : j \in got \/ store'[HashOf[j]] # Absent
    BY <2>1, <2>3
  <2> QED
    BY <1>0, <2>1, <2>3, <2>6, <2>7, LoopGoesOn
<1>4. CASE WrongBlockArrives(t)
  <2>1. /\ pc' = "failed" /\ got' = got /\ pending' = pending
        /\ store' = store /\ damaged' = damaged
    BY <1>4 DEF WrongBlockArrives, WrongData
  <2> QED
    BY <1>0, <1>2, <2>1, FailedInv DEF Shape
<1>7. CASE WriteFails(t)
  <2>1. /\ pc' = "failed" /\ got' = got /\ pending' = pending
        /\ damaged' = (damaged \/ store' # store)
        /\ \E left \in {Absent, Torn} : store' = [store EXCEPT ![HashOf[i]] = left]
    BY <1>7 DEF WriteFails
  <2>2. store' \in [Hash -> {Absent, Filling, Torn, Whole}] /\ damaged' \in BOOLEAN
    BY <1>2, <2>1 DEF Shape
  <2> QED
    BY <1>0, <2>1, <2>2, FailedInv
<1>5. CASE RequestFails(t) /\ pc' = "failed"
  <2>1. store' = store /\ got' = got /\ damaged' = damaged
    BY <1>5 DEF RequestFails
  <2>2. CASE pending' = pending
    BY <1>0, <1>2, <1>5, <2>1, <2>2, FailedInv DEF Shape
  <2>3. CASE pending' # pending
    BY <1>5, <2>3 DEF RequestFails, NextPc
  <2> QED
    BY <2>2, <2>3
<1>6. CASE RequestFails(t) /\ pc' # "failed"
  <2>1. /\ pending' = Append(pending, i) /\ store' = store /\ got' = got /\ pc' = NextPc
        /\ damaged' = damaged
    BY <1>6 DEF RequestFails, Requeued
  <2>2. /\ pending' \in Seq(Part) /\ Distinct(pending') /\ Queued' = Queued \cup {i}
        /\ Len(pending') = Len(pending) + 1
    BY <1>1, <1>2, <2>1, AppendQueue DEF Shape, Queued
  <2>3. /\ Queued' \cap Tasked' = {} /\ Queued' \cap got' = {} /\ Tasked' \cap got' = {}
        /\ Queued' \cup Tasked' \cup got' = Part
        /\ Len(pending') + Cardinality(tasks') + Cardinality(got') = N
    <3>1. /\ Queued' \cap Tasked' = {} /\ Queued' \cap got' = {} /\ Tasked' \cap got' = {}
          /\ Queued' \cup Tasked' \cup got' = Part
      BY <1>1, <1>2, <2>1, <2>2
    <3>2. Len(pending') + Cardinality(tasks') + Cardinality(got') = N
      BY <1>1, <1>2, <2>1, <2>2
    <3> QED
      BY <3>1, <3>2
  <2>4. /\ got' \in SUBSET Part /\ store' \in [Hash -> {Absent, Filling, Torn, Whole}]
        /\ \A h \in Hash : store'[h] = store[h]
    BY <1>2, <2>1 DEF Shape
  <2> QED
    BY <1>0, <2>1, <2>2, <2>3, <2>4, LoopGoesOn
<1> QED
  BY <1>3, <1>4, <1>5, <1>6, <1>7 DEF Result

LEMMA EndInv ==
    ASSUME Inv, Build \/ BuildFails \/ Finish
    PROVE  Inv'
<1>1. Shape /\ Unharmed /\ SuccessWhole
  BY DEF Inv
<1>2. CASE Build
  <2>1. /\ pc = "build" /\ passed < N /\ dest' = Torn
        /\ UNCHANGED <<store, have, pending, tasks, inFlight, got>>
        /\ damaged' = (damaged \/ store[HashOf[passed + 1]] = Filling)
        /\ \/ /\ store[HashOf[passed + 1]] = Absent /\ pc' = "failed"
              /\ UNCHANGED <<passed, intact>>
           \/ /\ passed' = passed + 1 /\ pc' = pc
              /\ intact' = (intact /\ store[HashOf[passed + 1]] = Whole)
    BY <1>2 DEF Build, Disk, Loading, Building, N
  <2>2. passed + 1 \in Part /\ HashOf[passed + 1] \in Hash
    BY <1>1, <2>1, Parts DEF Shape
  <2>3. Shape'
    <3>1. N \in Nat /\ passed \in 0..N /\ passed' \in 0..N
      BY <1>1, <2>1, Parts DEF Shape
    <3>2. /\ dest' \in {Absent, Torn, Whole} /\ pc' \in Phases /\ intact' \in BOOLEAN
          /\ damaged' \in BOOLEAN
      BY <1>1, <2>1 DEF Shape, Phases
    <3> QED
      BY <1>1, <2>1, <3>1, <3>2 DEF Shape
  <2>4. Unharmed'
    <3>1. ~damaged' => ~damaged /\ store[HashOf[passed + 1]] = Whole
      BY <1>1, <2>1, <2>2 DEF Unharmed, Shape
    <3> QED
      BY <1>1, <2>1, <3>1, Parts DEF Unharmed
  <2> QED
    BY <2>1, <2>3, <2>4 DEF Inv, Unbegun, Once, SuccessWhole
<1>3. CASE Finish
  <2>1. /\ pc = "build" /\ UNCHANGED <<have, pending, tasks, inFlight, got, passed, intact, damaged>>
        /\ \/ /\ intact /\ pc' = "done" /\ dest' = Whole
              /\ store' = Pruned
           \/ ~intact /\ pc' = "failed" /\ dest' = dest /\ store' = store
    BY <1>3 DEF Finish, Accepted, Disk, World, Loading, Building
  <2>2. Shape'
    BY <1>1, <2>1 DEF Shape, Phases, Pruned
  <2>3. Unharmed'
    BY <1>1, <2>1, Parts DEF Unharmed, Shape, Pruned
  <2> QED
    BY <2>1, <2>2, <2>3 DEF Inv, Unbegun, Once, SuccessWhole
<1>4. CASE BuildFails
  <2>1. /\ pc = "build" /\ pc' = "failed" /\ damaged' = TRUE
        /\ dest' \in IF dest = Absent THEN {Absent, Torn} ELSE {dest}
        /\ UNCHANGED <<store, have, pending, tasks, inFlight, got, passed, intact>>
    BY <1>4 DEF BuildFails, Disk, Loading, Building
  <2>2. dest' \in {Absent, Torn, Whole}
    BY <1>1, <2>1 DEF Shape
  <2>3. Shape' /\ Unharmed'
    BY <1>1, <2>1, <2>2 DEF Shape, Unharmed, Phases
  <2> QED
    BY <2>1, <2>3 DEF Inv, Unbegun, Once, SuccessWhole
<1> QED
  BY <1>2, <1>3, <1>4

(* The daemon, other downloads, and a kill. *)
LEMMA AroundInv ==
    ASSUME Inv,
           \/ Deleted \/ OtherPrunes \/ Relisted \/ Kill
           \/ \E h \in Hash :
                DaemonFinds(h) \/ DaemonCreates(h) \/ DaemonFills(h) \/ DaemonStops(h)
    PROVE  Inv'
<1>1. Shape /\ Unharmed
  BY DEF Inv
<1>2. ASSUME UNCHANGED <<dest, pc, have, pending, tasks, inFlight, got, passed, intact>>,
             store' \in [Hash -> {Absent, Filling, Torn, Whole}], damaged' \in BOOLEAN,
             Unharmed'
      PROVE  Inv'
  <2>1. Shape'
    BY <1>1, <1>2 DEF Shape
  <2>2. Unbegun' /\ Once' /\ SuccessWhole'
    BY <1>2 DEF Inv, Unbegun, Once, SuccessWhole, Queued, Tasked, TasksOf
  <2> QED
    BY <1>2, <2>1, <2>2 DEF Inv
<1>3. ASSUME NEW h \in Hash, DaemonFinds(h) \/ DaemonCreates(h) \/ DaemonFills(h) PROVE Inv'
  <2>1. /\ store' = store \/ \E as \in {Filling, Whole} : store' = [store EXCEPT ![h] = as]
        /\ damaged' = damaged
        /\ UNCHANGED <<dest, pc, have, pending, tasks, inFlight, got, passed, intact>>
    BY <1>3 DEF DaemonFinds, DaemonCreates, DaemonFills, World, Download, Loading, Building
  <2>2. /\ store' \in [Hash -> {Absent, Filling, Torn, Whole}]
        /\ \A x \in Hash : store'[x] \in {store[x], Filling, Whole}
    BY <1>1, <2>1 DEF Shape
  <2>3. Unharmed'
    <3>1. \A i \in got : HashOf[i] \in Hash
      BY <1>1, Parts DEF Shape
    <3> QED
      BY <1>1, <2>1, <2>2, <3>1, Parts DEF Unharmed
  <2> QED
    BY <1>1, <1>2, <2>1, <2>2, <2>3 DEF Shape
<1>7. ASSUME NEW h \in Hash, DaemonStops(h) PROVE Inv'
  <2>1. /\ store' = [store EXCEPT ![h] = Torn] /\ damaged' = TRUE
        /\ UNCHANGED <<dest, pc, have, pending, tasks, inFlight, got, passed, intact>>
    BY <1>7 DEF DaemonStops, Download, Loading, Building
  <2>2. store' \in [Hash -> {Absent, Filling, Torn, Whole}] /\ Unharmed'
    BY <1>1, <2>1 DEF Shape, Unharmed
  <2> QED
    BY <1>2, <2>1, <2>2
<1>8. CASE OtherPrunes
  <2>1. /\ store' = Pruned /\ damaged' = (damaged \/ store' # store)
        /\ UNCHANGED <<dest, pc, have, pending, tasks, inFlight, got, passed, intact>>
    BY <1>8 DEF OtherPrunes, Download, Loading, Building
  <2>2. store' \in [Hash -> {Absent, Filling, Torn, Whole}]
    BY <1>1, <2>1 DEF Shape, Pruned
  <2>3. Unharmed'
    BY <1>1, <2>1 DEF Unharmed
  <2> QED
    BY <1>1, <1>2, <2>1, <2>2, <2>3 DEF Shape
<1>4. CASE Relisted
  <2>1. UNCHANGED <<store, damaged, dest, pc, have, pending, tasks, inFlight, got, passed, intact>>
    BY <1>4 DEF Relisted, World, Download, Loading, Building
  <2> QED
    BY <1>1, <1>2, <2>1 DEF Shape, Unharmed
<1>5. CASE Deleted
  <2>1. /\ store' = store \/ store' = [h \in Hash |-> Absent]
        /\ damaged' = (damaged \/ store' # store)
        /\ UNCHANGED <<dest, pc, have, pending, tasks, inFlight, got, passed, intact>>
    BY <1>5 DEF Deleted, Download, Loading, Building
  <2>2. Unharmed'
    BY <1>1, <2>1 DEF Unharmed
  <2> QED
    BY <1>1, <1>2, <2>1, <2>2 DEF Shape
<1>6. CASE Kill
  <2>1. /\ pc' = "idle" /\ pending' = <<>> /\ tasks' = {} /\ got' = {} /\ passed' = 0
        /\ intact' = TRUE /\ inFlight' = [p \in Peer |-> 0] /\ have' = [h \in Hash |-> {}]
        /\ damaged' = (damaged \/ dest # Absent \/ store' # store) /\ dest' = dest
    BY <1>6 DEF Kill, Fresh
  <2>2. store' \in [Hash -> {Absent, Filling, Torn, Whole}]
    BY <1>1, <1>6 DEF Kill, Shape
  <2>3. Shape'
    BY <1>1, <2>1, <2>2, Parts, FS_EmptySet DEF Shape, Phases
  <2>4. Unharmed'
    BY <1>1, <2>1, Parts DEF Unharmed
  <2> QED
    BY <2>1, <2>3, <2>4 DEF Inv, Unbegun, Once, SuccessWhole
<1> QED
  BY <1>3, <1>4, <1>5, <1>6, <1>7, <1>8

LEMMA StepInv ==
    ASSUME Inv, [Next]_vars
    PROVE  Inv'
<1>1. CASE UNCHANGED vars
  BY <1>1 DEF Inv, Shape, Unbegun, Once, Unharmed, SuccessWhole, Queued, Tasked, TasksOf, vars
<1>2. CASE Next
  BY <1>2, BeginningInv, ScanInv, RequestInv, StallInv, ResultInv, EndInv, AroundInv DEF Next
<1> QED
  BY <1>1, <1>2

(* The parts of a download add up, and what there is stays until this        *)
(* machine does damage, in every reachable state.                           *)
THEOREM Invariant == Spec => []Inv
<1>1. Inv /\ [Next]_vars => Inv'
  BY StepInv
<1> QED
  BY <1>1, InitInv, PTL DEF Spec

(* The scheduler loses no block and loads none twice, and knows how many     *)
(* requests each peer has.                                                 *)
THEOREM NothingLost == Spec => []Accounted
<1>1. Inv => Accounted
  BY DEF Inv, Once, Accounted, Queued, Items, Tasked, TasksOf, N
<1> QED
  BY <1>1, Invariant, PTL

(* A download that is done has put the whole file in place.                 *)
THEOREM DoneIsWhole == Spec => []SuccessWhole
<1>1. Inv => SuccessWhole
  BY DEF Inv
<1> QED
  BY <1>1, Invariant, PTL

(* Peers that fail, stall or send torn blocks never make a download leave a  *)
(* file cut short, as long as nothing on this machine does: no kill, no     *)
(* deletion, no failed write or read, no prune of another download, and no   *)
(* block read while the daemon writes it.                                  *)
THEOREM PeersLeaveNoTornFile == Spec => []OnlyLocalDamageSticks
<1>1. Inv => OnlyLocalDamageSticks
  BY DEF Inv, Unharmed, OnlyLocalDamageSticks
<1> QED
  BY <1>1, Invariant, PTL
=============================================================================
