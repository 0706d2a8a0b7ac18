---------------------------- MODULE RsStoreProofs ----------------------------
(***************************************************************************)
(* Proofs about RsStore: with any number of daemon tasks, or one task of the *)
(* TUI by itself (GuardedTeam), the store implements AtomicStore             *)
(* (Linearizable), and no block is taken that a listed file and this machine *)
(* need (ListedBlocksSpared); with one task and no entries of peers, what    *)
(* says complete has its blocks (CompleteHasOwned). Kills come at any point. *)
(*                                                                         *)
(* The first two rest on the RwLock keeping everybody out while the metadata are      *)
(* changed (Excluded). What a task read when it came in is then still true  *)
(* when it writes: its copy is the file with one entry changed (a saving     *)
(* task's DataOf), and what it is about to unlink is not referred to (an     *)
(* unlinking task's). A call takes effect when the file is truncated. For   *)
(* the third, the queue of the task is followed: what it is going to list    *)
(* has its blocks, or an earlier call of the queue writes them, and the      *)
(* prune at its head does not take them (GoodQueue).                        *)
(***************************************************************************)
EXTENDS RsStore, FiniteSetTheorems, TLAPS

(* The tasks of the daemon, or one task alone. *)
GuardedTeam(m) == m.tasks \subseteq Daemon \/ \E t \in Task : m.tasks = {t}

GuardedTeams == \A m \in Teams : GuardedTeam(m)

Guarded == GuardedTeam(team)

Steps == {"idle", "call", "run", "save", "fill", "close"}
Inside == {"run", "save", "fill", "close"}

(* A call that changes an entry says which, and to what. *)
GoodCall ==
    {c \in Call : /\ c.op \in Writes => c.name \in File
                  /\ c.op \in {"put", "upsert", "announce"} => c.entry \in Entry}

Shape ==
    /\ team \in Teams
    /\ file \in Metadata \cup {Torn}
    /\ DOMAIN disk = Block
    /\ writer \in Daemon \cup {NoTask} /\ readers \subseteq Daemon
    /\ calls \in [Task -> Seq(GoodCall)]
    /\ pc \in [Task -> Steps]
    /\ view \in [Task -> Metadata] /\ seen \in [Task -> Metadata]

(* A task has calls as long as it is not idle; only a call that is under way *)
(* has come to its blocks.                                                 *)
QueueOf(t) ==
    /\ pc[t] = "idle" <=> calls[t] = <<>>
    /\ \A i \in 1..Len(calls[t]) :
          i > 1 \/ pc[t] = "call" => calls[t][i].op \notin {"scan", "unlink"}

LockOf(t) ==
    /\ t \notin team.tasks => pc[t] = "idle"
    /\ t \in Daemon /\ pc[t] \in Inside => writer = t \/ t \in readers
    /\ t \in Daemon /\ pc[t] \in Inside /\ Current(t).op \in Writes => writer = t

DataOf(t) ==
    /\ pc[t] \in {"save", "fill"} =>
          /\ Current(t).op \in Writes
          /\ Current(t).op = "remove" => Current(t).want \cap Referenced(view[t]) = {}
    /\ pc[t] = "save" =>
          \E e \in Entry \cup {NoEntry} :
              view[t] = [LoadMetadata EXCEPT ![Current(t).name] = e]
    /\ pc[t] = "fill" => file = Torn
    /\ pc[t] = "close" => Current(t).op = "write"
    /\ pc[t] = "run" /\ Current(t).op = "scan" =>
          Referenced(LoadMetadata) \cap Owned \subseteq Current(t).want
    /\ pc[t] = "run" /\ Current(t).op = "unlink" =>
          Current(t).want \cap Referenced(LoadMetadata) \cap Owned = {}

Inv ==
    /\ Shape
    /\ writer # NoTask => readers = {}
    /\ \A t \in Task : QueueOf(t) /\ LockOf(t) /\ DataOf(t)

-----------------------------------------------------------------------------
(* While one task changes the metadata nobody else is in a call. *)
Excluded(t) == \A u \in Task \ {t} : pc[u] \in {"idle", "call"}

LEMMA Exclusion ==
    ASSUME Guarded, Inv, NEW t \in Task, pc[t] \in {"save", "fill"}
    PROVE  Excluded(t)
<1> SUFFICES ASSUME NEW u \in Task \ {t}, pc[u] \in Inside PROVE FALSE
  BY DEF Excluded, Inv, Shape, Steps, Inside
<1>1. t \in team.tasks /\ u \in team.tasks
  BY DEF Inv, LockOf, Inside
<1>2. team.tasks \subseteq Daemon
  BY <1>1 DEF Guarded, GuardedTeam, Inv, Shape
<1>3. writer = t
  BY <1>1, <1>2 DEF Inv, LockOf, DataOf, Inside
<1>4. writer = u \/ u \in readers
  BY <1>1, <1>2 DEF Inv, LockOf
<1>5. readers = {}
  BY <1>2, <1>1, <1>3, StoreAssumption DEF Inv, Task
<1> QED
  BY <1>3, <1>4, <1>5

LEMMA MetadataLoads ==
    ASSUME Shape
    PROVE  LoadMetadata \in Metadata /\ Empty \in Metadata
  BY DEF Shape, LoadMetadata, Metadata, Empty

(* The head of a task's calls. *)
LEMMA HeadIsGood ==
    ASSUME Inv, NEW t \in Task, pc[t] # "idle"
    PROVE  /\ calls[t] \in Seq(GoodCall) /\ calls[t] # <<>> /\ Len(calls[t]) \in Nat \ {0}
           /\ Current(t) = calls[t][1] /\ Current(t) \in GoodCall
           /\ Tail(calls[t]) \in Seq(GoodCall)
           /\ Len(Tail(calls[t])) = Len(calls[t]) - 1
           /\ \A i \in 1..Len(Tail(calls[t])) : Tail(calls[t])[i] = calls[t][i + 1]
<1>1. calls[t] \in Seq(GoodCall) /\ calls[t] # <<>>
  BY DEF Inv, Shape, QueueOf
<1> QED
  BY <1>1 DEF Current

LEMMA HeadReplaced ==
    ASSUME NEW S, NEW s \in Seq(S), s # <<>>, NEW x \in S
    PROVE  LET r == [s EXCEPT ![1] = x]
           IN  /\ r \in Seq(S) /\ r # <<>> /\ Len(r) = Len(s) /\ Head(r) = x /\ r[1] = x
               /\ \A i \in 1..Len(s) : i > 1 => r[i] = s[i]
  OBVIOUS

LEMMA NewEntryType ==
    ASSUME NEW m \in Metadata, NEW c \in GoodCall, c.op \in Writes \ {"announce"},
           c.op = "syncing" => m[c.name] # NoEntry
    PROVE  NewEntry(m, c) \in Entry \cup {NoEntry}
<1>1. c.name \in File /\ m[c.name] \in Entry \cup {NoEntry}
  BY DEF GoodCall, Metadata, Writes
<1>2. CASE c.op = "syncing"
  BY <1>1, <1>2 DEF NewEntry, Entry
<1>3. CASE c.op \in {"put", "upsert"}
  BY <1>3 DEF NewEntry, GoodCall
<1>4. CASE c.op = "remove"
  BY <1>4 DEF NewEntry
<1> QED
  BY <1>2, <1>3, <1>4 DEF Writes

LEMMA CompleteType ==
    ASSUME NEW B \in SUBSET Block
    PROVE  Complete(B) \in Entry
  BY DEF Complete, Entry

LEMMA CallOfType ==
    ASSUME NEW op \in Writes \cup {"write", "unlink", "list", "prune", "scan"},
           NEW f \in File \cup {NoFile}, NEW e \in Entry \cup {NoEntry}, NEW B \in SUBSET Block,
           op \in Writes => f \in File, op \in {"put", "upsert", "announce"} => e \in Entry
    PROVE  CallOf(op, f, e, B) \in GoodCall /\ CallOf(op, f, e, B).op = op
  BY DEF CallOf, GoodCall, Call

(* The entries of m stored again are calls of their names. *)
LEMMA RelistType ==
    ASSUME NEW m \in Metadata
    PROVE  /\ Relist(m) \in Seq(GoodCall)
           /\ \A i \in 1..Len(Relist(m)) :
                 /\ Relist(m)[i].op = "upsert"
                 /\ \E f \in Listed(m) : Relist(m)[i].entry = Complete(m[f].blocks)
<1> DEFINE n == Cardinality(Listed(m))
           ok(s) == \A i, j \in 1..n : s[i] = s[j] => i = j
           name == CHOOSE s \in [1..n -> Listed(m)] : ok(s)
<1>1. Listed(m) \subseteq File /\ IsFiniteSet(Listed(m))
  BY StoreAssumption, FS_Subset DEF Listed
<1>2. n \in Nat /\ \E s \in [1..n -> Listed(m)] : ok(s)
  <2>1. n \in Nat /\ ExistsBijection(1..n, Listed(m))
    BY <1>1, FS_CardinalityType
  <2> QED
    BY <2>1 DEF ExistsBijection, Bijection, Injection, IsInjective
<1> HIDE DEF ok, n
<1>3. name \in [1..n -> Listed(m)]
  BY <1>2
<1> HIDE DEF name
<1>4. ASSUME NEW i \in 1..n
      PROVE  /\ CallOf("upsert", name[i], Complete(m[name[i]].blocks), {}) \in GoodCall
             /\ CallOf("upsert", name[i], Complete(m[name[i]].blocks), {}).op = "upsert"
             /\ \E f \in Listed(m) :
                   CallOf("upsert", name[i], Complete(m[name[i]].blocks), {}).entry = Complete(m[f].blocks)
  <2>0. name[i] \in Listed(m)
    BY <1>3, <1>4
  <2>1. name[i] \in File /\ m[name[i]] \in Entry
    BY <2>0 DEF Listed, Metadata
  <2>2. Complete(m[name[i]].blocks) \in Entry
    BY <2>1, CompleteType DEF Entry
  <2>3. CallOf("upsert", name[i], Complete(m[name[i]].blocks), {}).entry = Complete(m[name[i]].blocks)
    BY DEF CallOf
  <2> QED
    BY <2>0, <2>1, <2>2, <2>3, CallOfType DEF Writes
<1>5. Relist(m) = [i \in 1..n |-> CallOf("upsert", name[i], Complete(m[name[i]].blocks), {})]
  BY DEF Relist, name, n, ok
<1> QED
  BY <1>2, <1>4, <1>5

-----------------------------------------------------------------------------
(* What a step of t leaves to the others. *)
Others(t) ==
    /\ team' = team
    /\ \A u \in Task \ {t} : pc'[u] = pc[u] /\ calls'[u] = calls[u] /\ view'[u] = view[u]
    /\ \A u \in Daemon \ {t} : (writer = u => writer' = u) /\ (u \in readers => u \in readers')
    /\ writer' # NoTask => readers' = {}
    /\ file' = file \/ Excluded(t)

LEMMA StepFrame ==
    ASSUME Inv, NEW t \in Task, Shape', Others(t), QueueOf(t)', LockOf(t)', DataOf(t)'
    PROVE  Inv'
<1> SUFFICES ASSUME NEW u \in Task \ {t} PROVE QueueOf(u)' /\ LockOf(u)' /\ DataOf(u)'
  BY DEF Inv, Others
<1>1. pc'[u] = pc[u] /\ calls'[u] = calls[u] /\ view'[u] = view[u] /\ Current(u)' = Current(u)
  BY DEF Others, Current
<1>2. QueueOf(u) /\ LockOf(u) /\ DataOf(u)
  BY DEF Inv
<1>3. QueueOf(u)'
  BY <1>1, <1>2 DEF QueueOf
<1>4. LockOf(u)'
  BY <1>1, <1>2 DEF LockOf, Others
<1>5. DataOf(u)'
  <2>1. CASE file' = file
    BY <1>1, <1>2, <2>1 DEF DataOf, LoadMetadata, Referenced, Listed
  <2>2. CASE Excluded(t)
    BY <1>1, <2>2 DEF DataOf, Excluded
  <2> QED
    BY <2>1, <2>2 DEF Others
<1> QED
  BY <1>3, <1>4, <1>5

LEMMA TeamTasks == Inv => team.tasks \subseteq Task
  BY StoreAssumption DEF Inv, Shape

(* The end of a call. *)
LEMMA ReturnFrame ==
    ASSUME Inv, NEW t \in team.tasks, pc[t] \in Inside, Return(t), team' = team,
           view' = view, DOMAIN disk' = Block, file' \in Metadata \cup {Torn},
           seen' \in [Task -> Metadata], file' = file \/ Excluded(t)
    PROVE  Inv' /\ pc'[t] \in {"idle", "call"}
<1>0. t \in Task
  BY TeamTasks
<1>1. /\ calls' = [calls EXCEPT ![t] = Tail(@)]
      /\ pc' = [pc EXCEPT ![t] = IF Tail(calls[t]) = <<>> THEN "idle" ELSE "call"]
      /\ writer' = IF writer = t THEN NoTask ELSE writer
      /\ readers' = readers \ {t}
  BY DEF Return
<1>2. /\ Tail(calls[t]) \in Seq(GoodCall) /\ Len(Tail(calls[t])) = Len(calls[t]) - 1
      /\ Len(calls[t]) \in Nat \ {0}
      /\ \A i \in 1..Len(Tail(calls[t])) : Tail(calls[t])[i] = calls[t][i + 1]
  BY <1>0, HeadIsGood DEF Inside
<1>3. /\ pc'[t] = IF Tail(calls[t]) = <<>> THEN "idle" ELSE "call"
      /\ calls'[t] = Tail(calls[t])
      /\ calls' \in [Task -> Seq(GoodCall)] /\ pc' \in [Task -> Steps]
  BY <1>0, <1>1, <1>2 DEF Inv, Shape, Steps
<1>4. Shape'
  BY <1>1, <1>3 DEF Inv, Shape
<1>5. Others(t)
  BY <1>0, <1>1 DEF Inv, Shape, Others
<1>6. QueueOf(t)'
  <2> DEFINE q == Tail(calls[t])
  <2>1. \A i \in 1..Len(q) : q[i] = calls[t][i + 1] /\ i + 1 \in 1..Len(calls[t]) /\ i + 1 > 1
    BY <1>2
  <2>2. \A i \in 1..Len(q) : q[i].op \notin {"scan", "unlink"}
    BY <1>0, <2>1 DEF Inv, QueueOf
  <2> HIDE DEF q
  <2>3. calls'[t] = q /\ (pc'[t] = "idle" <=> q = <<>>)
    BY <1>3 DEF q
  <2> QED
    BY <2>2, <2>3 DEF QueueOf
<1>7. pc'[t] \in {"idle", "call"}
  BY <1>3
<1>8. LockOf(t)' /\ DataOf(t)'
  BY <1>5, <1>7 DEF LockOf, DataOf, Inside, Others
<1> QED
  BY <1>0, <1>4, <1>5, <1>6, <1>7, <1>8, StepFrame

-----------------------------------------------------------------------------
(* The start of an operation. *)
Startable(cs) ==
    /\ cs \in Seq(GoodCall) /\ cs # <<>>
    /\ \A i \in 1..Len(cs) : cs[i].op \notin {"scan", "unlink"}

LEMMA StartInv ==
    ASSUME Inv, NEW t \in Task, NEW job, NEW cs, Startable(cs), Start(t, job, cs), team' = team
    PROVE  Inv'
<1>1. /\ t \in team.tasks /\ pc[t] = "idle"
      /\ calls' = [calls EXCEPT ![t] = cs] /\ pc' = [pc EXCEPT ![t] = "call"]
      /\ UNCHANGED <<file, disk, writer, readers, view, seen, stored>>
  BY DEF Start
<1>2. calls'[t] = cs /\ pc'[t] = "call" /\ Shape'
  BY <1>1 DEF Inv, Shape, Steps, Startable
<1>3. Others(t)
  BY <1>1 DEF Inv, Shape, Others
<1>4. QueueOf(t)' /\ LockOf(t)' /\ DataOf(t)'
  BY <1>1, <1>2 DEF QueueOf, LockOf, DataOf, Startable, Inside
<1> QED
  BY <1>2, <1>3, <1>4, StepFrame

LEMMA One ==
    ASSUME NEW c \in GoodCall, c.op \notin {"scan", "unlink"}
    PROVE  Startable(<<c>>)
  BY DEF Startable

LEMMA Two ==
    ASSUME NEW c \in GoodCall, NEW d \in GoodCall, {c.op, d.op} \cap {"scan", "unlink"} = {}
    PROVE  Startable(<<c, d>>)
<1>1. <<c, d>> \in Seq(GoodCall) /\ Len(<<c, d>>) = 2
  OBVIOUS
<1>2. \A i \in 1..2 : <<c, d>>[i] = c \/ <<c, d>>[i] = d
  OBVIOUS
<1> QED
  BY <1>1, <1>2 DEF Startable

LEMMA Three ==
    ASSUME NEW c \in GoodCall, NEW d \in GoodCall, NEW e \in GoodCall,
           {c.op, d.op, e.op} \cap {"scan", "unlink"} = {}
    PROVE  Startable(<<c, d, e>>)
<1>1. <<c, d, e>> \in Seq(GoodCall) /\ Len(<<c, d, e>>) = 3
  OBVIOUS
<1>2. \A i \in 1..3 : <<c, d, e>>[i] = c \/ <<c, d, e>>[i] = d \/ <<c, d, e>>[i] = e
  OBVIOUS
<1> QED
  BY <1>1, <1>2 DEF Startable

LEMMA Four ==
    ASSUME NEW c \in GoodCall, NEW d \in GoodCall, NEW e \in GoodCall, NEW f \in GoodCall,
           {c.op, d.op, e.op, f.op} \cap {"scan", "unlink"} = {}
    PROVE  Startable(<<c, d, e, f>>)
<1>1. <<c, d, e, f>> \in Seq(GoodCall) /\ Len(<<c, d, e, f>>) = 4
  OBVIOUS
<1>2. \A i \in 1..4 : \/ <<c, d, e, f>>[i] = c \/ <<c, d, e, f>>[i] = d
                      \/ <<c, d, e, f>>[i] = e \/ <<c, d, e, f>>[i] = f
  OBVIOUS
<1> QED
  BY <1>1, <1>2 DEF Startable

LEMMA OperationInv ==
    ASSUME Inv, NEW t \in Task, Operation(t), team' = team
    PROVE  Inv'
<1>0. LoadMetadata \in Metadata
  BY MetadataLoads DEF Inv
<1>1. ASSUME NEW f \in File, NEW B \in SUBSET Block, RsPut(t, f, B)
      PROVE  Inv'
  <2> DEFINE c == CallOf("write", NoFile, NoEntry, B)
             d == CallOf("put", f, Complete(B), {})
  <2>a. c \in GoodCall /\ c.op = "write"
    BY CallOfType DEF Writes
  <2>b. d \in GoodCall /\ d.op = "put"
    BY CallOfType, CompleteType DEF Writes
  <2>c. PutCalls(f, B) = <<c, d>>
    BY DEF PutCalls
  <2> HIDE DEF c, d
  <2>1. Startable(PutCalls(f, B))
    BY <2>a, <2>b, <2>c, Two
  <2> QED
    BY <1>1, <2>1, StartInv DEF RsPut
<1>2. ASSUME NEW f \in File, NEW B \in SUBSET Block, Announce(t, f, B)
      PROVE  Inv'
  BY <1>2, CallOfType, CompleteType, One, StartInv DEF Announce, Writes
<1>3. ASSUME NEW f \in File, RsGet(t, f)
      PROVE  Inv'
  <2> DEFINE e == LoadMetadata[f]
  <2>1. e \in Entry /\ e.blocks \in SUBSET Block
    BY <1>0, <1>3 DEF RsGet, Metadata, Entry
  <2> HIDE DEF e
  <2>2. Complete(e.blocks) \in Entry
    BY <2>1, CompleteType
  <2> DEFINE c1 == CallOf("syncing", f, NoEntry, {})
             c2 == CallOf("write", NoFile, NoEntry, e.blocks)
             c3 == CallOf("upsert", f, Complete(e.blocks), {})
             c4 == CallOf("prune", NoFile, NoEntry, {})
  <2>3. c1 \in GoodCall /\ c1.op = "syncing" /\ c4 \in GoodCall /\ c4.op = "prune"
    BY CallOfType DEF Writes
  <2>4. c2 \in GoodCall /\ c2.op = "write"
    BY <2>1, CallOfType DEF Writes
  <2>5. c3 \in GoodCall /\ c3.op = "upsert"
    BY <2>2, CallOfType DEF Writes
  <2>6. Start(t, "get", <<c1, c2, c3, c4>>)
    BY <1>3 DEF RsGet, e
  <2> HIDE DEF c1, c2, c3, c4
  <2>7. Startable(<<c1, c2, c3, c4>>)
    BY <2>3, <2>4, <2>5, Four
  <2> QED
    BY <2>6, <2>7, StartInv
<1>4. ASSUME NEW f \in File, RemoveFile(t, f)
      PROVE  Inv'
  BY <1>4, CallOfType, One, StartInv DEF RemoveFile, Writes
<1>5. ASSUME NEW f \in File, SyncFile(t, f)
      PROVE  Inv'
  <2> DEFINE e == seen[t][f]
  <2>1. e \in Entry /\ e.blocks \in SUBSET Block
    BY <1>5 DEF SyncFile, Metadata, Entry, Inv, Shape
  <2> HIDE DEF e
  <2>2. Complete(e.blocks) \in Entry
    BY <2>1, CompleteType
  <2> DEFINE c1 == CallOf("syncing", f, NoEntry, {})
             c2 == CallOf("write", NoFile, NoEntry, e.blocks \cap Owned)
             c3 == CallOf("upsert", f, Complete(e.blocks), {})
  <2>3. c1 \in GoodCall /\ c1.op = "syncing"
    BY CallOfType DEF Writes
  <2>4. c2 \in GoodCall /\ c2.op = "write"
    BY <2>1, CallOfType DEF Writes
  <2>5. c3 \in GoodCall /\ c3.op = "upsert"
    BY <2>2, CallOfType DEF Writes
  <2>6. Start(t, "sync", <<c1, c2, c3>>)
    BY <1>5 DEF SyncFile, e
  <2> HIDE DEF c1, c2, c3
  <2>7. Startable(<<c1, c2, c3>>)
    BY <2>3, <2>4, <2>5, Three
  <2> QED
    BY <2>6, <2>7, StartInv
<1>6. CASE List(t)
  BY <1>6, CallOfType, One, StartInv DEF List, Writes
<1> QED
  BY <1>1, <1>2, <1>3, <1>4, <1>5, <1>6 DEF Operation

-----------------------------------------------------------------------------
(* The steps of a call. *)

(* A task in a call, and the call it is in. *)
LEMMA InCall ==
    ASSUME Inv, NEW t \in team.tasks, pc[t] # "idle"
    PROVE  /\ t \in Task /\ calls[t] \in Seq(GoodCall) /\ calls[t] # <<>>
           /\ Current(t) = calls[t][1] /\ Current(t) \in GoodCall
           /\ QueueOf(t) /\ LockOf(t) /\ DataOf(t) /\ Shape
  BY TeamTasks, HeadIsGood DEF Inv

(* The current call of t is replaced by x. *)
LEMMA HeadFrame ==
    ASSUME Inv, NEW t \in team.tasks, pc[t] \in Inside, NEW x \in GoodCall,
           calls' = [calls EXCEPT ![t] = [calls[t] EXCEPT ![1] = x]],
           pc'[t] \in Inside
    PROVE  calls' \in [Task -> Seq(GoodCall)] /\ Current(t)' = x /\ QueueOf(t)'
<1>1. /\ t \in Task /\ calls[t] \in Seq(GoodCall) /\ calls[t] # <<>> /\ QueueOf(t) /\ Shape
  BY InCall DEF Inside
<1> DEFINE r == [calls[t] EXCEPT ![1] = x]
<1>2. /\ r \in Seq(GoodCall) /\ r # <<>> /\ Len(r) = Len(calls[t]) /\ Head(r) = x
      /\ \A i \in 1..Len(calls[t]) : i > 1 => r[i] = calls[t][i]
  BY <1>1, HeadReplaced
<1>3. calls' = [calls EXCEPT ![t] = r]
  OBVIOUS
<1> HIDE DEF r
<1>4. calls'[t] = r /\ calls' \in [Task -> Seq(GoodCall)]
  BY <1>1, <1>2, <1>3 DEF Shape
<1>5. QueueOf(t)'
  BY <1>1, <1>2, <1>4 DEF QueueOf, Inside
<1> QED
  BY <1>2, <1>4, <1>5 DEF Current

LEMMA BeginInv ==
    ASSUME Inv, NEW t \in team.tasks, Begin(t), team' = team
    PROVE  Inv'
<1>1. /\ pc[t] = "call" /\ pc' = [pc EXCEPT ![t] = "run"]
      /\ UNCHANGED <<file, disk, calls, view, seen, stored, jobs>>
      /\ \/ t \in Tui /\ UNCHANGED <<writer, readers>>
         \/ t \notin Tui /\ writer = NoTask /\ Exclusive(Current(t)) /\ readers = {}
               /\ writer' = t /\ readers' = readers
         \/ t \notin Tui /\ writer = NoTask /\ ~Exclusive(Current(t))
               /\ readers' = readers \cup {t} /\ writer' = writer
  BY DEF Begin
<1>2. /\ t \in Task /\ calls[t] # <<>> /\ calls[t] \in Seq(GoodCall) /\ Current(t) = calls[t][1]
      /\ QueueOf(t) /\ Shape /\ (t \in Tui <=> t \notin Daemon) /\ t # NoTask
  BY <1>1, InCall, StoreAssumption DEF Task
<1>3. pc'[t] = "run" /\ Shape' /\ Current(t)' = Current(t)
  BY <1>1, <1>2 DEF Shape, Steps, Current
<1>4. Others(t)
  BY <1>1, <1>2, StoreAssumption DEF Inv, Shape, Others, Task
<1>5. Current(t).op \notin {"scan", "unlink"}
  <2>1. 1 \in 1..Len(calls[t])
    BY <1>2
  <2> QED
    BY <1>1, <1>2, <2>1 DEF QueueOf
<1>6. QueueOf(t)'
  BY <1>1, <1>2, <1>3 DEF QueueOf
<1>7. LockOf(t)'
  BY <1>1, <1>2, <1>3 DEF LockOf, Exclusive
<1>8. DataOf(t)'
  BY <1>3, <1>5 DEF DataOf
<1> QED
  BY <1>2, <1>3, <1>4, <1>6, <1>7, <1>8, StepFrame

(* Steps within a call that leave the metadata and the locks alone. *)
LEMMA WithinFrame ==
    ASSUME Inv, NEW t \in team.tasks, pc[t] \in Inside, NEW x \in GoodCall,
           calls' = [calls EXCEPT ![t] = [calls[t] EXCEPT ![1] = x]],
           pc' \in [Task -> Steps], pc'[t] \in Inside,
           \A u \in Task \ {t} : pc'[u] = pc[u] /\ view'[u] = view[u],
           DOMAIN disk' = Block, view' \in [Task -> Metadata],
           UNCHANGED <<team, file, writer, readers, seen>>,
           x.op \in Writes => Current(t).op \in Writes,
           DataOf(t)'
    PROVE  Inv'
<1>1. t \in Task /\ Shape /\ LockOf(t) /\ Current(t)' = x /\ QueueOf(t)'
      /\ calls' \in [Task -> Seq(GoodCall)]
  BY InCall, HeadFrame DEF Inside
<1>2. Shape'
  BY <1>1 DEF Shape
<1>3. Others(t)
  BY <1>1 DEF Inv, Shape, Others
<1>4. LockOf(t)'
  BY <1>1 DEF LockOf
<1> QED
  BY <1>1, <1>2, <1>3, <1>4, StepFrame

LEMMA LookAtBlocksInv ==
    ASSUME Inv, NEW t \in team.tasks, LookAtBlocks(t), team' = team
    PROVE  Inv'
<1> DEFINE c == Current(t)
           x == [c EXCEPT !.op = "put", !.entry.complete = c.entry.blocks \subseteq Present]
<1>1. /\ pc[t] = "run" /\ c.op = "announce"
      /\ UNCHANGED <<file, disk, writer, readers, pc, view, seen, stored, jobs>>
  BY DEF LookAtBlocks, Doing
<1>2. /\ t \in Task /\ c = calls[t][1] /\ c \in GoodCall /\ Shape
  BY <1>1, InCall
<1>3. calls' = [calls EXCEPT ![t] = [calls[t] EXCEPT ![1] = x]]
  BY <1>2 DEF LookAtBlocks
<1>4. c.entry \in Entry /\ c.name \in File
  BY <1>1, <1>2 DEF GoodCall, Writes
<1>5. x \in GoodCall /\ x.op = "put"
  <2>1. [c.entry EXCEPT !.complete = c.entry.blocks \subseteq Present] \in Entry
    BY <1>4 DEF Entry
  <2> DEFINE e == [c.entry EXCEPT !.complete = c.entry.blocks \subseteq Present]
  <2>2. x = [c EXCEPT !.op = "put", !.entry = e]
    BY <1>2 DEF GoodCall, Call
  <2> HIDE DEF e
  <2> QED
    BY <1>2, <1>4, <2>1, <2>2 DEF GoodCall, Call, Writes, e
<1> HIDE DEF x
<1>6. Current(t)' = x
  BY <1>1, <1>3, <1>5, HeadFrame DEF Inside
<1>7. DataOf(t)'
  BY <1>1, <1>5, <1>6 DEF DataOf
<1> QED
  BY <1>1, <1>2, <1>3, <1>5, <1>7, WithinFrame DEF Inside, Writes, Shape

LEMMA LoadInv ==
    ASSUME Inv, NEW t \in team.tasks, Load(t), team' = team
    PROVE  Inv'
<1> DEFINE c == Current(t)
           m == LoadMetadata
           want == IF c.op = "remove" THEN Unreferenced(m, c.name) ELSE {}
           x == [c EXCEPT !.want = want]
           v == [m EXCEPT ![c.name] = NewEntry(m, c)]
<1>1. /\ pc[t] = "run" /\ c.op \in Writes \ {"announce"} /\ (c.op = "syncing" => m[c.name] # NoEntry)
      /\ view' = [view EXCEPT ![t] = v] /\ pc' = [pc EXCEPT ![t] = "save"]
      /\ UNCHANGED <<file, disk, writer, readers, seen, stored, jobs>>
  BY DEF Load, Doing
<1>2. /\ t \in Task /\ c = calls[t][1] /\ c \in GoodCall /\ Shape /\ m \in Metadata
  BY <1>1, InCall, MetadataLoads
<1>3. calls' = [calls EXCEPT ![t] = [calls[t] EXCEPT ![1] = x]]
  BY <1>2 DEF Load
<1>4. c.name \in File
  BY <1>1, <1>2 DEF GoodCall
<1>5. NewEntry(m, c) \in Entry \cup {NoEntry}
  BY <1>1, <1>2, NewEntryType
<1>6. v \in Metadata
  BY <1>2, <1>4, <1>5 DEF Metadata
<1>7. want \in SUBSET Block
  BY <1>2, <1>4 DEF Unreferenced, Metadata, Entry
<1>8. x \in GoodCall /\ x.op = c.op /\ x.want = want /\ x.name = c.name
  BY <1>2, <1>7 DEF GoodCall, Call
<1>9. c.op = "remove" => want \cap Referenced(v) = {}
  <2> SUFFICES ASSUME c.op = "remove" PROVE want \cap Referenced(v) = {}
    OBVIOUS
  <2>1. v = [m EXCEPT ![c.name] = NoEntry]
    BY DEF NewEntry
  <2>2. want = IF m[c.name] = NoEntry THEN {} ELSE m[c.name].blocks \ Referenced(v)
    BY <2>1 DEF Unreferenced
  <2> QED
    BY <2>2
<1>a. \E e \in Entry \cup {NoEntry} : v = [m EXCEPT ![c.name] = e]
  BY <1>5
<1> HIDE DEF x, v, want
<1>10. pc'[t] = "save" /\ pc' \in [Task -> Steps] /\ view'[t] = v /\ view' \in [Task -> Metadata]
  BY <1>1, <1>2, <1>6 DEF Shape, Steps
<1>11. Current(t)' = x
  BY <1>1, <1>3, <1>8, <1>10, HeadFrame DEF Inside
<1>12. LoadMetadata' = m
  BY <1>1 DEF LoadMetadata
<1>13. DataOf(t)'
  <2>1. \E e \in Entry \cup {NoEntry} : view'[t] = [LoadMetadata' EXCEPT ![x.name] = e]
    BY <1>8, <1>a, <1>10, <1>12
  <2>2. x.op \in Writes /\ (x.op = "remove" => x.want \cap Referenced(view'[t]) = {})
    BY <1>1, <1>8, <1>9, <1>10
  <2>3. Referenced(view[t])' = Referenced(view'[t])
    BY DEF Referenced, Listed
  <2> QED
    BY <1>10, <1>11, <2>1, <2>2, <2>3 DEF DataOf
<1> QED
  BY <1>1, <1>2, <1>3, <1>8, <1>10, <1>13, WithinFrame DEF Inside, Shape

LEMMA TruncateInv ==
    ASSUME Guarded, Inv, NEW t \in team.tasks, Truncate(t), team' = team
    PROVE  Inv'
<1>1. /\ pc[t] = "save" /\ file' = Torn /\ pc' = [pc EXCEPT ![t] = "fill"]
      /\ UNCHANGED <<disk, writer, readers, calls, view, seen, stored, jobs>>
  BY DEF Truncate
<1>2. t \in Task /\ Shape /\ QueueOf(t) /\ LockOf(t) /\ DataOf(t)
  BY <1>1, InCall
<1>3. Excluded(t)
  BY <1>1, <1>2, Exclusion
<1>4. pc'[t] = "fill" /\ Shape' /\ Current(t)' = Current(t)
  BY <1>1, <1>2 DEF Shape, Steps, Current
<1>5. Others(t)
  BY <1>1, <1>2, <1>3 DEF Inv, Shape, Others
<1>6. QueueOf(t)' /\ LockOf(t)'
  BY <1>1, <1>2, <1>4 DEF QueueOf, LockOf, Inside
<1>7. DataOf(t)'
  BY <1>1, <1>2, <1>4 DEF DataOf, Referenced, Listed
<1> QED
  BY <1>2, <1>4, <1>5, <1>6, <1>7, StepFrame

LEMMA SaveInv ==
    ASSUME Guarded, Inv, NEW t \in team.tasks, Save(t), team' = team
    PROVE  Inv'
<1> DEFINE c == Current(t)
           x == [c EXCEPT !.op = "unlink"]
<1>1. /\ pc[t] = "fill" /\ file' = view[t] /\ UNCHANGED <<disk, view, seen, jobs>>
  BY DEF Save
<1>2. t \in Task /\ Shape /\ LockOf(t) /\ DataOf(t) /\ c = calls[t][1] /\ c \in GoodCall
  BY <1>1, InCall
<1>3. Excluded(t)
  BY <1>1, <1>2, Exclusion
<1>4. view[t] \in Metadata /\ LoadMetadata' = view[t]
  BY <1>1, <1>2, StoreAssumption DEF Shape, LoadMetadata
<1>5. CASE c.op = "remove"
  <2>1. /\ pc' = [pc EXCEPT ![t] = "run"] /\ UNCHANGED <<writer, readers>>
        /\ calls' = [calls EXCEPT ![t] = [calls[t] EXCEPT ![1] = x]]
    BY <1>2, <1>5 DEF Save
  <2>2. x \in GoodCall /\ x.op = "unlink" /\ x.want = c.want
    BY <1>2 DEF GoodCall, Call, Writes
  <2> HIDE DEF x
  <2>3. pc'[t] = "run" /\ pc' \in [Task -> Steps]
    BY <1>2, <2>1 DEF Shape, Steps
  <2>4. calls' \in [Task -> Seq(GoodCall)] /\ Current(t)' = x /\ QueueOf(t)'
    BY <1>1, <2>1, <2>2, <2>3, HeadFrame DEF Inside
  <2>5. Shape'
    BY <1>1, <1>2, <1>4, <2>1, <2>3, <2>4 DEF Shape
  <2>6. Others(t)
    BY <1>1, <1>2, <1>3, <2>1 DEF Inv, Shape, Others
  <2>7. LockOf(t)'
    BY <1>1, <1>2, <2>1, <2>2, <2>3, <2>4 DEF LockOf, Inside, Writes
  <2>8. c.want \cap Referenced(view[t]) = {}
    BY <1>1, <1>2, <1>5 DEF DataOf
  <2>9. DataOf(t)'
    BY <1>4, <2>2, <2>3, <2>4, <2>8 DEF DataOf, Referenced, Listed
  <2> QED
    BY <1>2, <2>4, <2>5, <2>6, <2>7, <2>9, StepFrame
<1>6. CASE c.op # "remove"
  BY <1>1, <1>2, <1>3, <1>4, <1>6, ReturnFrame DEF Save, Shape, Inside
<1> QED
  BY <1>5, <1>6

LEMMA UnlinkInv ==
    ASSUME Inv, NEW t \in team.tasks, NEW b \in Block, Unlink(t, b), team' = team
    PROVE  Inv'
<1> DEFINE c == Current(t)
           x == [c EXCEPT !.want = @ \ {b}]
<1>1. /\ pc[t] = "run" /\ c.op = "unlink" /\ disk' = [disk EXCEPT ![b] = "absent"]
      /\ UNCHANGED <<file, writer, readers, pc, view, seen, stored, jobs>>
  BY DEF Unlink, Doing
<1>2. t \in Task /\ c = calls[t][1] /\ c \in GoodCall /\ Shape /\ DataOf(t)
  BY <1>1, InCall
<1>3. calls' = [calls EXCEPT ![t] = [calls[t] EXCEPT ![1] = x]]
  BY <1>2 DEF Unlink
<1>4. x \in GoodCall /\ x.op = "unlink" /\ x.want \subseteq c.want
  BY <1>1, <1>2 DEF GoodCall, Call
<1> HIDE DEF x
<1>5. Current(t)' = x
  BY <1>1, <1>3, <1>4, HeadFrame DEF Inside
<1>6. DataOf(t)'
  <2>1. c.want \cap Referenced(LoadMetadata) \cap Owned = {} /\ LoadMetadata' = LoadMetadata
    BY <1>1, <1>2 DEF DataOf, LoadMetadata
  <2> QED
    BY <1>1, <1>4, <1>5, <2>1 DEF DataOf, Referenced, Listed, Writes
<1> QED
  BY <1>1, <1>2, <1>3, <1>4, <1>6, WithinFrame DEF Inside, Writes, Shape

LEMMA CreateInv ==
    ASSUME Inv, NEW t \in team.tasks, NEW b \in Block, Create(t, b), team' = team
    PROVE  Inv'
<1> DEFINE c == Current(t)
           x == [c EXCEPT !.want = @ \ {b}]
<1>1. /\ pc[t] = "run" /\ c.op = "write"
      /\ \/ pc' = [pc EXCEPT ![t] = "close"] /\ disk' = [disk EXCEPT ![b] = t]
         \/ pc' = pc /\ disk' = disk
      /\ UNCHANGED <<file, writer, readers, view, seen, stored, jobs>>
  BY DEF Create, Doing
<1>2. t \in Task /\ c = calls[t][1] /\ c \in GoodCall /\ Shape
  BY <1>1, InCall
<1>3. calls' = [calls EXCEPT ![t] = [calls[t] EXCEPT ![1] = x]]
  BY <1>2 DEF Create
<1>4. x \in GoodCall /\ x.op = "write"
  BY <1>1, <1>2 DEF GoodCall, Call
<1> HIDE DEF x
<1>5. pc'[t] \in {"run", "close"} /\ pc' \in [Task -> Steps] /\ DOMAIN disk' = Block
      /\ \A u \in Task \ {t} : pc'[u] = pc[u]
  BY <1>1, <1>2 DEF Shape, Steps
<1>6. Current(t)' = x
  BY <1>1, <1>3, <1>4, <1>5, HeadFrame DEF Inside
<1>7. DataOf(t)'
  BY <1>4, <1>5, <1>6 DEF DataOf
<1> QED
  BY <1>1, <1>2, <1>3, <1>4, <1>5, <1>7, WithinFrame DEF Inside, Writes, Shape

LEMMA CloseInv ==
    ASSUME Inv, NEW t \in team.tasks, Close(t), team' = team
    PROVE  Inv'
<1>1. /\ pc[t] = "close" /\ pc' = [pc EXCEPT ![t] = "run"]
      /\ disk' = [b \in Block |-> IF disk[b] = t THEN "whole" ELSE disk[b]]
      /\ UNCHANGED <<file, writer, readers, calls, view, seen, stored, jobs>>
  BY DEF Close
<1>2. t \in Task /\ Shape /\ QueueOf(t) /\ LockOf(t) /\ DataOf(t)
  BY <1>1, InCall
<1>3. pc'[t] = "run" /\ Shape' /\ Current(t)' = Current(t)
  BY <1>1, <1>2 DEF Shape, Steps, Current
<1>4. Others(t)
  BY <1>1, <1>2 DEF Inv, Shape, Others
<1>5. QueueOf(t)' /\ LockOf(t)' /\ DataOf(t)'
  BY <1>1, <1>2, <1>3 DEF QueueOf, LockOf, DataOf, Inside
<1> QED
  BY <1>2, <1>3, <1>4, <1>5, StepFrame

(* The calls that end without a write to the metadata. *)
LEMMA DoneInv ==
    ASSUME Inv, NEW t \in team.tasks, NothingToMark(t) \/ BlocksDone(t) \/ ReadList(t),
           team' = team
    PROVE  Inv'
<1>1. /\ pc[t] = "run" /\ Return(t) /\ file' = file /\ view' = view /\ disk' = disk
      /\ seen' = seen \/ seen' = [seen EXCEPT ![t] = LoadMetadata]
  BY DEF NothingToMark, BlocksDone, ReadList, Doing
<1>2. Shape /\ LoadMetadata \in Metadata
  BY MetadataLoads DEF Inv
<1>3. seen' \in [Task -> Metadata]
  BY <1>1, <1>2 DEF Shape
<1> QED
  BY <1>1, <1>2, <1>3, ReturnFrame DEF Shape, Inside

LEMMA PruneListInv ==
    ASSUME Inv, NEW t \in team.tasks, PruneList(t), team' = team
    PROVE  Inv'
<1> DEFINE m == LoadMetadata
           x == CallOf("scan", NoFile, NoEntry, Referenced(m) \cap Owned)
           q == <<x>> \o Relist(m)
<1>1. /\ pc[t] = "run" /\ Current(t).op = "prune" /\ calls' = [calls EXCEPT ![t] = q]
      /\ UNCHANGED <<file, disk, writer, readers, pc, view, seen, stored, jobs>>
  BY DEF PruneList, Doing
<1>2. t \in Task /\ Shape /\ LockOf(t) /\ m \in Metadata
  BY <1>1, InCall, MetadataLoads
<1>3. x \in GoodCall /\ x.op = "scan" /\ x.want = Referenced(m) \cap Owned
  BY StoreAssumption, CallOfType DEF Writes, CallOf
<1> HIDE DEF x
<1>4. /\ q \in Seq(GoodCall) /\ q # <<>> /\ Head(q) = x
      /\ \A i \in 1..Len(q) : i > 1 => q[i].op = "upsert"
  <2> DEFINE r == Relist(m)
  <2>1. r \in Seq(GoodCall) /\ \A i \in 1..Len(r) : r[i].op = "upsert"
    BY <1>2, RelistType
  <2> HIDE DEF r
  <2>2. /\ <<x>> \o r \in Seq(GoodCall) /\ Len(<<x>> \o r) = 1 + Len(r) /\ Len(r) \in Nat
        /\ (<<x>> \o r)[1] = x
        /\ \A i \in 1..Len(<<x>> \o r) : i > 1 => (<<x>> \o r)[i] = r[i - 1] /\ i - 1 \in 1..Len(r)
    BY <1>3, <2>1
  <2> QED
    BY <2>1, <2>2 DEF r
<1> HIDE DEF q
<1>5. calls'[t] = q /\ Shape' /\ Current(t)' = x
  BY <1>1, <1>2, <1>4 DEF Shape, Current
<1>6. Others(t)
  BY <1>1, <1>2 DEF Inv, Shape, Others
<1>7. QueueOf(t)'
  BY <1>1, <1>4, <1>5 DEF QueueOf
<1>8. LockOf(t)'
  BY <1>1, <1>2, <1>3, <1>5 DEF LockOf, Inside, Writes
<1>9. DataOf(t)'
  BY <1>1, <1>3, <1>5 DEF DataOf, LoadMetadata, Referenced, Listed
<1> QED
  BY <1>2, <1>5, <1>6, <1>7, <1>8, <1>9, StepFrame

LEMMA PruneScanInv ==
    ASSUME Inv, NEW t \in team.tasks, PruneScan(t), team' = team
    PROVE  Inv'
<1> DEFINE c == Current(t)
           x == [c EXCEPT !.op = "unlink", !.want = Present \ @]
<1>1. /\ pc[t] = "run" /\ c.op = "scan"
      /\ UNCHANGED <<file, disk, writer, readers, pc, view, seen, stored, jobs>>
  BY DEF PruneScan, Doing
<1>2. t \in Task /\ c = calls[t][1] /\ c \in GoodCall /\ Shape /\ DataOf(t)
  BY <1>1, InCall
<1>3. calls' = [calls EXCEPT ![t] = [calls[t] EXCEPT ![1] = x]]
  BY <1>2 DEF PruneScan
<1>4. x \in GoodCall /\ x.op = "unlink" /\ x.want = Present \ c.want
  BY <1>1, <1>2 DEF GoodCall, Call, Writes, Present
<1> HIDE DEF x
<1>5. Current(t)' = x
  BY <1>1, <1>3, <1>4, HeadFrame DEF Inside
<1>6. DataOf(t)'
  <2>1. Referenced(LoadMetadata) \cap Owned \subseteq c.want /\ LoadMetadata' = LoadMetadata
    BY <1>1, <1>2 DEF DataOf, LoadMetadata
  <2> QED
    BY <1>1, <1>4, <1>5, <2>1 DEF DataOf, Referenced, Listed
<1> QED
  BY <1>1, <1>2, <1>3, <1>4, <1>6, WithinFrame DEF Inside, Writes, Shape

LEMMA CrashInv ==
    ASSUME Inv, NEW P \in SUBSET Task, Crash(P), team' = team
    PROVE  Inv'
<1>1. /\ disk' = [b \in Block |-> IF disk[b] \in P THEN "torn" ELSE disk[b]]
      /\ calls' = [t \in Task |-> IF t \in P THEN <<>> ELSE calls[t]]
      /\ pc' = [t \in Task |-> IF t \in P THEN "idle" ELSE pc[t]]
      /\ view' = [t \in Task |-> IF t \in P THEN Empty ELSE view[t]]
      /\ seen' = [t \in Task |-> IF t \in P THEN Empty ELSE seen[t]]
      /\ writer' = IF writer \in P THEN NoTask ELSE writer
      /\ readers' = readers \ P
      /\ file' = file
  BY DEF Crash
<1>2. Shape /\ Empty \in Metadata
  BY MetadataLoads DEF Inv
<1>3. Shape'
  <2>1. calls' \in [Task -> Seq(GoodCall)]
    <3>1. <<>> \in Seq(GoodCall)
      OBVIOUS
    <3> QED
      BY <1>1, <1>2, <3>1 DEF Shape
  <2> QED
    BY <1>1, <1>2, <2>1 DEF Shape, Steps
<1>4. writer' # NoTask => readers' = {}
  BY <1>1 DEF Inv
<1>5. ASSUME NEW u \in Task PROVE QueueOf(u)' /\ LockOf(u)' /\ DataOf(u)'
  <2>1. CASE u \in P
    <3>1. pc'[u] = "idle" /\ calls'[u] = <<>>
      BY <1>1, <2>1
    <3> QED
      BY <3>1 DEF QueueOf, LockOf, DataOf, Inside
  <2>2. CASE u \notin P
    <3>1. pc'[u] = pc[u] /\ calls'[u] = calls[u] /\ view'[u] = view[u] /\ Current(u)' = Current(u)
      BY <1>1, <2>2 DEF Current
    <3>2. QueueOf(u) /\ LockOf(u) /\ DataOf(u)
      BY DEF Inv
    <3>3. (writer = u => writer' = u) /\ (u \in readers => u \in readers')
      BY <1>1, <2>2
    <3>4. QueueOf(u)' /\ LockOf(u)'
      BY <3>1, <3>2, <3>3 DEF QueueOf, LockOf
    <3>5. DataOf(u)'
      BY <1>1, <3>1, <3>2 DEF DataOf, LoadMetadata, Referenced, Listed
    <3> QED
      BY <3>4, <3>5
  <2> QED
    BY <2>1, <2>2
<1> QED
  BY <1>3, <1>4, <1>5 DEF Inv

LEMMA InitInv == Init => Inv
<1> SUFFICES ASSUME Init PROVE Inv
  OBVIOUS
<1>1. Empty \in Metadata
  BY DEF Empty, Metadata
<1>2. <<>> \in Seq(GoodCall) /\ Len(<<>>) = 0
  OBVIOUS
<1>3. Shape
  BY <1>1, <1>2 DEF Init, Shape, Steps
<1>4. ASSUME NEW t \in Task PROVE QueueOf(t) /\ LockOf(t) /\ DataOf(t)
  BY DEF Init, QueueOf, LockOf, DataOf, Inside
<1> QED
  BY <1>3, <1>4 DEF Init, Inv

LEMMA StepInv ==
    ASSUME Guarded, Inv, [Next]_vars
    PROVE  Inv'
<1>1. CASE UNCHANGED vars
  <2>1. Shape' /\ (writer' # NoTask => readers' = {})
    BY <1>1 DEF Inv, Shape, vars
  <2>2. ASSUME NEW t \in Task PROVE QueueOf(t)' /\ LockOf(t)' /\ DataOf(t)'
    <3>1. QueueOf(t)' /\ LockOf(t)'
      BY <1>1 DEF Inv, QueueOf, LockOf, Current, vars
    <3>2. DataOf(t)'
      BY <1>1 DEF Inv, DataOf, Current, LoadMetadata, Referenced, Listed, vars
    <3> QED
      BY <3>1, <3>2
  <2> QED
    BY <2>1, <2>2 DEF Inv
<1>2. ASSUME team' = team, NEW t \in team.tasks, Operation(t) PROVE Inv'
  BY <1>2, TeamTasks, OperationInv
<1>3. ASSUME team' = team, NEW t \in team.tasks, Access(t) PROVE Inv'
  BY <1>3, BeginInv, LookAtBlocksInv, DoneInv, LoadInv, TruncateInv, SaveInv, UnlinkInv,
     CreateInv, CloseInv, PruneListInv, PruneScanInv
     DEF Access
<1>4. ASSUME team' = team, NEW P \in {Daemon, Tui}, Crash(P) PROVE Inv'
  BY <1>4, CrashInv DEF Task
<1> QED
  BY <1>1, <1>2, <1>3, <1>4 DEF Next

(* The lock, the copies and the blocks about to go are what they should be,  *)
(* in every reachable state.                                               *)
LEMMA GuardedInvariant == Spec => [](Guarded => Inv)
<1> DEFINE GuardedInv == Guarded => Inv
<1>1. Init => GuardedInv
  BY InitInv
<1>2. GuardedInv /\ [Next]_vars => GuardedInv'
  <2> SUFFICES ASSUME GuardedInv, [Next]_vars, Guarded' PROVE Inv'
    OBVIOUS
  <2>1. team' = team
    BY DEF Next, vars
  <2> QED
    BY <2>1, StepInv DEF Guarded, GuardedTeam
<1> QED
  BY <1>1, <1>2, PTL DEF Spec

LEMMA AllGuarded ==
    ASSUME GuardedTeams, Inv
    PROVE  Guarded
  BY DEF GuardedTeams, Inv, Shape, Guarded

THEOREM Invariant == GuardedTeams /\ Spec => []Inv
<1>1. GuardedTeams /\ Init /\ [][Next]_vars => []Inv
  <2> SUFFICES ASSUME GuardedTeams PROVE Init /\ [][Next]_vars => []Inv
    OBVIOUS
  <2>1. Inv /\ [Next]_vars => Inv'
    BY AllGuarded, StepInv
  <2> QED
    BY <2>1, InitInv, PTL
<1> QED
  BY <1>1 DEF Spec

-----------------------------------------------------------------------------
(* No listed block of this machine is taken. *)
BlocksTaken ==
    \A b \in Block : disk[b] # "absent" /\ disk'[b] = "absent"
        => b \notin Referenced(LoadMetadata) \cap Owned

LEMMA TakesNoListed ==
    ASSUME Inv, [Next]_vars
    PROVE  BlocksTaken
<1> SUFFICES ASSUME NEW b \in Block, disk[b] # "absent", disk'[b] = "absent"
             PROVE  b \notin Referenced(LoadMetadata) \cap Owned
  BY DEF BlocksTaken
<1>0. DOMAIN disk = Block
  BY DEF Inv, Shape
<1>1. CASE disk' = disk
  BY <1>1
<1>2. ASSUME NEW t \in team.tasks, NEW x \in Block, Unlink(t, x)
      PROVE  b \notin Referenced(LoadMetadata) \cap Owned
  <2>1. b = x /\ b \in Current(t).want /\ pc[t] = "run" /\ Current(t).op = "unlink"
    BY <1>0, <1>2 DEF Unlink, Doing
  <2>2. DataOf(t)
    BY TeamTasks DEF Inv
  <2> QED
    BY <2>1, <2>2 DEF DataOf
<1>3. ASSUME NEW t \in team.tasks, NEW x \in Block, Create(t, x) PROVE FALSE
  BY <1>0, <1>3 DEF Create
<1>4. ASSUME NEW t \in team.tasks, Close(t) PROVE FALSE
  BY <1>4 DEF Close
<1>5. ASSUME NEW P \in {Daemon, Tui}, Crash(P) PROVE FALSE
  BY <1>5 DEF Crash
<1>6. ASSUME NEW t \in team.tasks, Operation(t) PROVE disk' = disk
  BY <1>6 DEF Operation, RsPut, RsGet, RemoveFile, Announce, List, SyncFile, Start
<1>7. ASSUME NEW t \in team.tasks, Access(t),
             ~ \E x \in Block : Unlink(t, x) \/ Create(t, x), ~Close(t)
      PROVE  disk' = disk
  BY <1>7 DEF Access, Begin, LookAtBlocks, NothingToMark, Load, Truncate, Save, BlocksDone,
              ReadList, PruneList, PruneScan
<1>8. CASE UNCHANGED vars
  BY <1>1, <1>8 DEF vars
<1>9. CASE \E t \in team.tasks : Operation(t) \/ Access(t)
  BY <1>1, <1>2, <1>3, <1>4, <1>6, <1>7, <1>9
<1> QED
  BY <1>5, <1>8, <1>9 DEF Next

(* A block that a listed file refers to and that this machine is assigned is *)
(* taken by no deletion and no prune: there is no instant between the        *)
(* listing a call read and its unlinking at which an entry could change.     *)
THEOREM BlocksSpared == GuardedTeams /\ Spec => ListedBlocksSpared
<1>1. Inv /\ [Next]_vars => [BlocksTaken]_vars
  BY TakesNoListed
<1> QED
  BY <1>1, Invariant, PTL DEF Spec, ListedBlocksSpared, BlocksTaken

-----------------------------------------------------------------------------
(* The refinement. *)

LEMMA OneWriter ==
    ASSUME Guarded, Inv, NEW t \in Task, pc[t] = "fill"
    PROVE  Writing = {t} /\ file = Torn /\ Promised = view[t]
<1>1. Writing = {t}
  BY Exclusion DEF Excluded, Writing
<1>2. file = Torn
  BY DEF Inv, DataOf
<1>3. (CHOOSE u \in Writing : TRUE) = t
  BY <1>1
<1> QED
  BY <1>1, <1>2, <1>3 DEF Promised

LEMMA SamePromise ==
    ASSUME file' = file, Writing' = Writing, \A u \in Writing : view'[u] = view[u]
    PROVE  Promised' = Promised
<1>1. CASE Writing = {}
  BY <1>1 DEF Promised, LoadMetadata
<1>2. CASE Writing # {}
  <2> DEFINE u == CHOOSE w \in Writing : TRUE
  <2>1. u \in Writing /\ (CHOOSE w \in Writing' : TRUE) = u
    BY <1>2
  <2> QED
    BY <1>2, <2>1 DEF Promised, LoadMetadata
<1> QED
  BY <1>1, <1>2

(* A step of t that is not about the metadata file is no step of the store. *)
LEMMA QuietStep ==
    ASSUME Inv, NEW t \in Task, file' = file, pc[t] # "fill", pc'[t] # "fill",
           \A u \in Task \ {t} : pc'[u] = pc[u] /\ view'[u] = view[u]
    PROVE  Promised' = Promised /\ Writing' = Writing
<1>1. Writing' = Writing
  BY DEF Writing
<1>2. \A u \in Writing : view'[u] = view[u]
  BY DEF Writing
<1> QED
  BY <1>1, <1>2, SamePromise

LEMMA TruncateChanges ==
    ASSUME Guarded, Inv, NEW t \in team.tasks, Truncate(t), UNCHANGED kills
    PROVE  \E f \in File, e \in Entry \cup {NoEntry} : Store!Change(f, e)
<1>1. /\ pc[t] = "save" /\ file' = Torn /\ pc' = [pc EXCEPT ![t] = "fill"]
      /\ view' = view /\ seen' = seen
  BY DEF Truncate
<1>2. t \in Task /\ Current(t) \in GoodCall /\ DataOf(t) /\ Shape
  BY <1>1, InCall
<1>3. Excluded(t)
  BY <1>1, <1>2, Exclusion
<1>4. Writing = {} /\ Writing' = {t}
  BY <1>1, <1>2, <1>3 DEF Writing, Excluded, Shape
<1>5. Promised = LoadMetadata
  BY <1>4 DEF Promised
<1>6. Promised' = view[t]
  <2>1. (CHOOSE u \in Writing' : TRUE) = t
    BY <1>4
  <2> QED
    BY <1>1, <1>4, <2>1 DEF Promised
<1>7. Current(t).name \in File
  BY <1>1, <1>2 DEF DataOf, GoodCall
<1>8. PICK e \in Entry \cup {NoEntry} : view[t] = [LoadMetadata EXCEPT ![Current(t).name] = e]
  BY <1>1, <1>2 DEF DataOf
<1> QED
  BY <1>1, <1>4, <1>5, <1>6, <1>7, <1>8 DEF Store!Change

LEMMA SaveRewrites ==
    ASSUME Guarded, Inv, NEW t \in team.tasks, Save(t), UNCHANGED kills
    PROVE  Store!Rewritten
<1>1. pc[t] = "fill" /\ file' = view[t] /\ seen' = seen
  BY DEF Save
<1>2. t \in Task /\ Shape
  BY <1>1, InCall
<1>3. Promised = view[t] /\ Writing = {t}
  BY <1>1, <1>2, OneWriter
<1>4. file' # Torn
  BY <1>1, <1>2, StoreAssumption DEF Shape
<1>5. Promised' = view[t]
  BY <1>1, <1>4 DEF Promised, LoadMetadata
<1>6. Writing' = {}
  <2>1. pc'[t] # "fill" /\ \A u \in Task \ {t} : pc'[u] = pc[u]
    BY <1>2 DEF Save, Return, Shape
  <2> QED
    BY <1>3, <2>1 DEF Writing
<1> QED
  BY <1>1, <1>3, <1>5, <1>6 DEF Store!Rewritten

LEMMA ReadListSees ==
    ASSUME Guarded, Inv, NEW t \in team.tasks, ReadList(t), UNCHANGED kills
    PROVE  Store!See(t)
<1>1. /\ pc[t] = "run" /\ file' = file /\ view' = view
      /\ seen' = [seen EXCEPT ![t] = LoadMetadata]
      /\ pc' = [pc EXCEPT ![t] = IF Tail(calls[t]) = <<>> THEN "idle" ELSE "call"]
  BY DEF ReadList, Doing, Return
<1>2. t \in Task /\ Shape
  BY <1>1, InCall
<1>3. Writing = {}
  BY <1>1, <1>2, Exclusion DEF Writing, Excluded
<1>4. Promised = LoadMetadata
  BY <1>3 DEF Promised
<1>5. pc'[t] # "fill" /\ \A u \in Task \ {t} : pc'[u] = pc[u]
  BY <1>1, <1>2 DEF Shape
<1>6. Promised' = Promised /\ Writing' = Writing
  BY <1>1, <1>2, <1>5, QuietStep
<1> QED
  BY <1>1, <1>3, <1>4, <1>6 DEF Store!See

(* A kill loses entries only when the process was writing the file. *)
LEMMA CrashKills ==
    ASSUME Guarded, Inv, NEW P \in SUBSET Task, Crash(P)
    PROVE  Store!Kill
<1>1. /\ pc' = [t \in Task |-> IF t \in P THEN "idle" ELSE pc[t]]
      /\ view' = [t \in Task |-> IF t \in P THEN Empty ELSE view[t]]
      /\ seen' = [t \in Task |-> IF t \in P THEN Empty ELSE seen[t]]
      /\ file' = file /\ kills' = kills + 1
  BY DEF Crash
<1>2. Writing' = Writing \ P
  BY <1>1 DEF Writing
<1>3. CASE Writing \cap P = {}
  <2>1. Writing' = Writing /\ \A u \in Writing : view'[u] = view[u]
    BY <1>1, <1>2, <1>3 DEF Writing
  <2> QED
    BY <1>1, <2>1, SamePromise DEF Store!Kill, Store!Empty, Empty
<1>4. ASSUME NEW t \in Writing \cap P PROVE Store!Kill
  <2>1. Writing = {t} /\ file = Torn
    BY OneWriter DEF Writing
  <2>2. Writing' = {}
    BY <1>2, <2>1
  <2>3. Promised' = Empty
    BY <1>1, <2>1, <2>2 DEF Promised, LoadMetadata
  <2> QED
    BY <1>1, <2>1, <2>2, <2>3 DEF Store!Kill, Store!Empty, Empty
<1> QED
  BY <1>3, <1>4

LEMMA OperationQuiet ==
    ASSUME Inv, NEW t \in team.tasks, Operation(t)
    PROVE  Promised' = Promised /\ seen' = seen /\ Writing' = Writing
<1>1. \E job, cs : Start(t, job, cs)
  BY DEF Operation, RsPut, RsGet, RemoveFile, Announce, List, SyncFile
<1>2. /\ pc[t] = "idle" /\ pc' = [pc EXCEPT ![t] = "call"]
      /\ file' = file /\ view' = view /\ seen' = seen
  BY <1>1 DEF Start
<1>3. t \in Task /\ pc \in [Task -> Steps]
  BY TeamTasks DEF Inv, Shape
<1> QED
  BY <1>2, <1>3, QuietStep

LEMMA AccessQuiet ==
    ASSUME Inv, NEW t \in team.tasks, Access(t), ~Truncate(t), ~Save(t), ~ReadList(t)
    PROVE  Promised' = Promised /\ seen' = seen /\ Writing' = Writing
<1>0. t \in Task /\ Shape
  BY TeamTasks DEF Inv
<1>1. ASSUME NEW p, pc[t] # "fill", p # "fill", pc' = [pc EXCEPT ![t] = p], file' = file,
             view' = view \/ \E v : view' = [view EXCEPT ![t] = v]
      PROVE  Promised' = Promised /\ Writing' = Writing
  <2>1. pc'[t] # "fill" /\ \A u \in Task \ {t} : pc'[u] = pc[u] /\ view'[u] = view[u]
    BY <1>0, <1>1 DEF Shape
  <2> QED
    BY <1>0, <1>1, <2>1, QuietStep
<1>2. ASSUME pc' = pc, pc[t] # "fill", file' = file, view' = view
      PROVE  Promised' = Promised /\ Writing' = Writing
  BY <1>0, <1>2, QuietStep
<1>3. CASE Begin(t)
  BY <1>1, <1>3 DEF Begin
<1>4. CASE LookAtBlocks(t) \/ PruneList(t) \/ PruneScan(t) \/ \E b \in Block : Unlink(t, b)
  BY <1>2, <1>4 DEF LookAtBlocks, PruneList, PruneScan, Unlink, Doing
<1>5. CASE NothingToMark(t) \/ BlocksDone(t)
  BY <1>1, <1>5 DEF NothingToMark, BlocksDone, Return, Doing
<1>6. CASE Load(t)
  BY <1>1, <1>6 DEF Load, Doing
<1>7. CASE \E b \in Block : Create(t, b)
  BY <1>1, <1>2, <1>7 DEF Create, Doing
<1>8. CASE Close(t)
  BY <1>1, <1>8 DEF Close
<1> QED
  BY <1>3, <1>4, <1>5, <1>6, <1>7, <1>8 DEF Access

StoreVars == <<Promised, seen, Writing # {}, kills>>

LEMMA StepRefines ==
    ASSUME Guarded, Inv, [Next]_vars
    PROVE  [Store!Next]_StoreVars
<1>1. CASE UNCHANGED vars
  <2>1. Writing' = Writing
    BY <1>1 DEF Writing, vars
  <2> QED
    BY <1>1, <2>1, SamePromise DEF vars, StoreVars
<1>2. ASSUME NEW t \in team.tasks, Operation(t), UNCHANGED kills PROVE UNCHANGED StoreVars
  BY <1>2, OperationQuiet DEF StoreVars
<1>3. ASSUME NEW t \in team.tasks, Access(t), UNCHANGED kills PROVE [Store!Next]_StoreVars
  <2>1. CASE Truncate(t)
    BY <1>3, <2>1, TruncateChanges DEF Store!Next
  <2>2. CASE Save(t)
    BY <1>3, <2>2, SaveRewrites DEF Store!Next
  <2>3. CASE ReadList(t)
    BY <1>3, <2>3, ReadListSees, TeamTasks DEF Store!Next
  <2>4. CASE ~Truncate(t) /\ ~Save(t) /\ ~ReadList(t)
    BY <1>3, <2>4, AccessQuiet DEF StoreVars
  <2> QED
    BY <2>1, <2>2, <2>3, <2>4
<1>4. ASSUME NEW P \in {Daemon, Tui}, Crash(P) PROVE Store!Next
  <2>1. P \in SUBSET Task
    BY DEF Task
  <2> QED
    BY <1>4, <2>1, CrashKills DEF Store!Next
<1> QED
  BY <1>1, <1>2, <1>3, <1>4 DEF Next

LEMMA InitRefines == Init => Store!Init
<1> SUFFICES ASSUME Init PROVE Store!Init
  OBVIOUS
<1>1. Writing = {}
  BY DEF Init, Writing
<1>2. Promised = Empty
  BY <1>1 DEF Init, Promised, LoadMetadata
<1> QED
  BY <1>1, <1>2 DEF Init, Store!Init, Store!Empty, Empty

(* The tasks of the daemon under its lock, and a TUI by itself, implement    *)
(* the store whose calls are atomic: every listing is a state the metadata   *)
(* were in at one instant, none is taken of a file half written, and the     *)
(* only step that takes more than one entry away is a kill of a process     *)
(* between truncating and writing the file.                                 *)
THEOREM Implements == GuardedTeams /\ Spec => Linearizable
<1>1. GuardedTeams /\ Init /\ [][Next]_vars => Store!Init /\ [][Store!Next]_StoreVars
  <2> SUFFICES ASSUME GuardedTeams
               PROVE  Init /\ [][Next]_vars => Store!Init /\ [][Store!Next]_StoreVars
    OBVIOUS
  <2>1. Inv /\ [Next]_vars => [Store!Next]_StoreVars
    BY AllGuarded, StepRefines
  <2>2. Inv /\ [Next]_vars => Inv'
    BY AllGuarded, StepInv
  <2> QED
    BY <2>1, <2>2, InitInv, InitRefines, PTL
<1> QED
  BY <1>1 DEF Spec, Linearizable, Store!Spec, StoreVars

-----------------------------------------------------------------------------
(* One task, without the entries of peers. *)
Alone(t) == team.tasks = {t} /\ "announce" \notin team.jobs

(* Every listed entry of m, complete or not, has its owned blocks in P. *)
HasOwned(m, P) == \A f \in Listed(m) : m[f].blocks \cap Owned \subseteq P

Lists(c) == c.op \in {"put", "upsert"}

OwnedOf(c) == c.entry.blocks \cap Owned

(* The blocks of an entry that call i of q is to list are there, or an       *)
(* earlier call writes them.                                               *)
Provided(q, i, P) ==
    \/ OwnedOf(q[i]) \subseteq P
    \/ \E j \in 1..Len(q) : j < i /\ q[j].op = "write" /\ OwnedOf(q[i]) \subseteq P \cup q[j].want

(* And the prune before it does not take them. *)
Spared(q, i) ==
    /\ q[1].op = "scan" => OwnedOf(q[i]) \subseteq q[1].want
    /\ q[1].op = "unlink" => OwnedOf(q[i]) \cap q[1].want = {}

GoodQueue(q, P) ==
    \A i \in 1..Len(q) :
        /\ q[i].op # "announce"
        /\ q[i].op = "remove" => Len(q) = 1
        /\ Lists(q[i]) => Provided(q, i, P) /\ Spared(q, i)

Backed(t) ==
    /\ HasOwned(LoadMetadata, Present)
    /\ pc[t] \in {"save", "fill"} => HasOwned(view[t], Present)
    /\ GoodQueue(calls[t], Present)

AloneInv == \A t \in Task : Alone(t) => Inv /\ Backed(t)

LEMMA EmptyHasOwned ==
    ASSUME NEW P
    PROVE  HasOwned(Empty, P)
  BY DEF HasOwned, Listed, Empty

LEMMA MoreBlocks ==
    ASSUME NEW P, NEW Q, P \subseteq Q, NEW m, NEW q
    PROVE  /\ HasOwned(m, P) => HasOwned(m, Q)
           /\ GoodQueue(q, P) => GoodQueue(q, Q)
<1>1. HasOwned(m, P) => HasOwned(m, Q)
  BY DEF HasOwned
<1>2. \A i : Provided(q, i, P) => Provided(q, i, Q)
  BY DEF Provided
<1> QED
  BY <1>1, <1>2 DEF GoodQueue

(* A queue that writes right before it lists. *)
LEMMA FreshQueue ==
    ASSUME NEW P, NEW q \in Seq(GoodCall), q # <<>>,
           \A i \in 1..Len(q) :
               /\ q[i].op \notin {"announce", "scan", "unlink"}
               /\ q[i].op = "remove" => Len(q) = 1
               /\ Lists(q[i]) => i > 1 /\ q[i - 1].op = "write" /\ OwnedOf(q[i]) \subseteq q[i - 1].want
    PROVE  GoodQueue(q, P)
<1> SUFFICES ASSUME NEW i \in 1..Len(q), Lists(q[i]) PROVE Provided(q, i, P) /\ Spared(q, i)
  BY DEF GoodQueue
<1>1. i > 1 /\ i - 1 \in 1..Len(q) /\ i - 1 < i /\ 1 \in 1..Len(q)
  OBVIOUS
<1> QED
  BY <1>1 DEF Provided, Spared

(* The rest of a queue, when the first call is done. *)
LEMMA RestOfQueue ==
    ASSUME NEW P, NEW q \in Seq(GoodCall), q # <<>>, GoodQueue(q, P),
           q[1].op = "write" => q[1].want = {},
           \A i \in 1..Len(q) : i > 1 => q[i].op \notin {"scan", "unlink"}
    PROVE  GoodQueue(Tail(q), P)
<1> DEFINE r == Tail(q)
<1>1. /\ Len(q) \in Nat \ {0} /\ Len(r) = Len(q) - 1
      /\ \A i \in 1..Len(r) : r[i] = q[i + 1] /\ i + 1 \in 1..Len(q) /\ i + 1 > 1
  OBVIOUS
<1> HIDE DEF r
<1> SUFFICES ASSUME NEW i \in 1..Len(r)
             PROVE  /\ r[i].op # "announce" /\ r[i].op # "remove"
                    /\ Lists(r[i]) => Provided(r, i, P) /\ Spared(r, i)
  BY DEF GoodQueue, r
<1>2. r[i] = q[i + 1] /\ i + 1 \in 1..Len(q) /\ Len(q) # 1 /\ 1 \in 1..Len(r) /\ i \in Nat
  BY <1>1
<1>3. r[i].op # "announce" /\ r[i].op # "remove" /\ (Lists(r[i]) => Provided(q, i + 1, P))
  BY <1>2 DEF GoodQueue
<1>4. Spared(r, i)
  <2>1. r[1].op \notin {"scan", "unlink"}
    BY <1>1, <1>2
  <2> QED
    BY <2>1 DEF Spared
<1>5. ASSUME Lists(r[i]) PROVE Provided(r, i, P)
  <2>1. CASE OwnedOf(q[i + 1]) \subseteq P
    BY <1>2, <2>1 DEF Provided
  <2>2. ASSUME NEW j \in 1..Len(q), j < i + 1, q[j].op = "write", OwnedOf(q[i + 1]) \subseteq P \cup q[j].want
        PROVE  Provided(r, i, P)
    <3>1. CASE j = 1
      BY <1>2, <2>2, <3>1 DEF Provided
    <3>2. CASE j # 1
      <4>1. j - 1 \in 1..Len(r) /\ j - 1 < i /\ r[j - 1] = q[j]
        BY <1>1, <1>2, <2>2, <3>2
      <4> QED
        BY <1>2, <2>2, <4>1 DEF Provided
    <3> QED
      BY <3>1, <3>2
  <2> QED
    BY <1>3, <1>5, <2>1, <2>2 DEF Provided
<1> QED
  BY <1>3, <1>4, <1>5

(* The first call of a queue goes on as x. *)
LEMMA HeadOfQueue ==
    ASSUME NEW P, NEW Q, NEW q \in Seq(GoodCall), q # <<>>, GoodQueue(q, P), NEW x \in GoodCall,
           x.op # "announce", x.op = "remove" => Len(q) = 1,
           Lists(x) => OwnedOf(x) \subseteq Q /\ x.op \notin {"scan", "unlink"},
           \A i \in 1..Len(q) : i > 1 /\ Lists(q[i]) =>
              /\ OwnedOf(q[i]) \subseteq P => OwnedOf(q[i]) \subseteq Q
              /\ \A j \in 1..Len(q) :
                    j > 1 /\ OwnedOf(q[i]) \subseteq P \cup q[j].want => OwnedOf(q[i]) \subseteq Q \cup q[j].want
              /\ q[1].op = "write" /\ OwnedOf(q[i]) \subseteq P \cup q[1].want
                    => x.op = "write" /\ OwnedOf(q[i]) \subseteq Q \cup x.want
              /\ x.op = "scan" => OwnedOf(q[i]) \subseteq x.want
              /\ x.op = "unlink" => OwnedOf(q[i]) \cap x.want = {}
    PROVE  GoodQueue([q EXCEPT ![1] = x], Q)
<1> DEFINE r == [q EXCEPT ![1] = x]
<1>1. /\ Len(r) = Len(q) /\ Len(q) \in Nat \ {0} /\ r[1] = x /\ 1 \in 1..Len(q)
      /\ \A i \in 1..Len(q) : i > 1 => r[i] = q[i]
  OBVIOUS
<1> HIDE DEF r
<1> SUFFICES ASSUME NEW i \in 1..Len(q)
             PROVE  /\ r[i].op # "announce"
                    /\ r[i].op = "remove" => Len(q) = 1
                    /\ Lists(r[i]) => Provided(r, i, Q) /\ Spared(r, i)
  BY <1>1 DEF GoodQueue, r
<1>2. CASE i = 1
  BY <1>1, <1>2 DEF Provided, Spared
<1>3. CASE i > 1
  <2>1. r[i] = q[i] /\ r[i].op # "announce" /\ (r[i].op = "remove" => Len(q) = 1)
    BY <1>1, <1>3 DEF GoodQueue
  <2>2. ASSUME Lists(q[i]) PROVE Spared(r, i)
    BY <1>1, <1>3, <2>1, <2>2 DEF Spared
  <2>3. ASSUME Lists(q[i]) PROVE Provided(r, i, Q)
    <3>1. Provided(q, i, P)
      BY <2>3 DEF GoodQueue
    <3>2. CASE OwnedOf(q[i]) \subseteq P
      BY <1>3, <2>1, <2>3, <3>2 DEF Provided
    <3>3. ASSUME NEW j \in 1..Len(q), j < i, q[j].op = "write", OwnedOf(q[i]) \subseteq P \cup q[j].want
          PROVE  Provided(r, i, Q)
      <4>1. CASE j = 1
        <5>1. x.op = "write" /\ OwnedOf(q[i]) \subseteq Q \cup x.want
          BY <1>3, <2>3, <3>3, <4>1
        <5> QED
          BY <1>1, <1>3, <2>1, <5>1 DEF Provided
      <4>2. CASE j # 1
        <5>1. j > 1 /\ r[j] = q[j]
          BY <1>1, <4>2
        <5>2. OwnedOf(q[i]) \subseteq Q \cup q[j].want
          BY <1>3, <2>3, <3>3, <5>1
        <5> QED
          BY <1>1, <2>1, <3>3, <5>1, <5>2 DEF Provided
      <4> QED
        BY <4>1, <4>2
    <3> QED
      BY <3>1, <3>2, <3>3 DEF Provided
  <2> QED
    BY <2>1, <2>2, <2>3
<1> QED
  BY <1>2, <1>3

-----------------------------------------------------------------------------
(* What a step has to show. *)
LEMMA BackedNext ==
    ASSUME NEW t \in Task, HasOwned(LoadMetadata', Present'),
           pc'[t] \in {"save", "fill"} => HasOwned(view'[t], Present'),
           GoodQueue(calls'[t], Present')
    PROVE  Backed(t)'
  BY DEF Backed, HasOwned, Listed, GoodQueue, Provided, Spared, OwnedOf, Lists

(* The start of an operation. *)
LEMMA StartBacked ==
    ASSUME NEW t \in Task, Inv, Backed(t), NEW job, NEW cs \in Seq(GoodCall), cs # <<>>,
           Start(t, job, cs),
           \A i \in 1..Len(cs) :
               /\ cs[i].op \notin {"announce", "scan", "unlink"}
               /\ cs[i].op = "remove" => Len(cs) = 1
               /\ Lists(cs[i]) => i > 1 /\ cs[i - 1].op = "write" /\ OwnedOf(cs[i]) \subseteq cs[i - 1].want
    PROVE  Backed(t)'
<1>1. /\ calls' = [calls EXCEPT ![t] = cs] /\ pc' = [pc EXCEPT ![t] = "call"]
      /\ file' = file /\ disk' = disk
  BY DEF Start
<1>2. calls'[t] = cs /\ pc'[t] = "call"
  BY <1>1 DEF Inv, Shape
<1>3. LoadMetadata' = LoadMetadata /\ Present' = Present
  BY <1>1 DEF LoadMetadata, Present
<1>4. GoodQueue(cs, Present)
  BY FreshQueue
<1> QED
  BY <1>2, <1>3, <1>4, BackedNext DEF Backed

LEMMA OperationBacked ==
    ASSUME NEW t \in Task, Alone(t), Inv, Backed(t), Operation(t)
    PROVE  Backed(t)'
<1>0. Shape
  BY DEF Inv
<1>1. ASSUME NEW f \in File, NEW B \in SUBSET Block, RsPut(t, f, B) PROVE Backed(t)'
  <2> DEFINE a == CallOf("write", NoFile, NoEntry, B)
             b == CallOf("put", f, Complete(B), {})
  <2>1. a \in GoodCall /\ b \in GoodCall
    BY CompleteType, CallOfType DEF Writes
  <2>2. a.op = "write" /\ a.want = B /\ b.op = "put" /\ OwnedOf(b) \subseteq a.want
    BY DEF CallOf, OwnedOf, Complete
  <2>3. Start(t, "put", <<a, b>>)
    BY <1>1 DEF RsPut, PutCalls
  <2> HIDE DEF a, b
  <2> DEFINE cs == <<a, b>>
  <2>5. cs \in Seq(GoodCall) /\ cs # <<>> /\ Len(cs) = 2 /\ cs[1] = a /\ cs[2] = b
    BY <2>1
  <2>6. Start(t, "put", cs)
    BY <2>3
  <2> HIDE DEF cs
  <2> QED
    BY <2>1, <2>2, <2>3, <2>5, <2>6, StartBacked DEF Lists
<1>2. ASSUME NEW f \in File, RsGet(t, f) PROVE Backed(t)'
  <2> DEFINE e == LoadMetadata[f]
             a == CallOf("syncing", f, NoEntry, {})
             b == CallOf("write", NoFile, NoEntry, e.blocks)
             c == CallOf("upsert", f, Complete(e.blocks), {})
             d == CallOf("prune", NoFile, NoEntry, {})
  <2>1. e \in Entry /\ Start(t, "get", <<a, b, c, d>>)
    BY <1>0, <1>2, MetadataLoads DEF RsGet, Metadata
  <2>2. e.blocks \in SUBSET Block
    BY <2>1 DEF Entry
  <2>3. a \in GoodCall /\ b \in GoodCall /\ c \in GoodCall /\ d \in GoodCall
    BY <2>2, CompleteType, CallOfType DEF Writes
  <2>4. /\ a.op = "syncing" /\ b.op = "write" /\ c.op = "upsert" /\ d.op = "prune"
        /\ OwnedOf(c) \subseteq b.want
    BY DEF CallOf, OwnedOf, Complete
  <2> HIDE DEF a, b, c, d, e
  <2> DEFINE cs == <<a, b, c, d>>
  <2>5. cs \in Seq(GoodCall) /\ cs # <<>> /\ Len(cs) = 4 /\ cs[1] = a /\ cs[2] = b /\ cs[3] = c /\ cs[4] = d
    BY <2>3
  <2>6. Start(t, "get", cs)
    BY <2>1
  <2> HIDE DEF cs
  <2> QED
    BY <2>1, <2>3, <2>4, <2>5, <2>6, StartBacked DEF Lists
<1>3. ASSUME NEW f \in File, SyncFile(t, f) PROVE Backed(t)'
  <2> DEFINE e == seen[t][f]
             a == CallOf("syncing", f, NoEntry, {})
             b == CallOf("write", NoFile, NoEntry, e.blocks \cap Owned)
             c == CallOf("upsert", f, Complete(e.blocks), {})
  <2>1. e \in Entry /\ Start(t, "sync", <<a, b, c>>)
    BY <1>0, <1>3 DEF SyncFile, Shape, Metadata
  <2>2. e.blocks \in SUBSET Block
    BY <2>1 DEF Entry
  <2>3. a \in GoodCall /\ b \in GoodCall /\ c \in GoodCall
    BY <2>2, CompleteType, CallOfType DEF Writes
  <2>4. /\ a.op = "syncing" /\ b.op = "write" /\ c.op = "upsert"
        /\ OwnedOf(c) \subseteq b.want
    BY DEF CallOf, OwnedOf, Complete
  <2> HIDE DEF a, b, c, e
  <2> DEFINE cs == <<a, b, c>>
  <2>5. cs \in Seq(GoodCall) /\ cs # <<>> /\ Len(cs) = 3 /\ cs[1] = a /\ cs[2] = b /\ cs[3] = c
    BY <2>3
  <2>6. Start(t, "sync", cs)
    BY <2>1
  <2> HIDE DEF cs
  <2> QED
    BY <2>1, <2>3, <2>4, <2>5, <2>6, StartBacked DEF Lists
<1>4. ASSUME NEW f \in File, RemoveFile(t, f) PROVE Backed(t)'
  <2> DEFINE a == CallOf("remove", f, NoEntry, {})
  <2>1. a \in GoodCall /\ a.op = "remove" /\ Start(t, "remove", <<a>>)
    BY <1>4, CallOfType DEF Writes, RemoveFile
  <2> HIDE DEF a
  <2> DEFINE cs == <<a>>
  <2>5. cs \in Seq(GoodCall) /\ cs # <<>> /\ Len(cs) = 1 /\ cs[1] = a
    BY <2>1
  <2>6. Start(t, "remove", cs)
    BY <2>1
  <2> HIDE DEF cs
  <2> QED
    BY <2>1, <2>5, <2>6, StartBacked DEF Lists
<1>5. ASSUME List(t) PROVE Backed(t)'
  <2> DEFINE a == CallOf("list", NoFile, NoEntry, {})
  <2>1. a \in GoodCall /\ a.op = "list" /\ Start(t, "list", <<a>>)
    BY <1>5, CallOfType DEF Writes, List
  <2> HIDE DEF a
  <2> DEFINE cs == <<a>>
  <2>5. cs \in Seq(GoodCall) /\ cs # <<>> /\ Len(cs) = 1 /\ cs[1] = a
    BY <2>1
  <2>6. Start(t, "list", cs)
    BY <2>1
  <2> HIDE DEF cs
  <2> QED
    BY <2>1, <2>5, <2>6, StartBacked DEF Lists
<1>6. ~ \E f \in File, B \in SUBSET Block : Announce(t, f, B)
  BY DEF Announce, Start, Alone
<1> QED
  BY <1>1, <1>2, <1>3, <1>4, <1>5, <1>6 DEF Operation

(* The end of a call that leaves the blocks alone, the metadata now being m. *)
LEMMA ReturnBacked ==
    ASSUME NEW t \in Task, Inv, Backed(t), pc[t] # "idle", Return(t), disk' = disk,
           Current(t).op = "write" => Current(t).want = {},
           HasOwned(LoadMetadata', Present)
    PROVE  Backed(t)'
<1>1. /\ calls[t] \in Seq(GoodCall) /\ calls[t] # <<>> /\ Current(t) = calls[t][1]
      /\ QueueOf(t) /\ Shape
  BY HeadIsGood DEF Inv
<1>2. calls'[t] = Tail(calls[t]) /\ pc'[t] \in {"idle", "call"}
  BY <1>1 DEF Return, Shape
<1>3. \A i \in 1..Len(calls[t]) : i > 1 => calls[t][i].op \notin {"scan", "unlink"}
  BY <1>1 DEF QueueOf
<1>4. GoodQueue(Tail(calls[t]), Present)
  BY <1>1, <1>3, RestOfQueue DEF Backed
<1>5. Present' = Present
  BY DEF Present
<1> QED
  BY <1>2, <1>4, <1>5, BackedNext

LEMMA DoneBacked ==
    ASSUME NEW t \in Task, Inv, Backed(t), NothingToMark(t) \/ BlocksDone(t) \/ ReadList(t)
    PROVE  Backed(t)'
<1>1. /\ pc[t] = "run" /\ Return(t) /\ file' = file /\ disk' = disk
      /\ Current(t).op = "write" => Current(t).want = {}
  BY DEF NothingToMark, BlocksDone, ReadList, Doing
<1>2. LoadMetadata' = LoadMetadata
  BY <1>1 DEF LoadMetadata
<1> QED
  BY <1>1, <1>2, ReturnBacked DEF Backed

LEMMA BeginBacked ==
    ASSUME NEW t \in Task, Inv, Backed(t), Begin(t)
    PROVE  Backed(t)'
<1>1. pc'[t] = "run" /\ UNCHANGED <<file, disk, calls>>
  BY DEF Begin, Inv, Shape
<1> QED
  BY <1>1, BackedNext DEF Backed, LoadMetadata, Present

(* The call that changes an entry takes the blocks of the new one as there. *)
LEMMA LoadBacked ==
    ASSUME NEW t \in Task, Inv, Backed(t), Load(t)
    PROVE  Backed(t)'
<1> DEFINE c == Current(t)
           m == LoadMetadata
           want == IF c.op = "remove" THEN Unreferenced(m, c.name) ELSE {}
           x == [c EXCEPT !.want = want]
           v == [m EXCEPT ![c.name] = NewEntry(m, c)]
           q == calls[t]
           P == Present
<1>1. /\ pc[t] = "run" /\ c.op \in Writes \ {"announce"} /\ (c.op = "syncing" => m[c.name] # NoEntry)
      /\ view' = [view EXCEPT ![t] = v] /\ pc' = [pc EXCEPT ![t] = "save"]
      /\ UNCHANGED <<file, disk>>
  BY DEF Load, Doing
<1>2. /\ q \in Seq(GoodCall) /\ q # <<>> /\ Len(q) \in Nat \ {0} /\ c = q[1] /\ c \in GoodCall
      /\ Shape /\ m \in Metadata /\ GoodQueue(q, P) /\ HasOwned(m, P)
  BY <1>1, HeadIsGood, MetadataLoads DEF Inv, Backed
<1>3. calls' = [calls EXCEPT ![t] = [q EXCEPT ![1] = x]]
  BY <1>2 DEF Load
<1>4. c.name \in File
  BY <1>1, <1>2 DEF GoodCall
<1>5. want \in SUBSET Block
  BY <1>2, <1>4 DEF Unreferenced, Metadata, Entry
<1>6. x \in GoodCall /\ x.op = c.op /\ x.entry = c.entry
  BY <1>2, <1>5 DEF GoodCall, Call
<1>7. c.op # "announce" /\ (c.op = "remove" => Len(q) = 1) /\ (Lists(c) => OwnedOf(c) \subseteq P)
  <2>1. 1 \in 1..Len(q) /\ ~ \E j \in 1..Len(q) : j < 1
    BY <1>2
  <2> QED
    BY <1>2, <2>1 DEF GoodQueue, Provided
<1>8. HasOwned(v, P)
  <2> SUFFICES ASSUME NEW f \in File, v[f] # NoEntry PROVE v[f].blocks \cap Owned \subseteq P
    BY DEF HasOwned, Listed
  <2>0. DOMAIN m = File
    BY <1>2 DEF Metadata
  <2>1. CASE f # c.name
    <3>1. v[f] = m[f]
      BY <2>0, <2>1
    <3> QED
      BY <1>2, <3>1 DEF HasOwned, Listed
  <2>2. CASE f = c.name
    <3>0. v[f] = NewEntry(m, c)
      BY <2>0, <2>2
    <3>1. CASE c.op \in {"put", "upsert"}
      <4>1. v[f] = c.entry
        BY <3>0, <3>1 DEF NewEntry
      <4> QED
        BY <1>7, <3>1, <4>1 DEF Lists, OwnedOf
    <3>2. CASE c.op = "syncing"
      <4>1. m[f] \in Entry /\ f \in Listed(m)
        BY <1>1, <1>2, <2>2, <3>2 DEF Metadata, Listed
      <4>2. v[f].blocks = m[f].blocks
        BY <2>2, <3>0, <3>2, <4>1 DEF NewEntry, Entry
      <4> QED
        BY <1>2, <4>1, <4>2 DEF HasOwned
    <3>3. CASE c.op = "remove"
      BY <3>0, <3>3 DEF NewEntry
    <3> QED
      BY <1>1, <3>1, <3>2, <3>3 DEF Writes
  <2> QED
    BY <2>1, <2>2
<1>9. GoodQueue([q EXCEPT ![1] = x], P)
  <2>1. x.op \notin {"announce", "scan", "unlink", "write"} /\ q[1].op # "write"
    BY <1>1, <1>2, <1>6 DEF Writes
  <2>2. (x.op = "remove" => Len(q) = 1) /\ (Lists(x) => OwnedOf(x) \subseteq P)
    BY <1>6, <1>7 DEF Lists, OwnedOf
  <2> HIDE DEF x
  <2> QED
    BY <1>2, <1>6, <2>1, <2>2, HeadOfQueue
<1>10. calls'[t] = [q EXCEPT ![1] = x] /\ view'[t] = v
  BY <1>1, <1>2, <1>3 DEF Shape
<1>11. LoadMetadata' = m /\ Present' = P
  BY <1>1 DEF LoadMetadata, Present
<1> HIDE DEF x, v
<1> QED
  BY <1>2, <1>8, <1>9, <1>10, <1>11, BackedNext

LEMMA TruncateBacked ==
    ASSUME NEW t \in Task, Inv, Backed(t), Truncate(t)
    PROVE  Backed(t)'
<1>1. pc[t] = "save" /\ file' = Torn /\ UNCHANGED <<disk, calls, view>>
  BY DEF Truncate
<1>2. LoadMetadata' = Empty /\ Present' = Present
  BY <1>1 DEF LoadMetadata, Present
<1>3. HasOwned(Empty, Present)
  BY EmptyHasOwned
<1> QED
  BY <1>1, <1>2, <1>3, BackedNext DEF Backed

LEMMA SaveBacked ==
    ASSUME NEW t \in Task, Inv, Backed(t), Save(t)
    PROVE  Backed(t)'
<1> DEFINE c == Current(t)
           x == [c EXCEPT !.op = "unlink"]
           q == calls[t]
<1>1. pc[t] = "fill" /\ file' = view[t] /\ disk' = disk
  BY DEF Save
<1>2. /\ q \in Seq(GoodCall) /\ q # <<>> /\ Len(q) \in Nat \ {0} /\ c = q[1] /\ c \in GoodCall
      /\ Shape /\ DataOf(t) /\ GoodQueue(q, Present)
  BY <1>1, HeadIsGood DEF Inv, Backed
<1>3. LoadMetadata' = view[t] /\ Present' = Present
  BY <1>1, <1>2, StoreAssumption DEF Shape, LoadMetadata, Present
<1>4. HasOwned(view[t], Present)
  BY <1>1 DEF Backed
<1>5. CASE c.op = "remove"
  <2>1. /\ calls' = [calls EXCEPT ![t] = [q EXCEPT ![1] = x]] /\ pc' = [pc EXCEPT ![t] = "run"]
    BY <1>2, <1>5 DEF Save
  <2>2. x \in GoodCall /\ x.op = "unlink"
    BY <1>2 DEF GoodCall, Call, Writes
  <2>3. Len(q) = 1
    <3>1. 1 \in 1..Len(q)
      BY <1>2
    <3> QED
      BY <1>2, <1>5, <3>1 DEF GoodQueue
  <2> HIDE DEF x
  <2>4. GoodQueue([q EXCEPT ![1] = x], Present)
    <3>1. \A i \in 1..Len(q) : ~ (i > 1)
      BY <2>3
    <3>2. ~ Lists(x)
      BY <2>2 DEF Lists
    <3> QED
      BY <1>2, <2>2, <3>1, <3>2, HeadOfQueue
  <2>5. calls'[t] = [q EXCEPT ![1] = x] /\ pc'[t] = "run"
    BY <1>2, <2>1 DEF Shape
  <2> QED
    BY <1>3, <1>4, <2>4, <2>5, BackedNext
<1>6. CASE c.op # "remove"
  <2>1. Return(t) /\ c.op # "write"
    BY <1>1, <1>2, <1>6 DEF Save, DataOf, Writes
  <2> QED
    BY <1>1, <1>3, <1>4, <2>1, ReturnBacked
<1> QED
  BY <1>5, <1>6

(* What is unlinked is not referred to, nor about to be listed again. *)
LEMMA UnlinkBacked ==
    ASSUME NEW t \in Task, Inv, Backed(t), NEW b \in Block, Unlink(t, b)
    PROVE  Backed(t)'
<1> DEFINE c == Current(t)
           x == [c EXCEPT !.want = @ \ {b}]
           q == calls[t]
           Q == Present \ {b}
<1>1. /\ pc[t] = "run" /\ c.op = "unlink" /\ b \in c.want /\ disk' = [disk EXCEPT ![b] = "absent"]
      /\ file' = file /\ pc' = pc
  BY DEF Unlink, Doing
<1>2. /\ q \in Seq(GoodCall) /\ q # <<>> /\ Len(q) \in Nat \ {0} /\ c = q[1] /\ c \in GoodCall
      /\ Shape /\ DataOf(t) /\ GoodQueue(q, Present) /\ HasOwned(LoadMetadata, Present)
  BY <1>1, HeadIsGood DEF Inv, Backed
<1>3. LoadMetadata' = LoadMetadata /\ Present' = Q
  BY <1>1, <1>2 DEF LoadMetadata, Present, Shape
<1>4. HasOwned(LoadMetadata, Q)
  <2>1. b \notin Referenced(LoadMetadata) \cap Owned
    BY <1>1, <1>2 DEF DataOf
  <2> QED
    BY <1>2, <2>1 DEF HasOwned, Referenced
<1>5. x \in GoodCall /\ x.op = "unlink" /\ x.want \subseteq c.want
  BY <1>1, <1>2 DEF GoodCall, Call
<1>6. calls'[t] = [q EXCEPT ![1] = x]
  BY <1>2 DEF Unlink, Shape
<1> HIDE DEF x
<1>7. GoodQueue([q EXCEPT ![1] = x], Q)
  <2>1. ASSUME NEW i \in 1..Len(q), Lists(q[i]) PROVE OwnedOf(q[i]) \cap c.want = {}
    BY <1>1, <1>2, <2>1 DEF GoodQueue, Spared
  <2>2. ASSUME NEW i \in 1..Len(q), Lists(q[i])
        PROVE  OwnedOf(q[i]) \cap x.want = {} /\ b \notin OwnedOf(q[i])
    BY <1>1, <1>5, <2>1, <2>2
  <2>3. ~ Lists(x)
    BY <1>5 DEF Lists
  <2>4. ASSUME NEW i \in 1..Len(q), Lists(q[i])
        PROVE  /\ OwnedOf(q[i]) \subseteq Present => OwnedOf(q[i]) \subseteq Q
               /\ \A R : OwnedOf(q[i]) \subseteq Present \cup R => OwnedOf(q[i]) \subseteq Q \cup R
    BY <2>2, <2>4
  <2> HIDE DEF Q
  <2>5. \A i \in 1..Len(q) : i > 1 /\ Lists(q[i]) =>
           /\ OwnedOf(q[i]) \subseteq Present => OwnedOf(q[i]) \subseteq Q
           /\ \A j \in 1..Len(q) :
                 j > 1 /\ OwnedOf(q[i]) \subseteq Present \cup q[j].want => OwnedOf(q[i]) \subseteq Q \cup q[j].want
           /\ q[1].op = "write" /\ OwnedOf(q[i]) \subseteq Present \cup q[1].want
                 => x.op = "write" /\ OwnedOf(q[i]) \subseteq Q \cup x.want
           /\ x.op = "scan" => OwnedOf(q[i]) \subseteq x.want
           /\ x.op = "unlink" => OwnedOf(q[i]) \cap x.want = {}
    BY <1>1, <1>2, <1>5, <2>2, <2>4
  <2> QED
    BY <1>2, <1>5, <2>3, <2>5, HeadOfQueue
<1> HIDE DEF Q
<1> QED
  BY <1>1, <1>3, <1>4, <1>6, <1>7, BackedNext DEF Backed

LEMMA CreateBacked ==
    ASSUME NEW t \in Task, Inv, Backed(t), NEW b \in Block, Create(t, b)
    PROVE  Backed(t)'
<1> DEFINE c == Current(t)
           x == [c EXCEPT !.want = @ \ {b}]
           q == calls[t]
           Q == Present \cup {b}
<1>1. /\ pc[t] = "run" /\ c.op = "write" /\ b \in c.want /\ file' = file
      /\ \/ disk[b] = "absent" /\ pc' = [pc EXCEPT ![t] = "close"] /\ disk' = [disk EXCEPT ![b] = t]
         \/ disk[b] # "absent" /\ pc' = pc /\ disk' = disk
  BY DEF Create, Doing
<1>2. /\ q \in Seq(GoodCall) /\ q # <<>> /\ Len(q) \in Nat \ {0} /\ c = q[1] /\ c \in GoodCall
      /\ Shape /\ GoodQueue(q, Present) /\ HasOwned(LoadMetadata, Present)
  BY <1>1, HeadIsGood DEF Inv, Backed
<1>3. LoadMetadata' = LoadMetadata /\ Present' = Q
  BY <1>1, <1>2, StoreAssumption DEF LoadMetadata, Present, Shape
<1>4. x \in GoodCall /\ x.op = "write" /\ x.want = c.want \ {b}
  BY <1>1, <1>2 DEF GoodCall, Call
<1>5. calls'[t] = [q EXCEPT ![1] = x] /\ pc'[t] \in {"run", "close"}
  BY <1>1, <1>2 DEF Create, Shape
<1> HIDE DEF x
<1>6. GoodQueue([q EXCEPT ![1] = x], Q)
  <2>1. ~ Lists(x)
    BY <1>4 DEF Lists
  <2>2. /\ \A R : R \subseteq Present => R \subseteq Q
        /\ \A R, S : R \subseteq Present \cup S => R \subseteq Q \cup S
        /\ \A R : R \subseteq Present \cup c.want => R \subseteq Q \cup x.want
    BY <1>4
  <2> HIDE DEF Q
  <2>5. \A i \in 1..Len(q) : i > 1 /\ Lists(q[i]) =>
           /\ OwnedOf(q[i]) \subseteq Present => OwnedOf(q[i]) \subseteq Q
           /\ \A j \in 1..Len(q) :
                 j > 1 /\ OwnedOf(q[i]) \subseteq Present \cup q[j].want => OwnedOf(q[i]) \subseteq Q \cup q[j].want
           /\ q[1].op = "write" /\ OwnedOf(q[i]) \subseteq Present \cup q[1].want
                 => x.op = "write" /\ OwnedOf(q[i]) \subseteq Q \cup x.want
           /\ x.op = "scan" => OwnedOf(q[i]) \subseteq x.want
           /\ x.op = "unlink" => OwnedOf(q[i]) \cap x.want = {}
    BY <1>1, <1>2, <1>4, <2>2
  <2> QED
    BY <1>2, <1>4, <2>1, <2>5, HeadOfQueue
<1>7. HasOwned(LoadMetadata, Q)
  BY <1>2, MoreBlocks
<1> HIDE DEF Q
<1> QED
  BY <1>3, <1>5, <1>6, <1>7, BackedNext

LEMMA CloseBacked ==
    ASSUME NEW t \in Task, Inv, Backed(t), Close(t)
    PROVE  Backed(t)'
<1>1. /\ disk' = [b \in Block |-> IF disk[b] = t THEN "whole" ELSE disk[b]]
      /\ file' = file /\ calls' = calls /\ pc'[t] = "run"
  BY DEF Close, Inv, Shape
<1>2. LoadMetadata' = LoadMetadata /\ Present' = Present
  BY <1>1, StoreAssumption DEF LoadMetadata, Present
<1> QED
  BY <1>1, <1>2, BackedNext DEF Backed

(* The prune lists again only what has its blocks, and keeps those. *)
LEMMA PruneListBacked ==
    ASSUME NEW t \in Task, Inv, Backed(t), PruneList(t)
    PROVE  Backed(t)'
<1> DEFINE m == LoadMetadata
           x == CallOf("scan", NoFile, NoEntry, Referenced(m) \cap Owned)
           r == Relist(m)
           q == <<x>> \o r
<1>1. pc[t] = "run" /\ calls' = [calls EXCEPT ![t] = q] /\ UNCHANGED <<file, disk, pc>>
  BY DEF PruneList, Doing
<1>2. Shape /\ m \in Metadata /\ HasOwned(m, Present)
  BY MetadataLoads DEF Inv, Backed
<1>3. LoadMetadata' = m /\ Present' = Present
  BY <1>1 DEF LoadMetadata, Present
<1>4. x \in GoodCall /\ x.op = "scan" /\ x.want = Referenced(m) \cap Owned
  BY StoreAssumption, CallOfType DEF Writes, CallOf
<1>5. /\ r \in Seq(GoodCall)
      /\ \A i \in 1..Len(r) : r[i].op = "upsert" /\ \E f \in Listed(m) : r[i].entry = Complete(m[f].blocks)
  BY <1>2, RelistType
<1>6. ASSUME NEW i \in 1..Len(r)
      PROVE  OwnedOf(r[i]) \subseteq Present /\ OwnedOf(r[i]) \subseteq x.want
  <2>1. PICK f \in Listed(m) : r[i].entry = Complete(m[f].blocks)
    BY <1>5
  <2>2. OwnedOf(r[i]) = m[f].blocks \cap Owned
    BY <2>1 DEF OwnedOf, Complete
  <2> QED
    BY <1>2, <1>4, <2>2 DEF HasOwned, Referenced
<1> HIDE DEF x, r, m
<1>7. /\ q \in Seq(GoodCall) /\ Len(q) \in Nat /\ q[1] = x
      /\ \A i \in 1..Len(q) : i > 1 => q[i] = r[i - 1] /\ i - 1 \in 1..Len(r)
  BY <1>4, <1>5
<1> HIDE DEF q
<1>8. GoodQueue(q, Present)
  <2> SUFFICES ASSUME NEW i \in 1..Len(q)
               PROVE  /\ q[i].op \notin {"announce", "remove"}
                      /\ Lists(q[i]) => Provided(q, i, Present) /\ Spared(q, i)
    BY DEF GoodQueue
  <2>1. CASE i = 1
    BY <1>4, <1>7, <2>1 DEF Lists
  <2>2. CASE i > 1
    <3>1. q[i] = r[i - 1] /\ i - 1 \in 1..Len(r)
      BY <1>7, <2>2
    <3>2. q[i].op = "upsert" /\ OwnedOf(q[i]) \subseteq Present /\ OwnedOf(q[i]) \subseteq q[1].want
      BY <1>5, <1>6, <1>7, <3>1
    <3> QED
      BY <1>4, <1>7, <3>2 DEF Provided, Spared
  <2> QED
    BY <2>1, <2>2
<1>9. calls'[t] = q /\ pc'[t] = "run"
  BY <1>1, <1>2 DEF Shape
<1> QED
  BY <1>2, <1>3, <1>8, <1>9, BackedNext

LEMMA PruneScanBacked ==
    ASSUME NEW t \in Task, Inv, Backed(t), PruneScan(t)
    PROVE  Backed(t)'
<1> DEFINE c == Current(t)
           x == [c EXCEPT !.op = "unlink", !.want = Present \ @]
           q == calls[t]
           P == Present
<1>1. pc[t] = "run" /\ c.op = "scan" /\ UNCHANGED <<file, disk, pc>>
  BY DEF PruneScan, Doing
<1>2. /\ q \in Seq(GoodCall) /\ q # <<>> /\ Len(q) \in Nat \ {0} /\ c = q[1] /\ c \in GoodCall
      /\ Shape /\ GoodQueue(q, P)
  BY <1>1, HeadIsGood DEF Inv, Backed
<1>3. calls'[t] = [q EXCEPT ![1] = x]
  BY <1>2 DEF PruneScan, Shape
<1>4. x \in GoodCall /\ x.op = "unlink" /\ x.want = P \ c.want
  BY <1>1, <1>2 DEF GoodCall, Call, Writes, Present
<1> HIDE DEF x
<1>5. LoadMetadata' = LoadMetadata /\ Present' = P
  BY <1>1 DEF LoadMetadata, Present
<1> HIDE DEF P
<1>6. GoodQueue([q EXCEPT ![1] = x], P)
  <2>1. ASSUME NEW i \in 1..Len(q), Lists(q[i]) PROVE OwnedOf(q[i]) \cap x.want = {}
    <3>1. OwnedOf(q[i]) \subseteq c.want
      BY <1>1, <1>2, <2>1 DEF GoodQueue, Spared
    <3> QED
      BY <1>4, <3>1
  <2>2. ~ Lists(x)
    BY <1>4 DEF Lists
  <2> QED
    BY <1>1, <1>2, <1>4, <2>1, <2>2, HeadOfQueue
<1> QED
  BY <1>1, <1>3, <1>5, <1>6, BackedNext DEF Backed, P

LEMMA CrashBacked ==
    ASSUME NEW t \in Task, Inv, Backed(t), NEW P \in SUBSET Task, Crash(P)
    PROVE  Backed(t)'
<1>1. /\ disk' = [b \in Block |-> IF disk[b] \in P THEN "torn" ELSE disk[b]]
      /\ calls' = [u \in Task |-> IF u \in P THEN <<>> ELSE calls[u]]
      /\ pc' = [u \in Task |-> IF u \in P THEN "idle" ELSE pc[u]]
      /\ view' = [u \in Task |-> IF u \in P THEN Empty ELSE view[u]]
      /\ file' = file
  BY DEF Crash
<1>2. LoadMetadata' = LoadMetadata /\ Present' = Present
  BY <1>1, StoreAssumption DEF LoadMetadata, Present
<1>3. CASE t \in P
  <2>1. calls'[t] = <<>> /\ pc'[t] = "idle" /\ Len(<<>>) = 0
    BY <1>1, <1>3
  <2>2. GoodQueue(<<>>, Present)
    BY <2>1 DEF GoodQueue
  <2> QED
    BY <1>2, <2>1, <2>2, BackedNext DEF Backed
<1>4. CASE t \notin P
  <2>1. calls'[t] = calls[t] /\ pc'[t] = pc[t] /\ view'[t] = view[t]
    BY <1>1, <1>4
  <2> QED
    BY <1>2, <2>1, BackedNext DEF Backed
<1> QED
  BY <1>3, <1>4

LEMMA StepBacked ==
    ASSUME NEW t \in Task, Alone(t), Inv, Backed(t), [Next]_vars
    PROVE  Backed(t)'
<1>1. CASE UNCHANGED vars
  <2>1. LoadMetadata' = LoadMetadata /\ Present' = Present /\ UNCHANGED <<calls, pc, view>>
    BY <1>1 DEF vars, LoadMetadata, Present
  <2> QED
    BY <2>1, BackedNext DEF Backed
<1>2. ASSUME NEW u \in team.tasks, Operation(u) \/ Access(u) PROVE Backed(t)'
  <2>1. u = t
    BY DEF Alone
  <2>2. LookAtBlocks(t) => FALSE
    <3> SUFFICES ASSUME LookAtBlocks(t) PROVE FALSE
      OBVIOUS
    <3>1. pc[t] = "run" /\ Current(t).op = "announce"
      BY DEF LookAtBlocks, Doing
    <3>2. Current(t) = calls[t][1] /\ Len(calls[t]) \in Nat \ {0}
      BY <3>1, HeadIsGood
    <3>3. 1 \in 1..Len(calls[t])
      BY <3>2
    <3> QED
      BY <3>1, <3>2, <3>3 DEF Backed, GoodQueue
  <2> QED
    BY <1>2, <2>1, <2>2, OperationBacked, BeginBacked, DoneBacked, LoadBacked, TruncateBacked,
       SaveBacked, UnlinkBacked, CreateBacked, CloseBacked, PruneListBacked, PruneScanBacked
       DEF Access
<1>3. ASSUME NEW P \in {Daemon, Tui}, Crash(P) PROVE Backed(t)'
  BY <1>3, CrashBacked DEF Task
<1> QED
  BY <1>1, <1>2, <1>3 DEF Next

(* AloneInv is inductive. *)
LEMMA AloneInvariant == Spec => []AloneInv
<1>1. Init => AloneInv
  <2> SUFFICES ASSUME Init, NEW t \in Task PROVE Inv /\ Backed(t)
    BY DEF AloneInv
  <2>1. LoadMetadata = Empty /\ calls[t] = <<>> /\ pc[t] = "idle" /\ Len(<<>>) = 0
    BY DEF Init, LoadMetadata, Empty
  <2>2. GoodQueue(<<>>, Present)
    BY <2>1 DEF GoodQueue
  <2> QED
    BY <2>1, <2>2, InitInv, EmptyHasOwned DEF Backed
<1>2. AloneInv /\ [Next]_vars => AloneInv'
  <2> SUFFICES ASSUME AloneInv, [Next]_vars, NEW t \in Task, Alone(t)' PROVE Inv' /\ Backed(t)'
    BY DEF AloneInv
  <2>1. team' = team
    BY DEF Next, vars
  <2>2. Alone(t) /\ Guarded
    BY <2>1 DEF Alone, Guarded, GuardedTeam
  <2> QED
    BY <2>2, StepInv, StepBacked DEF AloneInv
<1> QED
  BY <1>1, <1>2, PTL DEF Spec

(* With one task at a time, killed at any point, and no entries of peers, an *)
(* entry that says complete has each block this machine is assigned in its   *)
(* directory: blocks are written before the entry that lists them, a delete  *)
(* and the prune take only what nobody lists, and what a kill cuts short     *)
(* leaves no entry without its blocks.                                      *)
THEOREM CompleteIsOwned == Spec => []CompleteHasOwned
<1>1. AloneInv => CompleteHasOwned
  BY DEF AloneInv, Alone, CompleteHasOwned, Backed, HasOwned
<1> QED
  BY <1>1, AloneInvariant, PTL
=============================================================================
