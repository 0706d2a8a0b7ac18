----------------------- MODULE ChunkedDownloadProofs -----------------------
(***************************************************************************)
(* Proofs about ChunkedDownload with one task (OneTask), for any versions    *)
(* of the remote file, any sizes and any number of failures and changes: only *)
(* whole versions are put at the destination (FullIsWhole), and as long as   *)
(* the remote file stays a download goes on from data that are exactly its   *)
(* own (ResumeIsExact).                                                     *)
(*                                                                         *)
(* The first rests on the file a task has hashed still being the one at the *)
(* part's path when it is renamed (Control): with a second task it need not  *)
(* be, and ChunkedDownload_twice.cfg has the counterexample. The second      *)
(* follows the part through its life (Exact): all of it is the remote file,  *)
(* but for a last chunk cut short, which the next resumption cuts off.       *)
(***************************************************************************)
EXTENDS ChunkedDownload, TLAPS

OneTask == \A s, t \in Task : s = t

Steps == {"idle", "check", "resume", "clean", "describe", "rehash", "open", "clear", "chunks",
          "verify", "rename", "tidy"}

Shape ==
    /\ part \in Inode \cup {None} /\ full \in Inode \cup {None}
    /\ data \in [Inode -> Seq(Datum)]
    /\ pc \in [Task -> Steps]
    /\ DOMAIN ver = Task /\ off \in [Task -> Nat] /\ fd \in [Task -> Inode \cup {None}]
    /\ source \in Version \cup {None}
    /\ changes \in Nat

(* What t has open, and what it has hashed, is the part. *)
ControlOf(t) ==
    /\ pc[t] # "idle" => ver[t] \in Version
    /\ pc[t] \in {"clear", "chunks"} => part # None /\ fd[t] = part
    /\ pc[t] = "clear" => off[t] = 0
    /\ pc[t] = "rename" => PartIsWhole(t)

Control ==
    /\ part # None => part # full
    /\ \A t \in Task : ControlOf(t)
    /\ FullIsWhole

(* s is version v as far as it goes, but for a chunk cut short at its end. *)
Beginning(v, s) == \A k \in 1..Len(s) : s[k] = <<v, k>> \/ (k = Len(s) /\ s[k] = Half)

(* The first n chunks of s are those of version v. *)
ExactTo(v, s, n) == n <= Len(s) /\ \A k \in 1..n : s[k] = <<v, k>>

(* t knows the remote file as it is, and goes on from data that are its own. *)
ExactOf(t) ==
    /\ pc[t] # "idle" => ver[t] = source
    /\ pc[t] = "clean" => off[t] = 0
    /\ pc[t] \in {"describe", "rehash", "open", "clear", "chunks"} =>
         off[t] = 0 \/ (part # None /\ ExactTo(source, data[part], off[t]))

Exact ==
    changes = 0 =>
        /\ source \in Version
        /\ part # None => Beginning(source, data[part])
        /\ \A t \in Task : ExactOf(t)

Inv == Shape /\ Control /\ Exact

-----------------------------------------------------------------------------
(* The operators on the content of a file. *)

LEMMA DataTypes == Half \in Datum /\ Hole \in Datum /\ <<>> \in Seq(Datum)
  BY DEF Datum

LEMMA HalfIsNoChunk ==
    ASSUME NEW v \in Version, NEW k
    PROVE  Half # <<v, k>>
  BY DownloadAssumption DEF Half

LEMMA AlignedType ==
    ASSUME NEW s \in Seq(Datum)
    PROVE  Aligned(s) \in 0..Len(s)
<1>1. Len(s) \in Nat /\ (s # <<>> => Len(s) > 0)
  OBVIOUS
<1> QED
  BY <1>1 DEF Aligned

(* What is left after the cut has no chunk cut short. *)
LEMMA AlignedExact ==
    ASSUME NEW v \in Version, NEW s \in Seq(Datum), Beginning(v, s)
    PROVE  /\ ExactTo(v, SubSeq(s, 1, Aligned(s)), Aligned(s))
           /\ Beginning(v, SubSeq(s, 1, Aligned(s)))
<1> DEFINE n == Aligned(s)
           u == SubSeq(s, 1, n)
<1>1. n \in 0..Len(s) /\ Len(s) \in Nat
  BY AlignedType
<1>2. Len(u) = n /\ \A k \in 1..n : u[k] = s[k]
  BY <1>1
<1>3. \A k \in 1..n : s[k] = <<v, k>>
  <2> SUFFICES ASSUME NEW k \in 1..n PROVE s[k] = <<v, k>>
    OBVIOUS
  <2>1. CASE k < Len(s)
    BY <1>1, <2>1 DEF Beginning
  <2>2. CASE k = Len(s)
    <3>1. n = Len(s) /\ s # <<>>
      BY <1>1, <2>2
    <3>2. s[Len(s)] # Half
      BY <1>1, <3>1 DEF Aligned, IsFull
    <3> QED
      BY <1>1, <2>2, <3>2 DEF Beginning
  <2> QED
    BY <1>1, <2>1, <2>2
<1> HIDE DEF n, u
<1>4. ExactTo(v, u, n) /\ Beginning(v, u)
  BY <1>1, <1>2, <1>3 DEF ExactTo, Beginning
<1> QED
  BY <1>4 DEF n, u

LEMMA WriteAtType ==
    ASSUME NEW s \in Seq(Datum), NEW n \in Nat, NEW x \in Datum
    PROVE  WriteAt(s, n, x) \in Seq(Datum)
<1> DEFINE m == IF Len(s) > n THEN Len(s) ELSE n + 1
<1>1. m \in Nat /\ Len(s) \in Nat
  OBVIOUS
<1>2. \A k \in 1..m :
        (IF k = n + 1 THEN x ELSE IF k <= Len(s) THEN s[k] ELSE Hole) \in Datum
  BY <1>1, DataTypes
<1> QED
  BY <1>1, <1>2 DEF WriteAt

(* The next chunk of the remote file makes the data exact one chunk further. *)
LEMMA WriteAtExact ==
    ASSUME NEW v \in Version, NEW s \in Seq(Datum), NEW n \in Nat, Beginning(v, s), ExactTo(v, s, n)
    PROVE  /\ ExactTo(v, WriteAt(s, n, <<v, n + 1>>), n + 1)
           /\ Beginning(v, WriteAt(s, n, <<v, n + 1>>))
<1> DEFINE m == IF Len(s) > n THEN Len(s) ELSE n + 1
           u == WriteAt(s, n, <<v, n + 1>>)
<1>1. m \in Nat /\ Len(s) \in Nat /\ m >= n + 1
  OBVIOUS
<1>2. /\ Len(u) = m
      /\ \A k \in 1..m : u[k] = IF k = n + 1 THEN <<v, n + 1>>
                                ELSE IF k <= Len(s) THEN s[k] ELSE Hole
  BY <1>1 DEF WriteAt
<1> HIDE DEF u
<1>3. \A k \in 1..n : u[k] = <<v, k>>
  BY <1>1, <1>2 DEF ExactTo
<1>4. ASSUME NEW k \in 1..m, k > n + 1 PROVE u[k] = s[k] /\ m = Len(s)
  BY <1>1, <1>2, <1>4
<1>5. ExactTo(v, u, n + 1)
  BY <1>1, <1>2, <1>3 DEF ExactTo
<1>6. Beginning(v, u)
  <2> SUFFICES ASSUME NEW k \in 1..m
               PROVE  u[k] = <<v, k>> \/ (k = m /\ u[k] = Half)
    BY <1>2 DEF Beginning
  <2>1. CASE k <= n + 1
    BY <1>5, <2>1 DEF ExactTo
  <2>2. CASE k > n + 1
    BY <1>1, <1>4, <2>2 DEF Beginning
  <2> QED
    BY <1>1, <2>1, <2>2
<1> QED
  BY <1>5, <1>6 DEF u

-----------------------------------------------------------------------------
LEMMA InitInv == Init => Inv
<1> SUFFICES ASSUME Init PROVE Inv
  OBVIOUS
<1>1. Shape
  BY DataTypes DEF Init, Shape, Steps
<1>2. Control
  BY DEF Init, Control, ControlOf, FullIsWhole
<1>3. Exact
  BY DownloadAssumption DEF Init, Exact, ExactOf
<1> QED
  BY <1>1, <1>2, <1>3 DEF Inv

(* The invariant where there is one task, t. *)
InvOf(t) ==
    /\ Shape
    /\ part # None => part # full
    /\ ControlOf(t)
    /\ FullIsWhole
    /\ changes = 0 => /\ source \in Version
                      /\ part # None => Beginning(source, data[part])
                      /\ ExactOf(t)

LEMMA Alone ==
    ASSUME OneTask, NEW t \in Task
    PROVE  (Inv <=> InvOf(t)) /\ (Inv' <=> InvOf(t)')
<1>1. \A u \in Task : u = t
  BY DEF OneTask
<1> QED
  BY <1>1 DEF Inv, InvOf, Control, Exact

(* Steps that touch no file. *)
LEMMA NoFileInv ==
    ASSUME NEW t \in Task, InvOf(t), UNCHANGED <<Files, Remote>>, Shape',
           ControlOf(t)', changes = 0 => ExactOf(t)'
    PROVE  InvOf(t)'
  BY DEF InvOf, Files, Remote, FullIsWhole, Whole, Beginning

-----------------------------------------------------------------------------
LEMMA StartInv ==
    ASSUME NEW t \in Task, InvOf(t), Start(t)
    PROVE  InvOf(t)'
<1>1. /\ source # None /\ ver'[t] = source /\ pc'[t] = "check"
      /\ UNCHANGED <<Files, Remote>> /\ Shape'
  BY DEF Start, InvOf, Shape, Goto, Files, Remote, Steps
<1> QED
  BY <1>1, NoFileInv DEF InvOf, Shape, ControlOf, ExactOf, Remote

LEMMA CheckDestinationInv ==
    ASSUME NEW t \in Task, InvOf(t), CheckDestination(t)
    PROVE  InvOf(t)'
<1>1. /\ pc[t] = "check" /\ pc'[t] \in {"resume", "idle"} /\ pc' \in [Task -> Steps]
      /\ UNCHANGED <<part, json, ver, off, fd, fails, Remote>>
  BY DEF CheckDestination, InvOf, Shape, Goto, Steps
<1>2. ControlOf(t)' /\ (changes = 0 => ExactOf(t)')
  BY <1>1 DEF InvOf, ControlOf, ExactOf, Remote
<1>3. CASE full = None /\ Size[ver[t]] = 0
  <2>1. PICK i \in Unused : full' = i /\ data' = [data EXCEPT ![i] = <<>>]
    BY <1>3 DEF CheckDestination
  <2>2. i \in Inode /\ i # part /\ i # None
    BY DownloadAssumption DEF Unused
  <2>3. Shape' /\ data'[i] = <<>> /\ (part # None => data'[part] = data[part])
    BY <1>1, <2>1, <2>2, DataTypes DEF InvOf, Shape, Remote
  <2>4. Whole(ver[t]) = <<>> /\ ver[t] \in Version
    BY <1>1, <1>3 DEF Whole, InvOf, ControlOf
  <2>5. FullIsWhole'
    BY <2>1, <2>3, <2>4 DEF FullIsWhole, Whole
  <2>6. changes = 0 /\ part # None => Beginning(source', data'[part'])
    BY <1>1, <2>3 DEF InvOf, Beginning, Remote
  <2> QED
    BY <1>1, <1>2, <2>1, <2>2, <2>3, <2>5, <2>6 DEF InvOf, Remote
<1>4. CASE ~(full = None /\ Size[ver[t]] = 0)
  <2>1. UNCHANGED Files
    BY <1>1, <1>4 DEF CheckDestination, Files
  <2>2. Shape'
    BY <1>1, <2>1 DEF InvOf, Shape, Files, Remote
  <2> QED
    BY <1>1, <1>2, <2>1, <2>2, NoFileInv
<1> QED
  BY <1>3, <1>4

(* Steps that write the part and leave the destination alone. *)
LEMMA PartInv ==
    ASSUME NEW t \in Task, InvOf(t), UNCHANGED <<full, Remote>>, Shape',
           part' # None => part' # full,
           full # None => data'[full] = data[full],
           ControlOf(t)',
           changes = 0 => ExactOf(t)' /\ (part' # None => Beginning(source', data'[part']))
    PROVE  InvOf(t)'
<1>1. FullIsWhole'
  BY DEF InvOf, FullIsWhole, Whole
<1> QED
  BY <1>1 DEF InvOf, Remote

LEMMA ResumeInv ==
    ASSUME NEW t \in Task, InvOf(t), Resume(t)
    PROVE  InvOf(t)'
<1> DEFINE n == IF MayResume(t) THEN Aligned(data[part]) ELSE 0
<1>1. /\ pc[t] = "resume"
      /\ IF MayResume(t) THEN data' = [data EXCEPT ![part] = SubSeq(@, 1, n)] ELSE UNCHANGED data
      /\ off' = [off EXCEPT ![t] = SmallerOf(n, Size[ver[t]])]
      /\ Goto(t, IF n = 0 THEN "clean" ELSE "describe")
      /\ UNCHANGED <<part, full, json, ver, fd, fails, Remote>>
  BY DEF Resume
<1>2. MayResume(t) => part \in Inode /\ data[part] \in Seq(Datum) /\ part # full
  BY DEF InvOf, Shape, MayResume
<1>3. n \in Nat /\ (MayResume(t) => n \in 0..Len(data[part]))
  BY <1>2, AlignedType
<1>4. ver[t] \in Version /\ Size[ver[t]] \in Nat
  BY <1>1, DownloadAssumption DEF InvOf, ControlOf
<1> HIDE DEF n
<1>5. /\ off'[t] \in 0..n /\ off' \in [Task -> Nat]
      /\ pc' \in [Task -> Steps] /\ pc'[t] = IF n = 0 THEN "clean" ELSE "describe"
  BY <1>1, <1>3, <1>4 DEF InvOf, Shape, SmallerOf, Goto, Steps
<1>6. data' \in [Inode -> Seq(Datum)]
  <2>1. CASE MayResume(t)
    <3>1. SubSeq(data[part], 1, n) \in Seq(Datum)
      BY <1>2, <1>3, <2>1
    <3> QED
      BY <1>1, <2>1, <3>1 DEF InvOf, Shape
  <2> QED
    BY <1>1, <2>1 DEF InvOf, Shape
<1>7. Shape'
  BY <1>1, <1>5, <1>6 DEF InvOf, Shape, Remote
<1>8. ControlOf(t)'
  BY <1>1, <1>5 DEF InvOf, ControlOf
<1>9. full # None => data'[full] = data[full]
  BY <1>1, <1>2 DEF InvOf, Shape
<1>10. ASSUME changes = 0
       PROVE  ExactOf(t)' /\ (part' # None => Beginning(source', data'[part']))
  <2>1. source' = source /\ source \in Version /\ (part # None => Beginning(source, data[part]))
    BY <1>1, <1>10 DEF InvOf, Remote
  <2>2. CASE MayResume(t)
    <3> DEFINE s == data[part]
               u == SubSeq(s, 1, n)
    <3>1. part # None /\ n = Aligned(s) /\ s \in Seq(Datum)
      BY <1>2, <2>2 DEF n, MayResume
    <3>2. data'[part] = u
      BY <1>1, <1>2, <2>2 DEF InvOf, Shape
    <3>3. Beginning(source, u) /\ ExactTo(source, u, n)
      BY <2>1, <3>1, AlignedExact
    <3> HIDE DEF s, u
    <3>4. ExactTo(source, u, off'[t])
      BY <1>3, <1>5, <2>2, <3>3 DEF ExactTo
    <3>5. /\ Beginning(source', data'[part']) /\ ExactTo(source', data'[part'], off'[t])
      BY <1>1, <2>1, <3>2, <3>3, <3>4 DEF Beginning, ExactTo
    <3> QED
      BY <1>1, <1>5, <1>10, <3>1, <3>5 DEF InvOf, ExactOf, Remote
  <2>3. CASE ~MayResume(t)
    <3>1. n = 0 /\ data' = data
      BY <1>1, <2>3 DEF n
    <3>2. off'[t] = 0 /\ pc'[t] = "clean"
      BY <1>5, <3>1
    <3> QED
      BY <1>1, <1>10, <2>1, <3>1, <3>2 DEF InvOf, ExactOf, Beginning, Remote
  <2> QED
    BY <2>2, <2>3
<1> QED
  BY <1>1, <1>2, <1>7, <1>8, <1>9, <1>10, PartInv DEF InvOf

LEMMA CleanInv ==
    ASSUME NEW t \in Task, InvOf(t), Clean(t)
    PROVE  InvOf(t)'
<1>1. /\ pc[t] = "clean" /\ pc'[t] = "describe" /\ part' = None
      /\ UNCHANGED <<full, data, ver, off, fd, fails, Remote>> /\ Shape'
  BY DEF Clean, Goto, InvOf, Shape, Steps, Remote
<1>2. ControlOf(t)' /\ (changes = 0 => ExactOf(t)')
  BY <1>1 DEF InvOf, ControlOf, ExactOf, Remote
<1> QED
  BY <1>1, <1>2, PartInv

LEMMA DescribeInv ==
    ASSUME NEW t \in Task, InvOf(t), Describe(t)
    PROVE  InvOf(t)'
<1>1. /\ pc[t] = "describe" /\ pc'[t] \in {"rehash", "open"}
      /\ UNCHANGED <<part, full, data, ver, off, fd, fails, Remote>> /\ Shape'
  BY DEF Describe, Goto, InvOf, Shape, Steps, Remote
<1>2. ControlOf(t)' /\ (changes = 0 => ExactOf(t)' /\ (part # None => Beginning(source', data'[part'])))
  BY <1>1 DEF InvOf, ControlOf, ExactOf, ExactTo, Beginning, Remote
<1> QED
  BY <1>1, <1>2, PartInv DEF InvOf

LEMMA RehashInv ==
    ASSUME NEW t \in Task, InvOf(t), Rehash(t)
    PROVE  InvOf(t)'
<1>1. /\ pc[t] = "rehash" /\ UNCHANGED <<Files, ver, fd, fails, Remote>> /\ Shape'
      /\ off'[t] = IF PartIsWhole(t) THEN off[t] ELSE 0
      /\ pc'[t] = AfterRehash(t)
  BY DEF Rehash, AfterRehash, Goto, InvOf, Shape, Steps, Files, Remote
<1>2. PartIsWhole(t)' <=> PartIsWhole(t)
  BY <1>1 DEF PartIsWhole, Whole, Files
<1>3. ControlOf(t)' /\ (changes = 0 => ExactOf(t)')
  BY <1>1, <1>2 DEF InvOf, ControlOf, ExactOf, ExactTo, AfterRehash, Files, Remote
<1> QED
  BY <1>1, <1>3, NoFileInv

LEMMA OpenInv ==
    ASSUME NEW t \in Task, InvOf(t), Open(t)
    PROVE  InvOf(t)'
<1>1. /\ pc[t] = "open" /\ UNCHANGED <<full, json, ver, off, fails, Remote>>
      /\ pc'[t] = IF off[t] = 0 THEN "clear" ELSE "chunks"
      /\ pc' \in [Task -> Steps]
  BY DEF Open, Goto, InvOf, Shape, Steps, Remote
<1>2. CASE part # None
  <2>1. fd'[t] = part /\ UNCHANGED <<part, data>> /\ Shape'
    BY <1>1, <1>2 DEF Open, InvOf, Shape, Remote
  <2>2. ControlOf(t)' /\ (changes = 0 => ExactOf(t)' /\ Beginning(source', data'[part']))
    BY <1>1, <1>2, <2>1 DEF InvOf, ControlOf, ExactOf, ExactTo, Beginning, Remote
  <2> QED
    BY <1>1, <2>1, <2>2, PartInv DEF InvOf
<1>3. CASE part = None
  <2>1. PICK i \in Unused : /\ part' = i /\ fd' = [fd EXCEPT ![t] = i]
                            /\ data' = [data EXCEPT ![i] = <<>>]
    BY <1>3 DEF Open
  <2>2. i \in Inode /\ i # full /\ i # None
    BY DownloadAssumption DEF Unused
  <2>3. fd'[t] = part' /\ data'[part'] = <<>> /\ (full # None => data'[full] = data[full])
    BY <2>1, <2>2 DEF InvOf, Shape
  <2>4. Shape'
    BY <1>1, <2>1, <2>2, DataTypes DEF InvOf, Shape, Remote
  <2>5. ControlOf(t)'
    BY <1>1, <2>1, <2>2, <2>3 DEF InvOf, ControlOf
  <2>6. changes = 0 => ExactOf(t)' /\ Beginning(source', data'[part'])
    BY <1>1, <1>3, <2>3 DEF InvOf, ExactOf, Beginning, Remote
  <2> QED
    BY <1>1, <2>1, <2>2, <2>3, <2>4, <2>5, <2>6, PartInv
<1> QED
  BY <1>2, <1>3

LEMMA ClearInv ==
    ASSUME NEW t \in Task, InvOf(t), Clear(t)
    PROVE  InvOf(t)'
<1>1. /\ pc[t] = "clear" /\ pc'[t] = "chunks" /\ fd[t] = part /\ part # None /\ part \in Inode
      /\ data' = [data EXCEPT ![part] = <<>>] /\ off[t] = 0
      /\ UNCHANGED <<part, full, json, ver, off, fd, fails, Remote>>
  BY DEF Clear, Goto, InvOf, ControlOf, Shape, Steps
<1>2. Shape' /\ data'[part] = <<>> /\ (full # None => data'[full] = data[full])
  BY <1>1, DataTypes DEF Clear, Goto, Steps, InvOf, Shape, Remote
<1>3. ControlOf(t)' /\ (changes = 0 => ExactOf(t)' /\ Beginning(source', data'[part']))
  BY <1>1, <1>2 DEF InvOf, ControlOf, ExactOf, Beginning, Remote
<1> QED
  BY <1>1, <1>2, <1>3, PartInv DEF InvOf

LEMMA WriteChunkInv ==
    ASSUME NEW t \in Task, InvOf(t), WriteChunk(t)
    PROVE  InvOf(t)'
<1> DEFINE k == off[t] + 1
           sameLength == IsShort(source, k) = IsShort(ver[t], k)
           x == IF sameLength THEN <<source, k>> ELSE Half
           s == data[part]
<1>1. /\ pc[t] = "chunks" /\ source # None /\ fd[t] = part /\ part # None /\ part \in Inode
      /\ data' = [data EXCEPT ![part] = WriteAt(@, off[t], x)]
      /\ IF IsShort(source, k) /\ ~sameLength
         THEN Goto(t, "idle") /\ UNCHANGED off
         ELSE off' = [off EXCEPT ![t] = k] /\ UNCHANGED pc
      /\ UNCHANGED <<part, full, json, ver, fd, fails, Remote>>
  BY DEF WriteChunk, InvOf, ControlOf, Shape
<1>2. s \in Seq(Datum) /\ off[t] \in Nat /\ source \in Version
  BY <1>1 DEF InvOf, Shape
<1>3. x \in Datum
  BY <1>2, DataTypes DEF Datum
<1> HIDE DEF x
<1>4. WriteAt(s, off[t], x) \in Seq(Datum)
  BY <1>2, <1>3, WriteAtType
<1>5. /\ data' \in [Inode -> Seq(Datum)] /\ data'[part] = WriteAt(s, off[t], x)
      /\ full # None => data'[full] = data[full]
  BY <1>1, <1>4 DEF InvOf, Shape
<1>6. Shape'
  <2>1. pc' \in [Task -> Steps]
    BY <1>1 DEF InvOf, Shape, Goto, Steps
  <2>2. off' \in [Task -> Nat]
    BY <1>1, <1>2 DEF InvOf, Shape
  <2> QED
    BY <1>1, <1>5, <2>1, <2>2 DEF InvOf, Shape, Remote
<1>7. pc'[t] \in {"chunks", "idle"}
  BY <1>1 DEF InvOf, Shape, Goto
<1>8. ControlOf(t)'
  BY <1>1, <1>7 DEF InvOf, ControlOf
<1>9. ASSUME changes = 0 PROVE ExactOf(t)' /\ Beginning(source', data'[part'])
  <2>1. ver[t] = source /\ Beginning(source, s) /\ source' = source
        /\ (off[t] = 0 \/ ExactTo(source, s, off[t]))
    BY <1>1, <1>9 DEF InvOf, ExactOf, Remote
  <2>2. sameLength
    BY <2>1
  <2>3. x = <<source, off[t] + 1>>
    BY <2>2 DEF x
  <2>4. ExactTo(source, s, off[t])
    BY <1>2, <2>1 DEF ExactTo
  <2>5. Beginning(source, data'[part]) /\ ExactTo(source, data'[part], off[t] + 1)
    BY <1>2, <1>5, <2>1, <2>3, <2>4, WriteAtExact
  <2>6. off'[t] = off[t] + 1
    BY <1>1, <2>2 DEF InvOf, Shape
  <2>7. Beginning(source', data'[part']) /\ ExactTo(source', data'[part'], off'[t])
    BY <1>1, <2>1, <2>5, <2>6 DEF Beginning, ExactTo
  <2> QED
    BY <1>1, <1>7, <2>1, <2>7 DEF ExactOf
<1> QED
  BY <1>1, <1>5, <1>6, <1>8, <1>9, PartInv DEF InvOf

LEMMA LeaveInv ==
    ASSUME NEW t \in Task, InvOf(t), ChunkRefused(t) \/ Fail(t) \/ AllWritten(t)
    PROVE  InvOf(t)'
<1>1. /\ pc[t] = "chunks" /\ pc'[t] \in {"idle", "verify"}
      /\ UNCHANGED <<Files, ver, off, fd, Remote>> /\ Shape'
  BY DEF ChunkRefused, Fail, AllWritten, Goto, InvOf, Shape, Steps, Files, Remote
<1>2. ControlOf(t)' /\ (changes = 0 => ExactOf(t)')
  BY <1>1 DEF InvOf, ControlOf, ExactOf, Remote
<1> QED
  BY <1>1, <1>2, NoFileInv

LEMMA VerifyInv ==
    ASSUME NEW t \in Task, InvOf(t), Verify(t)
    PROVE  InvOf(t)'
<1>1. /\ pc[t] = "verify" /\ pc'[t] = AfterVerify(t)
      /\ UNCHANGED <<Files, ver, off, fd, Remote>> /\ Shape'
  BY DEF Verify, AfterVerify, Goto, InvOf, Shape, Steps, Files, Remote
<1>2. PartIsWhole(t)' <=> PartIsWhole(t)
  BY <1>1 DEF PartIsWhole, Whole, Files
<1>3. ControlOf(t)' /\ (changes = 0 => ExactOf(t)')
  BY <1>1, <1>2 DEF InvOf, ControlOf, ExactOf, AfterVerify, Remote
<1> QED
  BY <1>1, <1>3, NoFileInv

LEMMA RenameInv ==
    ASSUME NEW t \in Task, InvOf(t), Rename(t)
    PROVE  InvOf(t)'
<1>1. /\ pc[t] = "rename" /\ part # None /\ data[part] = Whole(ver[t]) /\ ver[t] \in Version
      /\ full' = part /\ part' = None /\ pc'[t] = "tidy"
      /\ UNCHANGED <<json, data, ver, off, fd, fails, Remote>> /\ Shape'
  BY DEF Rename, Goto, InvOf, ControlOf, PartIsWhole, Shape, Steps, Remote
<1>2. FullIsWhole'
  BY <1>1 DEF FullIsWhole, Whole
<1>3. ControlOf(t)' /\ (changes = 0 => ExactOf(t)')
  BY <1>1 DEF InvOf, ControlOf, ExactOf, Remote
<1> QED
  BY <1>1, <1>2, <1>3 DEF InvOf, Remote

LEMMA TidyInv ==
    ASSUME NEW t \in Task, InvOf(t), Tidy(t)
    PROVE  InvOf(t)'
<1>1. /\ pc[t] = "tidy" /\ pc'[t] = "idle"
      /\ UNCHANGED <<part, full, data, ver, off, fd, fails, Remote>> /\ Shape'
  BY DEF Tidy, Goto, InvOf, Shape, Steps, Remote
<1>2. ControlOf(t)' /\ (changes = 0 => ExactOf(t)' /\ (part # None => Beginning(source', data'[part'])))
  BY <1>1 DEF InvOf, ControlOf, ExactOf, Beginning, Remote
<1> QED
  BY <1>1, <1>2, PartInv DEF InvOf

(* A kill leaves the part as it is, or with one chunk cut short at its end. *)
LEMMA CrashInv ==
    ASSUME NEW t \in Task, OneTask, InvOf(t), Crash
    PROVE  InvOf(t)'
<1>1. /\ pc' = [u \in Task |-> "idle"] /\ pc'[t] = "idle"
      /\ UNCHANGED <<part, full, json, ver, off, fd, Remote>>
  BY DEF Crash
<1>2. ControlOf(t)' /\ (changes = 0 => ExactOf(t)')
  BY <1>1 DEF ControlOf, ExactOf
<1>3. CASE UNCHANGED data
  <2>1. Shape' /\ UNCHANGED Files
    BY <1>1, <1>3 DEF InvOf, Shape, Steps, Files, Remote
  <2> QED
    BY <1>1, <1>2, <2>1, NoFileInv
<1>4. CASE ~UNCHANGED data
  <2>1. /\ pc[t] = "chunks" /\ Len(data[fd[t]]) = off[t]
        /\ data' = [data EXCEPT ![fd[t]] = Append(@, Half)]
    BY <1>4 DEF Crash, OneTask
  <2>2. fd[t] = part /\ part \in Inode /\ part # None /\ data[part] \in Seq(Datum)
    BY <2>1 DEF InvOf, ControlOf, Shape
  <2>3. Append(data[part], Half) \in Seq(Datum)
    BY <2>2, DataTypes
  <2>4. /\ data' \in [Inode -> Seq(Datum)] /\ data'[part] = Append(data[part], Half)
        /\ full # None => data'[full] = data[full]
    BY <2>1, <2>2, <2>3 DEF InvOf, Shape
  <2>5. Shape'
    BY <1>1, <2>4 DEF InvOf, Shape, Steps, Remote
  <2>6. ASSUME changes = 0 PROVE Beginning(source', data'[part'])
    <3> DEFINE s == data[part]
               u == Append(s, Half)
    <3>1. off[t] = 0 \/ ExactTo(source, s, off[t])
      BY <2>1, <2>6 DEF InvOf, ExactOf
    <3>2. Len(s) = off[t] /\ Len(s) \in Nat /\ Len(u) = Len(s) + 1
      BY <2>1, <2>2
    <3>3. u[Len(u)] = Half /\ \A j \in 1..Len(s) : u[j] = s[j]
      BY <2>2, <3>2
    <3> HIDE DEF s, u
    <3>4. \A j \in 1..Len(s) : s[j] = <<source, j>>
      BY <3>1, <3>2 DEF ExactTo
    <3>5. Beginning(source, u)
      <4> SUFFICES ASSUME NEW k \in 1..Len(u)
                   PROVE  u[k] = <<source, k>> \/ (k = Len(u) /\ u[k] = Half)
        BY DEF Beginning
      <4>1. k \in 1..Len(s) \/ k = Len(u)
        BY <3>2
      <4> QED
        BY <3>3, <3>4, <4>1
    <3> QED
      BY <1>1, <2>4, <3>5 DEF Beginning, s, u, Remote
  <2> QED
    BY <1>1, <1>2, <2>2, <2>4, <2>5, <2>6, PartInv DEF InvOf
<1> QED
  BY <1>3, <1>4

(* From the first change on nothing is said of what a part holds. *)
LEMMA ChangeInv ==
    ASSUME NEW t \in Task, InvOf(t), Change
    PROVE  InvOf(t)'
<1>1. /\ changes' = changes + 1 /\ source' \in Version \cup {None}
      /\ UNCHANGED <<Files, pc, ver, off, fd>>
  BY DEF Change
<1>2. Shape' /\ changes' # 0
  BY <1>1 DEF InvOf, Shape, Files
<1>3. ControlOf(t)' /\ FullIsWhole'
  BY <1>1 DEF InvOf, ControlOf, FullIsWhole, PartIsWhole, Whole, Files
<1> QED
  BY <1>1, <1>2, <1>3 DEF InvOf, Files

LEMMA StepInv ==
    ASSUME OneTask, Inv, [Next]_vars
    PROVE  Inv'
<1>1. CASE UNCHANGED vars
  BY <1>1 DEF Inv, Shape, Control, ControlOf, PartIsWhole, FullIsWhole, Whole, Exact, ExactOf,
              ExactTo, Beginning, vars
<1>2. ASSUME NEW t \in Task, Start(t) \/ Step(t) \/ Fail(t) \/ Crash \/ Change
      PROVE  Inv'
  <2>1. InvOf(t)
    BY Alone
  <2>2. InvOf(t)'
    BY <1>2, <2>1, StartInv, CheckDestinationInv, ResumeInv, CleanInv, DescribeInv, RehashInv,
       OpenInv, ClearInv, WriteChunkInv, LeaveInv, VerifyInv, RenameInv, TidyInv, CrashInv,
       ChangeInv
       DEF Step
  <2> QED
    BY <2>2, Alone
<1>3. CASE Crash
  BY <1>2, <1>3 DEF Crash
<1>4. CASE Task = {} /\ Change
  <2>1. /\ changes' = changes + 1 /\ source' \in Version \cup {None}
        /\ UNCHANGED <<Files, pc, ver, off, fd>>
    BY <1>4 DEF Change
  <2>2. Shape' /\ changes' # 0
    BY <2>1 DEF Inv, Shape, Files
  <2>3. FullIsWhole'
    BY <2>1 DEF Inv, Control, FullIsWhole, Whole, Files
  <2> QED
    BY <1>4, <2>1, <2>2, <2>3 DEF Inv, Control, Exact, Files
<1> QED
  BY <1>1, <1>2, <1>3, <1>4 DEF Next

THEOREM Invariant == OneTask /\ Spec => []Inv
<1>1. OneTask /\ Init /\ [][Next]_vars => []Inv
  <2> SUFFICES ASSUME OneTask PROVE Init /\ [][Next]_vars => []Inv
    OBVIOUS
  <2>1. Inv /\ [Next]_vars => Inv'
    BY StepInv
  <2> QED
    BY <2>1, InitInv, PTL
<1> QED
  BY <1>1 DEF Spec

(* What one task puts at the destination is a whole version of the remote    *)
(* file, through any number of failures, kills and changes.                 *)
THEOREM DestinationWhole == OneTask /\ Spec => []FullIsWhole
<1>1. Inv => FullIsWhole
  BY DEF Inv, Control
<1> QED
  BY <1>1, Invariant, PTL

(* As long as the remote file stays, what a download goes on from is exactly *)
(* the remote file, whatever failures and kills came before.                *)
THEOREM ResumesExactly == OneTask /\ Spec => []ResumeIsExact
<1>1. Inv => ResumeIsExact
  <2> SUFFICES ASSUME Inv, changes = 0, NEW t \in Task, pc[t] = "chunks"
               PROVE  /\ off[t] <= Len(data[fd[t]])
                      /\ \A k \in 1..off[t] : data[fd[t]][k] = <<ver[t], k>>
    BY DEF ResumeIsExact
  <2>1. fd[t] = part /\ part \in Inode /\ ver[t] = source
    BY DEF Inv, Shape, Control, ControlOf, Exact, ExactOf
  <2>2. off[t] \in Nat /\ Len(data[part]) \in Nat
    BY <2>1 DEF Inv, Shape
  <2>3. off[t] = 0 \/ ExactTo(source, data[part], off[t])
    BY DEF Inv, Exact, ExactOf
  <2> QED
    BY <2>1, <2>2, <2>3 DEF ExactTo
<1> QED
  BY <1>1, Invariant, PTL
=============================================================================
