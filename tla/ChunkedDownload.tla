-------------------------- MODULE ChunkedDownload --------------------------
(***************************************************************************)
(* rget: the download of a zone file in chunks, with resume (tui/app.rs,   *)
(* download_file_chunked).                                                 *)
(*                                                                         *)
(* Each download is a task of the TUI; nothing keeps two tasks from loading *)
(* the same file to the same place. Chunks go to "<name>.part", described  *)
(* by "<name>.part.json"; when all are there the part's hash is checked and *)
(* it is renamed to the file. Files are inodes: a task goes on writing to   *)
(* the inode it has opened, whatever path that has by then.                 *)
(*                                                                         *)
(* Abstractions: sizes are in chunks, the last of which may be short; a     *)
(* chunk of a version of the remote file is <<version, index>>; Half is a   *)
(* chunk cut short and Hole a range never written; hashes are compared as the  *)
(* data they stand for. The three tries a chunk with a wrong hash gets are  *)
(* one request that fails.                                                  *)
(***************************************************************************)
EXTENDS Naturals, Sequences, FiniteSets

CONSTANTS Task,
          Version,   (* contents the remote file may have                  *)
          Size,      (* Size[v]: the number of chunks of version v         *)
          Ragged,    (* the versions whose last chunk is short             *)
          Inode,     (* files the downloads may create                     *)
          MaxFails,  (* bound on failed requests and crashes               *)
          MaxChanges, (* bound on the changes of the remote file            *)
          None

ASSUME DownloadAssumption ==
    /\ Size \in [Version -> Nat]
    /\ Ragged \subseteq {v \in Version : Size[v] > 0}
    /\ None \notin Version \cup Inode
    /\ MaxFails \in Nat /\ MaxChanges \in Nat

Whole(v) == [i \in 1..Size[v] |-> <<v, i>>]

Half == <<None, 1>>
Hole == <<None, 0>>

Datum == (Version \X (Nat \ {0})) \cup {Half, Hole}

IsShort(v, k) == v \in Ragged /\ k = Size[v]

VARIABLES
    source,  (* the version the peer has now                               *)
    part, full, (* the inodes of "<name>.part" and of "<name>"             *)
    json,    (* the version "<name>.part.json" describes                   *)
    data,    (* data[i]: the content of inode i                            *)
    pc,      (* pc[t]: the step t is at                                    *)
    ver,     (* ver[t]: the version of the metadata t was given            *)
    off,     (* off[t]: the next chunk t asks for, less one                *)
    fd,      (* fd[t]: the inode t has open                                *)
    fails, changes

vars == <<source, part, full, json, data, pc, ver, off, fd, fails, changes>>

(* Inodes no path and no running task refers to. *)
Unused == Inode \ ({part, full} \cup {fd[t] : t \in {u \in Task : pc[u] # "idle"}})

TypeOK ==
    /\ source \in Version \cup {None}
    /\ part \in Inode \cup {None} /\ full \in Inode \cup {None}
    /\ json \in Version \cup {None}
    /\ \A i \in Inode : \A k \in 1..Len(data[i]) : data[i][k] \in Datum
    /\ pc \in [Task -> {"idle", "check", "resume", "clean", "describe", "rehash", "open",
                        "clear", "chunks", "verify", "rename", "tidy"}]
    /\ \A t \in Task : pc[t] \in {"clear", "chunks"} => fd[t] \in Inode
    /\ \A t \in Task : pc[t] # "idle" => ver[t] \in Version /\ off[t] \in 0..Size[ver[t]]
    /\ part # None => part # full
    /\ fails \in 0..MaxFails /\ changes \in 0..MaxChanges

Init ==
    /\ source \in Version
    /\ part = None /\ full = None /\ json = None
    /\ data = [i \in Inode |-> <<>>]
    /\ pc = [t \in Task |-> "idle"]
    /\ ver = [t \in Task |-> None]
    /\ off = [t \in Task |-> 0]
    /\ fd = [t \in Task |-> None]
    /\ fails = 0 /\ changes = 0

-----------------------------------------------------------------------------
Goto(t, where) == pc' = [pc EXCEPT ![t] = where]

Files == <<part, full, json, data>>
Remote == <<source, changes>>

IsFull(x) == x # Half /\ ~\E v \in Ragged : x = <<v, Size[v]>>

(* Mutant: a chunk cut short counts as a whole one. *)
Aligned_roundedUp(s) == Len(s)

(* The whole chunks a file has room for: its length divided by theirs. *)
Aligned(s) == IF s # <<>> /\ ~IsFull(s[Len(s)]) THEN Len(s) - 1 ELSE Len(s)

(* A write at chunk position n+1, leaving a hole before it if need be. *)
WriteAt(s, n, x) ==
    [k \in 1..(IF Len(s) > n THEN Len(s) ELSE n + 1) |->
        IF k = n + 1 THEN x ELSE IF k <= Len(s) THEN s[k] ELSE Hole]

SmallerOf(m, n) == IF m < n THEN m ELSE n

(* The task starts and the peer answers get_file_meta. *)
Start(t) ==
    /\ pc[t] = "idle"
    /\ source # None
    /\ ver' = [ver EXCEPT ![t] = source]
    /\ off' = [off EXCEPT ![t] = 0]
    /\ fd' = [fd EXCEPT ![t] = None]
    /\ Goto(t, "check")
    /\ UNCHANGED <<Files, fails, Remote>>

(* The destination exists: refused. An empty file is created at once. *)
CheckDestination(t) ==
    /\ pc[t] = "check"
    /\ IF full = None /\ Size[ver[t]] = 0
       THEN \E i \in Unused : full' = i /\ data' = [data EXCEPT ![i] = <<>>]
       ELSE UNCHANGED <<full, data>>
    /\ Goto(t, IF full = None /\ Size[ver[t]] > 0 THEN "resume" ELSE "idle")
    /\ UNCHANGED <<part, json, ver, off, fd, fails, Remote>>

(* A part may be resumed if its description matches the peer's metadata. *)
MayResume(t) == part # None /\ json = ver[t]

(* The part is cut to whole chunks; with none it is removed. *)
Resume(t) ==
    LET n == IF MayResume(t) THEN Aligned(data[part]) ELSE 0
    IN  /\ pc[t] = "resume"
        /\ IF MayResume(t)
           THEN data' = [data EXCEPT ![part] = SubSeq(@, 1, n)]
           ELSE UNCHANGED data
        /\ off' = [off EXCEPT ![t] = SmallerOf(n, Size[ver[t]])]
        /\ Goto(t, IF n = 0 THEN "clean" ELSE "describe")
        /\ UNCHANGED <<part, full, json, ver, fd, fails, Remote>>

Clean(t) ==
    /\ pc[t] = "clean"
    /\ part' = None /\ json' = None
    /\ Goto(t, "describe")
    /\ UNCHANGED <<full, data, ver, off, fd, fails, Remote>>

Describe(t) ==
    /\ pc[t] = "describe"
    /\ json' = ver[t]
    /\ Goto(t, IF off[t] = Size[ver[t]] THEN "rehash" ELSE "open")
    /\ UNCHANGED <<part, full, data, ver, off, fd, fails, Remote>>

PartIsWhole(t) == part # None /\ data[part] = Whole(ver[t])

(* Mutant: a part of full length with the wrong hash is an error. *)
AfterRehash_givesUp(t) == IF PartIsWhole(t) THEN "rename" ELSE "idle"

(* A part of full length is hashed; if it is wrong all is loaded again.    *)
(* (No part at all is an error.)                                           *)
AfterRehash(t) ==
    IF PartIsWhole(t) THEN "rename" ELSE IF part = None THEN "idle" ELSE "open"

Rehash(t) ==
    /\ pc[t] = "rehash"
    /\ Goto(t, AfterRehash(t))
    /\ off' = [off EXCEPT ![t] = IF PartIsWhole(t) THEN @ ELSE 0]
    /\ UNCHANGED <<Files, ver, fd, fails, Remote>>

Open(t) ==
    /\ pc[t] = "open"
    /\ IF part # None
       THEN fd' = [fd EXCEPT ![t] = part] /\ UNCHANGED <<part, data>>
       ELSE \E i \in Unused : /\ part' = i
                              /\ fd' = [fd EXCEPT ![t] = i]
                              /\ data' = [data EXCEPT ![i] = <<>>]
    /\ Goto(t, IF off[t] = 0 THEN "clear" ELSE "chunks")
    /\ UNCHANGED <<full, json, ver, off, fails, Remote>>

(* set_len(0) *)
Clear(t) ==
    /\ pc[t] = "clear"
    /\ data' = [data EXCEPT ![fd[t]] = <<>>]
    /\ Goto(t, "chunks")
    /\ UNCHANGED <<part, full, json, ver, off, fd, fails, Remote>>

(* The peer sends the next chunk of what it has now, with that chunk's     *)
(* hash, and the chunk is written. When the peer's file ends within it, the *)
(* next request lies beyond that end and the download is over.              *)
WriteChunk(t) ==
    LET k == off[t] + 1
        sameLength == IsShort(source, k) = IsShort(ver[t], k)
    IN  /\ pc[t] = "chunks"
        /\ k <= Size[ver[t]]
        /\ source # None /\ k <= Size[source]
        /\ data' = [data EXCEPT ![fd[t]] =
                        WriteAt(@, off[t], IF sameLength THEN <<source, k>> ELSE Half)]
        /\ IF IsShort(source, k) /\ ~sameLength
           THEN Goto(t, "idle") /\ UNCHANGED off
           ELSE off' = [off EXCEPT ![t] = k] /\ UNCHANGED pc
        /\ UNCHANGED <<part, full, json, ver, fd, fails, Remote>>

(* The peer has no such chunk any more. *)
ChunkRefused(t) ==
    /\ pc[t] = "chunks"
    /\ off[t] < Size[ver[t]]
    /\ source # None => off[t] >= Size[source]
    /\ Goto(t, "idle")
    /\ UNCHANGED <<Files, ver, off, fd, fails, Remote>>

(* A request fails or times out, or three hashes in a row are wrong. *)
Fail(t) ==
    /\ fails < MaxFails /\ fails' = fails + 1
    /\ pc[t] = "chunks" /\ off[t] < Size[ver[t]]
    /\ Goto(t, "idle")
    /\ UNCHANGED <<Files, ver, off, fd, Remote>>

AllWritten(t) ==
    /\ pc[t] = "chunks"
    /\ off[t] = Size[ver[t]]
    /\ Goto(t, "verify")
    /\ UNCHANGED <<Files, ver, off, fd, fails, Remote>>

(* Mutant: the hash of the whole file is not checked. *)
AfterVerify_unchecked(t) == "rename"

(* The hash is that of the file at the part's path. *)
AfterVerify(t) == IF PartIsWhole(t) THEN "rename" ELSE "idle"

Verify(t) ==
    /\ pc[t] = "verify"
    /\ Goto(t, AfterVerify(t))
    /\ UNCHANGED <<Files, ver, off, fd, fails, Remote>>

(* rename replaces a destination that has come into being meanwhile. *)
Rename(t) ==
    /\ pc[t] = "rename"
    /\ IF part = None THEN UNCHANGED <<part, full>> ELSE full' = part /\ part' = None
    /\ Goto(t, IF part = None THEN "idle" ELSE "tidy")
    /\ UNCHANGED <<json, data, ver, off, fd, fails, Remote>>

Tidy(t) ==
    /\ pc[t] = "tidy"
    /\ json' = None
    /\ Goto(t, "idle")
    /\ UNCHANGED <<part, full, data, ver, off, fd, fails, Remote>>

(* The TUI is left or killed; a chunk being written may be cut short. *)
Crash ==
    /\ fails < MaxFails /\ fails' = fails + 1
    /\ \E t \in Task : pc[t] # "idle"
    /\ pc' = [t \in Task |-> "idle"]
    /\ \/ UNCHANGED data
       \/ \E t \in Task : /\ pc[t] = "chunks" /\ off[t] < Size[ver[t]]
                          /\ Len(data[fd[t]]) = off[t]
                          /\ data' = [data EXCEPT ![fd[t]] = Append(@, Half)]
    /\ UNCHANGED <<part, full, json, ver, off, fd, Remote>>

(* The peer's user deletes the file or stores another one of its name. *)
Change ==
    /\ changes < MaxChanges /\ changes' = changes + 1
    /\ source' \in (Version \cup {None}) \ {source}
    /\ UNCHANGED <<Files, pc, ver, off, fd, fails>>

Step(t) ==
    \/ CheckDestination(t) \/ Resume(t) \/ Clean(t) \/ Describe(t) \/ Rehash(t)
    \/ Open(t) \/ Clear(t) \/ WriteChunk(t) \/ ChunkRefused(t) \/ AllWritten(t)
    \/ Verify(t) \/ Rename(t) \/ Tidy(t)

Next ==
    \/ \E t \in Task : Start(t) \/ Step(t) \/ Fail(t)
    \/ Crash
    \/ Change

Spec == Init /\ [][Next]_vars

(* A task that has been spawned is run; every request is answered or fails; *)
(* the user asks again for as long as the file is not there.                *)
LiveSpec ==
    /\ Spec
    /\ \A t \in Task : WF_vars(Step(t)) /\ WF_vars(full = None /\ Start(t))

-----------------------------------------------------------------------------
(* Properties. *)

(* "Verify the hash and write locally": what is at the destination is a     *)
(* whole version of the remote file, through crashes, resumes and changes   *)
(* of the remote file in the middle of a download.                          *)
FullIsWhole == full # None => \E v \in Version : data[full] = Whole(v)

(* Crashes and failed requests never spoil a part: as long as the remote    *)
(* file has not changed, what a download has loaded or resumed from is, up  *)
(* to the position it goes on from, exactly the remote file.                *)
ResumeIsExact ==
    changes = 0 =>
        \A t \in Task : pc[t] = "chunks" =>
            /\ off[t] <= Len(data[fd[t]])
            /\ \A k \in 1..off[t] : data[fd[t]][k] = <<ver[t], k>>

(* "Resume is supported": crashes, failed requests and changes of the       *)
(* remote file leave nothing behind that stops a user who asks again: if    *)
(* the remote file stays, one of the attempts puts it at the destination.   *)
RetriesSucceed == <>[](source # None) => <>(full # None)

(* The same when the file that stays is a multiple of the chunk size, after *)
(* other files of any size. (A part with wrong data and a short last chunk  *)
(* is cut to whole chunks and resumed there for ever.)                      *)
AlignedRetriesSucceed == <>[](source \notin Ragged \cup {None}) => <>(full # None)
=============================================================================
