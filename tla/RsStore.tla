------------------------------ MODULE RsStore ------------------------------
(***************************************************************************)
(* One machine's RS store, ~/.rxiu/rs, below the level of a store call.    *)
(*                                                                         *)
(* The daemon and the TUI are two processes on the same metadata.json and  *)
(* blocks directory. Inside the daemon every call takes the RwLock around  *)
(* its RsStore; the TUI's tasks take no lock, and no lock is shared by the *)
(* processes. Each task runs the store calls of one operation in order;    *)
(* every file system access of a call is a step of its own:                *)
(*  - a change of the metadata loads the file, truncates it and writes it  *)
(*    (fs::write), and a file caught truncated parses as no entries;       *)
(*  - a block is looked up, created and then filled;                       *)
(*  - remove_file and the prune unlink block files one by one.             *)
(* RsCluster takes these calls as single steps. Failed fetches and early   *)
(* returns of an operation are there too, not here.                        *)
(***************************************************************************)
EXTENDS Sequences, Naturals, FiniteSets

CONSTANTS Daemon,  (* tasks of the daemon                                  *)
          Tui,     (* tasks of the TUI                                     *)
          Teams,   (* the tasks that may run together, and the kinds of    *)
                   (* operation they run                                   *)
          File, Block,
          Owned,   (* blocks this machine is assigned, with the prune's 2  *)
          Crashes, (* whether a process may be killed                      *)
          MaxJobs, (* bound on the operations started and the crashes      *)
          NoEntry, NoFile, NoTask, Torn

Task == Daemon \cup Tui

JobKinds == {"put", "get", "remove", "list", "announce", "sync"}

Entry == [blocks : SUBSET Block, complete : BOOLEAN, syncing : BOOLEAN]

Metadata == [File -> Entry \cup {NoEntry}]

ASSUME StoreAssumption ==
    /\ Daemon \cap Tui = {}
    /\ Teams \subseteq [tasks : SUBSET Task, jobs : SUBSET JobKinds]
    /\ NoTask \notin Task /\ {"absent", "whole", "torn"} \cap Task = {}
    /\ NoFile \notin File
    /\ Owned \subseteq Block
    /\ Crashes \in BOOLEAN
    /\ MaxJobs \in Nat
    /\ NoEntry \notin Entry
    /\ Torn \notin Metadata
    /\ IsFiniteSet(File)

Writes == {"put", "upsert", "announce", "syncing", "remove"}

(* A store call: "want" are the blocks it has still to write or unlink.    *)
Call == [op : Writes \cup {"write", "unlink", "list", "prune", "scan"},
         name : File \cup {NoFile}, entry : Entry \cup {NoEntry},
         want : SUBSET Block]

CallOf(op, f, e, B) == [op |-> op, name |-> f, entry |-> e, want |-> B]

VARIABLES
    team,    (* the tasks and operations of this behaviour                 *)
    file,    (* metadata.json: its entries, or Torn while it is truncated  *)
    disk,    (* disk[b]: "absent", "whole", "torn", or the task filling it *)
    writer,  (* the daemon task with the write lock                        *)
    readers, (* the daemon tasks with the read lock                        *)
    calls,   (* calls[t]: the store calls t has left, the current one first *)
    pc,      (* pc[t]: where t is in its current call                      *)
    view,    (* view[t]: the metadata t holds in memory                    *)
    seen,    (* seen[t]: the listing t got last                            *)
    stored,  (* the names stored by rsput or an announcement, not removed  *)
             (* since, nor lost to a kill while the file was truncated     *)
    jobs,    (* operations started and crashes                             *)
    kills    (* the crashes so far                                         *)

vars == <<team, file, disk, writer, readers, calls, pc, view, seen, stored, jobs, kills>>

Empty == [f \in File |-> NoEntry]

TypeOK ==
    /\ team \in Teams
    /\ file \in Metadata \cup {Torn}
    /\ disk \in [Block -> {"absent", "whole", "torn"} \cup Task]
    /\ writer \in Daemon \cup {NoTask}
    /\ readers \in SUBSET Daemon
    /\ DOMAIN calls = Task
    /\ \A t \in Task : \A i \in 1..Len(calls[t]) : calls[t][i] \in Call
    /\ pc \in [Task -> {"idle", "call", "run", "save", "fill", "close"}]
    /\ \A t \in Task : pc[t] = "idle" <=> calls[t] = <<>>
    /\ view \in [Task -> Metadata]
    /\ seen \in [Task -> Metadata]
    /\ stored \in SUBSET File
    /\ jobs \in 0..MaxJobs /\ kills \in 0..MaxJobs

Init ==
    /\ team \in Teams
    /\ file = Empty
    /\ disk = [b \in Block |-> "absent"]
    /\ writer = NoTask
    /\ readers = {}
    /\ calls = [t \in Task |-> <<>>]
    /\ pc = [t \in Task |-> "idle"]
    /\ view = [t \in Task |-> Empty]
    /\ seen = [t \in Task |-> Empty]
    /\ stored = {}
    /\ jobs = 0 /\ kills = 0

-----------------------------------------------------------------------------
(* load_metadata: what does not parse counts as no entries at all. *)
LoadMetadata == IF file = Torn THEN Empty ELSE file

Present == {b \in Block : disk[b] # "absent"}

Listed(m) == {f \in File : m[f] # NoEntry}

Referenced(m) == UNION {m[f].blocks : f \in Listed(m)}

(* The entry a call leaves for its name in the metadata m. *)
NewEntry(m, c) ==
    CASE c.op = "remove"  -> NoEntry
      [] c.op = "syncing" -> [m[c.name] EXCEPT !.syncing = TRUE, !.complete = FALSE]
      [] OTHER            -> c.entry

(* Mutant: the blocks other files refer to are not spared. *)
Unreferenced_ignoresOthers(m, f) == IF m[f] = NoEntry THEN {} ELSE m[f].blocks

(* The blocks remove_file cleans up. *)
Unreferenced(m, f) ==
    IF m[f] = NoEntry THEN {}
    ELSE m[f].blocks \ Referenced([m EXCEPT ![f] = NoEntry])

Current(t) == Head(calls[t])

Doing(t, where, ops) == pc[t] = where /\ Current(t).op \in ops

(* Mutant: an announcement takes the read lock. *)
Exclusive_notAnnounce(c) == c.op \in Writes \ {"announce"}

(* The calls for which the daemon takes the write lock. *)
Exclusive(c) == c.op \in Writes

(* The guard goes out of scope and the task turns to its next call. *)
Return(t) ==
    /\ calls' = [calls EXCEPT ![t] = Tail(@)]
    /\ pc' = [pc EXCEPT ![t] = IF Tail(calls[t]) = <<>> THEN "idle" ELSE "call"]
    /\ writer' = IF writer = t THEN NoTask ELSE writer
    /\ readers' = readers \ {t}

-----------------------------------------------------------------------------
(* The operations, each a sequence of store calls. *)

Start(t, job, cs) ==
    /\ t \in team.tasks /\ job \in team.jobs
    /\ jobs < MaxJobs /\ jobs' = jobs + 1
    /\ pc[t] = "idle"
    /\ calls' = [calls EXCEPT ![t] = cs]
    /\ pc' = [pc EXCEPT ![t] = "call"]
    /\ UNCHANGED <<file, disk, writer, readers, view, seen, stored>>

Complete(B) == [blocks |-> B, complete |-> TRUE, syncing |-> FALSE]

(* Mutant: the entry is listed before its blocks are written. *)
PutCalls_entryFirst(f, B) ==
    <<CallOf("put", f, Complete(B), {}), CallOf("write", NoFile, NoEntry, B)>>

PutCalls(f, B) ==
    <<CallOf("write", NoFile, NoEntry, B), CallOf("put", f, Complete(B), {})>>

(* rsput: refused when the name is listed; blocks first, the entry last. *)
RsPut(t, f, B) ==
    /\ t \in Tui
    /\ LoadMetadata[f] = NoEntry
    /\ Start(t, "put", PutCalls(f, B))

(* rsget of a listed file: mark it, write its blocks, list it as complete, *)
(* prune.                                                                  *)
RsGet(t, f) ==
    LET e == LoadMetadata[f]
    IN  /\ t \in Tui
        /\ e # NoEntry
        /\ Start(t, "get", <<CallOf("syncing", f, NoEntry, {}),
                             CallOf("write", NoFile, NoEntry, e.blocks),
                             CallOf("upsert", f, Complete(e.blocks), {}),
                             CallOf("prune", NoFile, NoEntry, {})>>)

(* rsdel by the user, or a peer's RsDelete. *)
RemoveFile(t, f) == Start(t, "remove", <<CallOf("remove", f, NoEntry, {})>>)

(* A peer's RsAnnounce, or one entry of a peer's listing in rslist. *)
Announce(t, f, B) ==
    Start(t, "announce", <<CallOf("announce", f, Complete(B), {})>>)

List(t) == Start(t, "list", <<CallOf("list", NoFile, NoEntry, {})>>)

(* The sync task on an entry of its listing, its blocks fetched. *)
SyncFile(t, f) ==
    LET e == seen[t][f]
    IN  /\ t \in Daemon
        /\ e # NoEntry
        /\ e.blocks \cap Owned # {}
        /\ Start(t, "sync", <<CallOf("syncing", f, NoEntry, {}),
                              CallOf("write", NoFile, NoEntry, e.blocks \cap Owned),
                              CallOf("upsert", f, Complete(e.blocks), {})>>)

-----------------------------------------------------------------------------
(* The steps of a call. *)

(* The daemon waits for the RwLock, the TUI has none. *)
Begin(t) ==
    /\ pc[t] = "call"
    /\ IF t \in Tui THEN UNCHANGED <<writer, readers>>
       ELSE /\ writer = NoTask
            /\ IF Exclusive(Current(t))
               THEN readers = {} /\ writer' = t /\ UNCHANGED readers
               ELSE readers' = readers \cup {t} /\ UNCHANGED writer
    /\ pc' = [pc EXCEPT ![t] = "run"]
    /\ UNCHANGED <<file, disk, calls, view, seen, stored, jobs>>

(* apply_remote_meta looks into the blocks directory before it upserts. *)
LookAtBlocks(t) ==
    /\ Doing(t, "run", {"announce"})
    /\ LET c == Current(t)
       IN  calls' = [calls EXCEPT ![t][1] =
                        [c EXCEPT !.op = "put", !.entry.complete = c.entry.blocks \subseteq Present]]
    /\ UNCHANGED <<file, disk, writer, readers, pc, view, seen, stored, jobs>>

(* set_syncing of a name that is not listed (any more) changes nothing. *)
NothingToMark(t) ==
    /\ Doing(t, "run", {"syncing"})
    /\ LoadMetadata[Current(t).name] = NoEntry
    /\ Return(t)
    /\ UNCHANGED <<file, disk, view, seen, stored, jobs>>

(* Load the metadata and change the copy. *)
Load(t) ==
    LET c == Current(t)
        m == LoadMetadata
    IN  /\ Doing(t, "run", Writes \ {"announce"})
        /\ c.op = "syncing" => m[c.name] # NoEntry
        /\ view' = [view EXCEPT ![t] = [m EXCEPT ![c.name] = NewEntry(m, c)]]
        /\ calls' = [calls EXCEPT ![t][1].want =
                         IF c.op = "remove" THEN Unreferenced(m, c.name) ELSE {}]
        /\ pc' = [pc EXCEPT ![t] = "save"]
        /\ UNCHANGED <<file, disk, writer, readers, seen, stored, jobs>>

Truncate(t) ==
    /\ pc[t] = "save"
    /\ file' = Torn
    /\ pc' = [pc EXCEPT ![t] = "fill"]
    /\ UNCHANGED <<disk, writer, readers, calls, view, seen, stored, jobs>>

(* The new content is there; remove_file goes on to its blocks. *)
Save(t) ==
    LET c == Current(t)
    IN  /\ pc[t] = "fill"
        /\ file' = view[t]
        /\ stored' = CASE c.op = "put"    -> stored \cup {c.name}
                       [] c.op = "remove" -> stored \ {c.name}
                       [] OTHER           -> stored
        /\ IF c.op = "remove"
           THEN /\ calls' = [calls EXCEPT ![t][1].op = "unlink"]
                /\ pc' = [pc EXCEPT ![t] = "run"]
                /\ UNCHANGED <<writer, readers>>
           ELSE Return(t)
        /\ UNCHANGED <<disk, view, seen, jobs>>

(* Unlink a block file, whoever uses it by now. *)
Unlink(t, b) ==
    /\ Doing(t, "run", {"unlink"})
    /\ b \in Current(t).want
    /\ disk' = [disk EXCEPT ![b] = "absent"]
    /\ calls' = [calls EXCEPT ![t][1].want = @ \ {b}]
    /\ UNCHANGED <<file, writer, readers, pc, view, seen, stored, jobs>>

(* write_block: a file of that name counts as the block. *)
Create(t, b) ==
    /\ Doing(t, "run", {"write"})
    /\ b \in Current(t).want
    /\ IF disk[b] = "absent"
       THEN disk' = [disk EXCEPT ![b] = t] /\ pc' = [pc EXCEPT ![t] = "close"]
       ELSE UNCHANGED <<disk, pc>>
    /\ calls' = [calls EXCEPT ![t][1].want = @ \ {b}]
    /\ UNCHANGED <<file, writer, readers, view, seen, stored, jobs>>

(* The data is written, into a file that may have been unlinked meanwhile. *)
Close(t) ==
    /\ pc[t] = "close"
    /\ disk' = [b \in Block |-> IF disk[b] = t THEN "whole" ELSE disk[b]]
    /\ pc' = [pc EXCEPT ![t] = "run"]
    /\ UNCHANGED <<file, writer, readers, calls, view, seen, stored, jobs>>

(* All blocks are written or unlinked. *)
BlocksDone(t) ==
    /\ Doing(t, "run", {"write", "unlink"})
    /\ Current(t).want = {}
    /\ Return(t)
    /\ UNCHANGED <<file, disk, view, seen, stored, jobs>>

ReadList(t) ==
    /\ Doing(t, "run", {"list"})
    /\ seen' = [seen EXCEPT ![t] = LoadMetadata]
    /\ Return(t)
    /\ UNCHANGED <<file, disk, view, stored, jobs>>

(* The entries of m stored again, unmarked; each is complete, because the  *)
(* flag is computed from the assignment itself.                            *)
Relist(m) ==
    LET n == Cardinality(Listed(m))
        name == CHOOSE s \in [1..n -> Listed(m)] :
                    \A i, j \in 1..n : s[i] = s[j] => i = j
    IN  [i \in 1..n |-> CallOf("upsert", name[i], Complete(m[name[i]].blocks), {})]

(* prune_unowned_blocks: list the files, ... *)
PruneList(t) ==
    LET m == LoadMetadata
    IN  /\ Doing(t, "run", {"prune"})
        /\ calls' = [calls EXCEPT ![t] =
                        <<CallOf("scan", NoFile, NoEntry, Referenced(m) \cap Owned)>> \o Relist(m)]
        /\ UNCHANGED <<file, disk, writer, readers, pc, view, seen, stored, jobs>>

(* ... go through the blocks directory, and unlink what is not owned. *)
PruneScan(t) ==
    /\ Doing(t, "run", {"scan"})
    /\ calls' = [calls EXCEPT ![t][1].op = "unlink", ![t][1].want = Present \ @]
    /\ UNCHANGED <<file, disk, writer, readers, pc, view, seen, stored, jobs>>

(* A process is killed: its tasks and locks are gone, the files stay as    *)
(* they are, and the next process starts from them.                        *)
Crash(P) ==
    /\ Crashes
    /\ jobs < MaxJobs /\ jobs' = jobs + 1 /\ kills' = kills + 1
    /\ disk' = [b \in Block |-> IF disk[b] \in P THEN "torn" ELSE disk[b]]
    /\ calls' = [t \in Task |-> IF t \in P THEN <<>> ELSE calls[t]]
    /\ pc' = [t \in Task |-> IF t \in P THEN "idle" ELSE pc[t]]
    /\ view' = [t \in Task |-> IF t \in P THEN Empty ELSE view[t]]
    /\ seen' = [t \in Task |-> IF t \in P THEN Empty ELSE seen[t]]
    /\ writer' = IF writer \in P THEN NoTask ELSE writer
    /\ readers' = readers \ P
    /\ stored' = IF file = Torn THEN {} ELSE stored
    /\ UNCHANGED file

-----------------------------------------------------------------------------
Operation(t) ==
    \/ \E f \in File, B \in SUBSET Block : RsPut(t, f, B) \/ Announce(t, f, B)
    \/ \E f \in File : RsGet(t, f) \/ RemoveFile(t, f) \/ SyncFile(t, f)
    \/ List(t)

Access(t) ==
    \/ Begin(t) \/ LookAtBlocks(t) \/ NothingToMark(t)
    \/ Load(t) \/ Truncate(t) \/ Save(t)
    \/ \E b \in Block : Unlink(t, b) \/ Create(t, b)
    \/ Close(t) \/ BlocksDone(t) \/ ReadList(t) \/ PruneList(t) \/ PruneScan(t)

Next ==
    /\ UNCHANGED team
    /\ \/ UNCHANGED kills /\ \E t \in team.tasks : Operation(t) \/ Access(t)
       \/ \E P \in {Daemon, Tui} : Crash(P)

Spec == Init /\ [][Next]_vars

-----------------------------------------------------------------------------
(* Properties. *)

(* The metadata as the lock's holder will leave it. *)
Writing == {t \in Task : pc[t] = "fill"}

Promised ==
    IF file = Torn /\ Writing # {} THEN view[CHOOSE t \in Writing : TRUE] ELSE LoadMetadata

Store == INSTANCE AtomicStore WITH meta <- Promised, rewriting <- Writing # {}

(* Inside the daemon the RwLock makes every store call atomic, as it is for  *)
(* a TUI by itself: entries change one at a time, no listing is taken while  *)
(* the file is half written, and entries are lost by nothing but a kill     *)
(* between truncating and writing it.                                       *)
Linearizable == Store!Spec

(* No deletion and no prune takes a block that some listed file refers to    *)
(* and this machine is assigned, not even one that was listed while the     *)
(* deletion was on its way.                                                 *)
ListedBlocksSpared ==
    [][ \A b \in Block : disk[b] # "absent" /\ disk'[b] = "absent"
            => b \notin Referenced(LoadMetadata) \cap Owned ]_vars

(* A name stored by rsput or by a peer's announcement stays listed until it *)
(* is removed; rslist "lists the shared files".                             *)
StaysListed == file # Torn => stored \subseteq Listed(file)

(* rsput "shares the file": when its entry is stored, all of its blocks are *)
(* in the blocks directory (or another task is writing them right now).     *)
PutHasBlocks ==
    [][ \A t \in Tui :
            pc[t] = "fill" /\ Current(t).op = "put" /\ Current(t).entry.complete
                /\ file' = view[t]
            => Current(t).entry.blocks \subseteq Present ]_vars

(* With one task at a time, killed at any point, and no entries from peers, *)
(* an entry that says complete has each block this machine is assigned in   *)
(* its directory. (The prune calls entries of peers complete, too.)         *)
CompleteHasOwned ==
    (\E t \in Task : team.tasks = {t}) /\ "announce" \notin team.jobs =>
        \A f \in Listed(LoadMetadata) :
            LoadMetadata[f].complete => LoadMetadata[f].blocks \cap Owned \subseteq Present

(* "Block-level storage and verification": a block that is in the directory *)
(* and that nobody is writing is whole.                                     *)
BlocksVerified == \A b \in Block : disk[b] # "torn"
=============================================================================
