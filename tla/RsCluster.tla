----------------------------- MODULE RsCluster -----------------------------
(***************************************************************************)
(* The shared (RS) space over several machines: rsput, announcements,      *)
(* rsdel, rslist, rsget with its prune, the daemon's sync task, and daemon *)
(* restarts, over each machine's metadata and block directory.             *)
(*                                                                         *)
(* Abstractions.                                                           *)
(*  - One store call (load metadata, change, save, clean up) is one step;  *)
(*    RsStore looks inside it.                                             *)
(*  - A block is its hash: block data is verified against the hash before  *)
(*    it is written, so a present block has the right bytes.               *)
(*  - Every other machine is connected to the daemon; that a peer is gone  *)
(*    or slow shows as a request that fails. The TUI's cached peer list is *)
(*    any set of ids that the other machines have or have had.             *)
(*  - One rsget at a time on a machine.                                    *)
(*  - Files of a snapshot are visited in any order.                        *)
(***************************************************************************)
EXTENDS RsPlacement

CONSTANTS Node,      (* machines                                           *)
          Users,     (* the machines somebody runs the TUI on              *)
          Getters,   (* the users who rsget or open the RS space           *)
          File,      (* RS file names                                      *)
          Content,   (* file contents (the whole-file hash)                *)
          BlocksOf,  (* the blocks of a content                            *)
          GlobalSync, (* the machines with rs_global_sync on               *)
          RF,        (* rs_replication_factor                              *)
          InitId,    (* the peer id of each machine's first daemon         *)
          MaxOps,    (* bound on the user's operations and restarts        *)
          Restarts,  (* the machines whose daemon restarts                 *)
          NoEntry, NoFile

ASSUME ClusterAssumption ==
    /\ BlocksOf \in [Content -> SUBSET Block]
    /\ Getters \subseteq Users /\ Users \subseteq Node /\ GlobalSync \subseteq Node
    /\ RF \in Nat \ {0}
    /\ InitId \in [Node -> Id]
    /\ \A m, n \in Node : InitId[m] = InitId[n] => m = n
    /\ MaxOps \in Nat
    /\ Restarts \subseteq Node
    /\ NoFile \notin File
    /\ IsFiniteSet(Id)
    /\ NoEntry \notin [content : Content, members : SUBSET Id,
                       complete : BOOLEAN, syncing : BOOLEAN]

(* The factor rsget passes to prune_unowned_blocks, whatever the config says. *)
PruneFactor == 2

Entry == [content : Content, members : SUBSET Id,
          complete : BOOLEAN, syncing : BOOLEAN]

Metadata == [File -> Entry \cup {NoEntry}]

VARIABLES
    id,      (* id[n]: the peer id of n's running daemon                    *)
    ids,     (* ids[n]: the peer ids n's daemons have had                   *)
    me,      (* me[n]: the peer id n's TUI got when it connected            *)
    meta,    (* meta[n][f]: n's metadata.json entry for the name f          *)
    disk,    (* disk[n]: the hashes present in n's blocks directory         *)
    net,     (* requests on their way: announcements and deletions          *)
    sync,    (* sync[n]: the daemon's run of sync_rs_missing_blocks         *)
    dl,      (* dl[n]: the TUI's download task                              *)
    gone,    (* <<n, f>>: n carried out a deletion of f, not put again since *)
    ops      (* user operations and restarts so far                         *)

vars == <<id, ids, me, meta, disk, net, sync, dl, gone, ops>>

NoSnapshot == [f \in File |-> NoEntry]

IdleSync == [pc |-> "idle", todo |-> NoSnapshot, file |-> NoFile,
             missing |-> {}, have |-> FALSE]

IdleDownload == [pc |-> "idle", file |-> NoFile, entry |-> NoEntry,
                 listed |-> NoSnapshot, keep |-> {}, scan |-> {}]

SyncState == [pc : {"idle", "scan", "fetch", "write"},
              todo : Metadata, file : File \cup {NoFile},
              missing : SUBSET Block, have : BOOLEAN]

DownloadState == [pc : {"idle", "fetch", "prune", "unlink", "upsert"},
                  file : File \cup {NoFile}, entry : Entry \cup {NoEntry},
                  listed : Metadata, keep : SUBSET Block, scan : SUBSET Block]

Request == [type : {"announce", "delete"}, to : Node, file : File,
            entry : Entry \cup {NoEntry}]

TypeOK ==
    /\ id \in [Node -> Id]
    /\ ids \in [Node -> SUBSET Id]
    /\ me \in [Node -> Id]
    /\ meta \in [Node -> Metadata]
    /\ disk \in [Node -> SUBSET Block]
    /\ net \in SUBSET Request
    /\ \A r \in net : r.type = "announce" => r.entry # NoEntry
    /\ sync \in [Node -> SyncState]
    /\ \A n \in Node : sync[n].pc \in {"fetch", "write"} =>
          /\ sync[n].file \in File
          /\ sync[n].todo[sync[n].file] # NoEntry
    /\ dl \in [Node -> DownloadState]
    /\ \A n \in Node : dl[n].pc \in {"fetch", "prune"} =>
          dl[n].file \in File /\ dl[n].entry # NoEntry
    /\ gone \in SUBSET (Node \X File)
    /\ ops \in 0..MaxOps

Init ==
    /\ id = InitId
    /\ ids = [n \in Node |-> {InitId[n]}]
    /\ me = InitId
    /\ meta = [n \in Node |-> NoSnapshot]
    /\ disk = [n \in Node |-> {}]
    /\ net = {}
    /\ sync = [n \in Node |-> IdleSync]
    /\ dl = [n \in Node |-> IdleDownload]
    /\ gone = {}
    /\ ops = 0

-----------------------------------------------------------------------------
Others(n) == Node \ {n}

(* The peers the TUI may have in its cached list. *)
PeerIds(n) == UNION {ids[m] : m \in Others(n)}

UserOp == ops < MaxOps /\ ops' = ops + 1

(* The fallback membership of the sync task: connected peers and self. *)
SyncFallback == {id[m] : m \in Node}

(* The blocks of entry e that node n is to store. *)
Assigned(n, e, fallback, factor) ==
    AssignedBlocks(BlocksOf[e.content], EntryMembers(e.members, fallback), id[n], factor)

IsMember(n, e, fallback) == id[n] \in EntryMembers(e.members, fallback)

(* An entry with its two flags set. *)
WithFlags(e, complete, syncing) == [e EXCEPT !.complete = complete, !.syncing = syncing]

(* upsert_file / set_syncing / remove_file as functions of the metadata. *)
Upsert(m, f, e) == [m EXCEPT ![f] = e]

(* Mutant: the complete flag survives. *)
SetSyncing_keepsComplete(m, f) ==
    IF m[f] = NoEntry THEN m ELSE [m EXCEPT ![f].syncing = TRUE]

(* Mutant: the entry is made up when the file was removed meanwhile. *)
SetSyncing_createsEntry(m, f) ==
    [m EXCEPT ![f] = IF @ = NoEntry THEN [complete |-> FALSE, syncing |-> TRUE]
                     ELSE WithFlags(@, FALSE, TRUE)]

SetSyncing(m, f) ==
    IF m[f] = NoEntry THEN m
    ELSE [m EXCEPT ![f].syncing = TRUE, ![f].complete = FALSE]

(* The blocks that the entries of a metadata refer to. *)
Referenced(m) == UNION {BlocksOf[m[f].content] : f \in {g \in File : m[g] # NoEntry}}

(* apply_remote_meta: an announced or listed entry replaces the local one. *)
RemoteEntry(e, blocks) ==
    WithFlags(e, BlocksOf[e.content] \subseteq blocks, FALSE)

(* Mutant: blocks shared with other files go too. *)
Cleanup_ignoresOthers(m, f, blocks) ==
    IF m[f] = NoEntry THEN blocks ELSE blocks \ BlocksOf[m[f].content]

(* cleanup_blocks: drop the removed file's blocks no other file refers to. *)
Cleanup(m, f, blocks) ==
    IF m[f] = NoEntry THEN blocks
    ELSE blocks \ (BlocksOf[m[f].content] \ Referenced([m EXCEPT ![f] = NoEntry]))

RemoveFile(n, f) ==
    /\ meta' = [meta EXCEPT ![n][f] = NoEntry]
    /\ disk' = [disk EXCEPT ![n] = Cleanup(meta[n], f, @)]
    /\ gone' = gone \cup {<<n, f>>}

-----------------------------------------------------------------------------
(* The user's operations (the TUI process). *)

(* rsput: store every block and a complete entry whose members are the     *)
(* cached peers and self (none without a P2P session), then announce it to *)
(* those peers one after the other, ignoring failures. Self is the id the  *)
(* TUI was given when it connected, whatever daemon runs now; a peer id    *)
(* nobody has any more is not reached.                                     *)
RsPut(n, f, c, P, p2p) ==
    LET members == IF p2p THEN P \cup {me[n]} ELSE {}
        entry   == [content |-> c, members |-> members,
                    complete |-> TRUE, syncing |-> FALSE]
    IN  /\ UserOp
        /\ meta[n][f] = NoEntry
        /\ p2p \/ P = {}
        /\ meta' = [meta EXCEPT ![n] = Upsert(@, f, entry)]
        /\ disk' = [disk EXCEPT ![n] = @ \cup BlocksOf[c]]
        /\ net' = net \cup [type : {"announce"}, to : {m \in Others(n) : id[m] \in P},
                          file : {f}, entry : {entry}]
        /\ gone' = {x \in gone : x[2] # f}
        /\ UNCHANGED <<id, ids, me, sync, dl>>

(* rsdel, confirmed: remove locally, then send the deletion to the peers. *)
RsDelete(n, f, P) ==
    /\ UserOp
    /\ meta[n][f] # NoEntry
    /\ RemoveFile(n, f)
    /\ net' = net \cup [type : {"delete"}, to : P, file : {f}, entry : {NoEntry}]
    /\ UNCHANGED <<id, ids, me, sync, dl>>

(* rslist: merge the metadata of a peer, entry by entry. *)
RsList(n, p) ==
    /\ UserOp
    /\ p \in Others(n)
    /\ meta' = [meta EXCEPT ![n] = [f \in File |->
                    IF meta[p][f] = NoEntry THEN @[f]
                    ELSE RemoteEntry(meta[p][f], disk[n])]]
    /\ UNCHANGED <<id, ids, me, disk, net, sync, dl, gone>>

(* rsget: the entry is read first, then marked as syncing. *)
DownloadStart(n, f) ==
    /\ UserOp
    /\ dl[n].pc = "idle"
    /\ meta[n][f] # NoEntry
    /\ BlocksOf[meta[n][f].content] # {}
    /\ dl' = [dl EXCEPT ![n] = [IdleDownload EXCEPT !.pc = "fetch", !.file = f,
                                                    !.entry = meta[n][f]]]
    /\ meta' = [meta EXCEPT ![n] = SetSyncing(@, f)]
    /\ UNCHANGED <<id, ids, me, disk, net, sync, gone>>

(* One block arrives from a peer that has it and is verified and written. *)
DownloadBlock(n, b) ==
    /\ dl[n].pc = "fetch"
    /\ b \in BlocksOf[dl[n].entry.content] \ disk[n]
    /\ \E p \in Others(n) : b \in disk[p]
    /\ disk' = [disk EXCEPT ![n] = @ \cup {b}]
    /\ UNCHANGED <<id, ids, me, meta, net, sync, dl, gone, ops>>

(* Any early return: destination exists, no peers, a block failed too often, *)
(* a block vanished before the file was put together.                        *)
DownloadAbort(n) ==
    /\ dl[n].pc = "fetch"
    /\ dl' = [dl EXCEPT ![n] = IdleDownload]
    /\ UNCHANGED <<id, ids, me, meta, disk, net, sync, gone, ops>>

(* All blocks are there: the file is put together and the entry read at the *)
(* start is stored as complete.                                             *)
DownloadComplete(n) ==
    LET e == dl[n].entry
    IN  /\ dl[n].pc = "fetch"
        /\ BlocksOf[e.content] \subseteq disk[n]
        /\ meta' = [meta EXCEPT ![n] = Upsert(@, dl[n].file,
                        WithFlags(e, TRUE, FALSE))]
        /\ dl' = [dl EXCEPT ![n].pc = "prune"]
        /\ UNCHANGED <<id, ids, me, disk, net, sync, gone, ops>>

(* prune_unowned_blocks runs in the TUI under no lock the daemon shares:    *)
(* the entries are listed once, then blocks are unlinked one by one and     *)
(* every listed entry is written back, whatever the daemon did meanwhile.   *)
(* The TUI's share of an entry is taken with the id it got on connecting.   *)
PruneShare(n, e, fallback) ==
    AssignedBlocks(BlocksOf[e.content], EntryMembers(e.members, fallback), me[n],
                   PruneFactor)

(* The union of n's shares of all listed files. *)
PruneKeeps(n, fallback) ==
    UNION {PruneShare(n, meta[n][f], fallback) :
               f \in {g \in File : meta[n][g] # NoEntry}}

(* The flag is computed from the assignment, not from the directory. *)
PrunedEntry(n, e, fallback) ==
    LET complete == /\ me[n] \in EntryMembers(e.members, fallback)
                    /\ PruneShare(n, e, fallback) \subseteq PruneKeeps(n, fallback)
                    /\ BlocksOf[e.content] # {}
    IN  WithFlags(e, complete, FALSE)

(* list_files, and the hashes to keep. For an entry without members the TUI *)
(* falls back on its cached peers P.                                        *)
PruneList(n, P) ==
    LET fallback == EntryMembers(dl[n].entry.members, P \cup {me[n]})
    IN  /\ dl[n].pc = "prune"
        /\ P # {}
        /\ dl' = [dl EXCEPT ![n] =
                    [IdleDownload EXCEPT
                        !.pc = "unlink",
                        !.listed = [f \in File |->
                            IF meta[n][f] = NoEntry THEN NoEntry
                            ELSE PrunedEntry(n, meta[n][f], fallback)],
                        !.keep = PruneKeeps(n, fallback),
                        !.scan = disk[n] \ PruneKeeps(n, fallback)]]
        /\ UNCHANGED <<id, ids, me, meta, disk, net, sync, gone, ops>>

(* One block that is not to be kept; read_dir may also return one that was  *)
(* written after the listing.                                               *)
PruneUnlink(n, b) ==
    /\ dl[n].pc = "unlink"
    /\ b \in disk[n] \ dl[n].keep
    /\ disk' = [disk EXCEPT ![n] = @ \ {b}]
    /\ dl' = [dl EXCEPT ![n].scan = @ \ {b}]
    /\ UNCHANGED <<id, ids, me, meta, net, sync, gone, ops>>

(* The directory is read to its end. *)
PruneScanned(n) ==
    /\ dl[n].pc = "unlink"
    /\ dl[n].scan \cap disk[n] = {}
    /\ dl' = [dl EXCEPT ![n] = [IdleDownload EXCEPT !.pc = "upsert",
                                                    !.listed = dl[n].listed]]
    /\ UNCHANGED <<id, ids, me, meta, disk, net, sync, gone, ops>>

(* One listed entry is stored, over what was stored or removed meanwhile. *)
PruneUpsert(n, f) ==
    /\ dl[n].pc = "upsert"
    /\ dl[n].listed[f] # NoEntry
    /\ meta' = [meta EXCEPT ![n] = Upsert(@, f, dl[n].listed[f])]
    /\ dl' = [dl EXCEPT ![n].listed[f] = NoEntry]
    /\ UNCHANGED <<id, ids, me, disk, net, sync, gone, ops>>

PruneEnd(n) ==
    /\ dl[n].pc = "upsert"
    /\ dl[n].listed = NoSnapshot
    /\ dl' = [dl EXCEPT ![n] = IdleDownload]
    /\ UNCHANGED <<id, ids, me, meta, disk, net, sync, gone, ops>>

(* The TUI ends, wherever its download is, and another one connects to the *)
(* daemon that runs now.                                                    *)
TuiRestart(n) ==
    /\ me[n] # id[n] \/ dl[n].pc # "idle"
    /\ me' = [me EXCEPT ![n] = id[n]]
    /\ dl' = [dl EXCEPT ![n] = IdleDownload]
    /\ UNCHANGED <<id, ids, meta, disk, net, sync, gone, ops>>

-----------------------------------------------------------------------------
(* The daemon: requests from peers. *)

HandleAnnounce(r) ==
    /\ r \in net /\ r.type = "announce"
    /\ meta' = [meta EXCEPT ![r.to] =
                    Upsert(@, r.file, RemoteEntry(r.entry, disk[r.to]))]
    /\ net' = net \ {r}
    /\ UNCHANGED <<id, ids, me, disk, sync, dl, gone, ops>>

HandleDelete(r) ==
    /\ r \in net /\ r.type = "delete"
    /\ RemoveFile(r.to, r.file)
    /\ net' = net \ {r}
    /\ UNCHANGED <<id, ids, me, sync, dl, ops>>

(* The peer is gone or does not answer; the sender ignores the failure. *)
LoseRequest(r) ==
    /\ r \in net
    /\ net' = net \ {r}
    /\ UNCHANGED <<id, ids, me, meta, disk, sync, dl, gone, ops>>

-----------------------------------------------------------------------------
(* The daemon: the sync task. *)

(* Mutant: only entries marked incomplete are looked at. *)
NeedsSync_trustsFlag(n) ==
    \E f \in File : /\ meta[n][f] # NoEntry
                    /\ ~ meta[n][f].complete
                    /\ ~ (Assigned(n, meta[n][f], SyncFallback, RF) \subseteq disk[n])

(* needs_sync: some assigned block of some file is not in the directory. *)
NeedsSync(n) ==
    \E f \in File : /\ meta[n][f] # NoEntry
                    /\ ~ (Assigned(n, meta[n][f], SyncFallback, RF) \subseteq disk[n])

SyncStart(n) ==
    /\ sync[n].pc = "idle"
    /\ meta[n] # NoSnapshot
    /\ sync' = [sync EXCEPT ![n] = [IdleSync EXCEPT !.pc = "scan", !.todo = meta[n]]]
    /\ UNCHANGED <<id, ids, me, meta, disk, net, dl, gone, ops>>

(* The 5 s tick, with rs_global_sync on. *)
SyncTick(n) == n \in GlobalSync /\ NeedsSync(n) /\ SyncStart(n)

(* The TUI's trigger, in RS mode: no look at whether anything is missing. *)
SyncTrigger(n) == SyncStart(n)

SyncMissing(n, e) == Assigned(n, e, SyncFallback, RF) \ disk[n]

(* The node is no member of the file: the entry is marked and skipped. *)
SyncStranger(n, f) ==
    LET e == sync[n].todo[f]
    IN  /\ sync[n].pc = "scan" /\ e # NoEntry
        /\ ~ IsMember(n, e, SyncFallback)
        /\ meta' = [meta EXCEPT ![n] = Upsert(@, f,
                        WithFlags(e, FALSE, FALSE))]
        /\ sync' = [sync EXCEPT ![n].todo[f] = NoEntry]
        /\ UNCHANGED <<id, ids, me, disk, net, dl, gone, ops>>

(* Nothing is missing: the entry is marked complete if it was not. *)
SyncNothingMissing(n, f) ==
    LET e == sync[n].todo[f]
    IN  /\ sync[n].pc = "scan" /\ e # NoEntry
        /\ IsMember(n, e, SyncFallback)
        /\ SyncMissing(n, e) = {}
        /\ meta' = IF Assigned(n, e, SyncFallback, RF) # {} /\ ~ e.complete
                   THEN [meta EXCEPT ![n] = Upsert(@, f,
                            WithFlags(e, TRUE, FALSE))]
                   ELSE meta
        /\ sync' = [sync EXCEPT ![n].todo[f] = NoEntry]
        /\ UNCHANGED <<id, ids, me, disk, net, dl, gone, ops>>

(* Blocks are missing: mark the file and start fetching. *)
SyncBegin(n, f) ==
    LET e == sync[n].todo[f]
    IN  /\ sync[n].pc = "scan" /\ e # NoEntry
        /\ IsMember(n, e, SyncFallback)
        /\ SyncMissing(n, e) # {}
        /\ meta' = [meta EXCEPT ![n] = SetSyncing(@, f)]
        /\ sync' = [sync EXCEPT ![n] = [@ EXCEPT !.pc = "fetch", !.file = f,
                                                 !.missing = SyncMissing(n, e)]]
        /\ UNCHANGED <<id, ids, me, disk, net, dl, gone, ops>>

SyncFetch(n, b) ==
    /\ sync[n].pc = "fetch"
    /\ b \in sync[n].missing
    /\ \E p \in Others(n) : b \in disk[p]
    /\ disk' = [disk EXCEPT ![n] = @ \cup {b}]
    /\ sync' = [sync EXCEPT ![n].missing = @ \ {b}]
    /\ UNCHANGED <<id, ids, me, meta, net, dl, gone, ops>>

(* Three rounds over all peers failed for this block. *)
SyncGiveUp(n, b) ==
    /\ sync[n].pc = "fetch"
    /\ b \in sync[n].missing
    /\ sync' = [sync EXCEPT ![n].missing = @ \ {b}]
    /\ UNCHANGED <<id, ids, me, meta, disk, net, dl, gone, ops>>

SyncCheck(n) ==
    LET assigned == Assigned(n, sync[n].todo[sync[n].file], SyncFallback, RF)
    IN  /\ sync[n].pc = "fetch"
        /\ sync[n].missing = {}
        /\ sync' = [sync EXCEPT ![n] = [@ EXCEPT !.pc = "write",
                        !.have = assigned # {} /\ assigned \subseteq disk[n]]]
        /\ UNCHANGED <<id, ids, me, meta, disk, net, dl, gone, ops>>

(* The entry stored is the one of the snapshot, whatever happened since. *)
SyncWrite(n) ==
    LET f == sync[n].file
        e == sync[n].todo[f]
    IN  /\ sync[n].pc = "write"
        /\ meta' = [meta EXCEPT ![n] = Upsert(@, f,
                        WithFlags(e, sync[n].have, FALSE))]
        /\ sync' = [sync EXCEPT ![n] = [IdleSync EXCEPT !.pc = "scan",
                                            !.todo = [sync[n].todo EXCEPT ![f] = NoEntry]]]
        /\ UNCHANGED <<id, ids, me, disk, net, dl, gone, ops>>

SyncEnd(n) ==
    /\ sync[n].pc = "scan"
    /\ sync[n].todo = NoSnapshot
    /\ sync' = [sync EXCEPT ![n] = IdleSync]
    /\ UNCHANGED <<id, ids, me, meta, disk, net, dl, gone, ops>>

(* A daemon restart: P2PNode::new generates a new identity every time. A TUI *)
(* that runs on keeps the old one.                                          *)
Restart(n, p) ==
    /\ n \in Restarts
    /\ UserOp
    /\ p \in Id \ UNION {ids[m] : m \in Node}
    /\ id' = [id EXCEPT ![n] = p]
    /\ ids' = [ids EXCEPT ![n] = @ \cup {p}]
    /\ sync' = [sync EXCEPT ![n] = IdleSync]
    /\ UNCHANGED <<me, meta, disk, net, dl, gone>>

-----------------------------------------------------------------------------
UserStep(n) ==
    \/ \E f \in File, c \in Content, P \in SUBSET PeerIds(n), p2p \in BOOLEAN :
          RsPut(n, f, c, P, p2p)
    \/ \E f \in File, P \in SUBSET Others(n) : RsDelete(n, f, P)
    \/ \E p \in Node : RsList(n, p)
    \/ n \in Getters /\ \E f \in File : DownloadStart(n, f)
    \/ \E b \in Block : DownloadBlock(n, b)
    \/ DownloadAbort(n)
    \/ DownloadComplete(n)
    \/ \E P \in SUBSET PeerIds(n) : PruneList(n, P)
    \/ \E b \in Block : PruneUnlink(n, b)
    \/ PruneScanned(n)
    \/ \E f \in File : PruneUpsert(n, f)
    \/ PruneEnd(n)
    \/ TuiRestart(n)

SyncStep(n) ==
    \/ \E f \in File : SyncStranger(n, f) \/ SyncNothingMissing(n, f) \/ SyncBegin(n, f)
    \/ \E b \in Block : SyncFetch(n, b) \/ SyncGiveUp(n, b)
    \/ SyncCheck(n)
    \/ SyncWrite(n)
    \/ SyncEnd(n)

Next ==
    \/ \E n \in Users : UserStep(n)
    \/ \E n \in Getters : SyncTrigger(n)
    \/ \E n \in Node : SyncTick(n) \/ SyncStep(n)
    \/ \E n \in Node, p \in Id : Restart(n, p)
    \/ \E r \in net : HandleAnnounce(r) \/ HandleDelete(r) \/ LoseRequest(r)

Spec == Init /\ [][Next]_vars

(* The runtime polls the sync task and its ticks for ever; a block asked   *)
(* for again and again is delivered in the end. The user owes nothing.     *)
Fairness ==
    \A n \in Node :
        /\ WF_vars(SyncTick(n))
        /\ WF_vars(SyncStep(n))
        /\ \A b \in Block : SF_vars(SyncFetch(n, b))

LiveSpec == Spec /\ Fairness

-----------------------------------------------------------------------------
(* Properties. *)

(* The blocks of the recorded members' share that a node must not lose. *)
Share(n, e) ==
    IF e = NoEntry \/ e.members = {} THEN {}
    ELSE AssignedBlocks(BlocksOf[e.content], e.members, id[n], RF)

(* The entry of f is, flags aside, the one that n's prune listed. *)
AsListed(n, f) ==
    /\ meta[n][f] # NoEntry /\ dl[n].listed[f] # NoEntry
    /\ dl[n].listed[f].content = meta[n][f].content
    /\ dl[n].listed[f].members = meta[n][f].members

(* n's prune unlinks by a picture of f that is out of date: the entry was   *)
(* announced or replaced after the listing, or the daemon has another id    *)
(* than the one the TUI connected to.                                       *)
PrunesBlindly(n, f) == dl[n].pc = "unlink" /\ ~ (AsListed(n, f) /\ me[n] = id[n])

(* No step takes from a node a block it is assigned for a file it goes on  *)
(* listing: a deletion keeps the blocks other files share, a prune keeps    *)
(* the share of every file, whatever other tasks wrote to the metadata. The *)
(* one exception, which the code has no guard against (app.rs:487,          *)
(* sync.rs:127, proxy.rs:36): an unlink of a prune whose picture of the     *)
(* file is out of date.                                                    *)
OwnedBlocksKept ==
    [][ \A n \in Node, f \in File :
            /\ meta'[n][f] # NoEntry
            /\ ~ (PrunesBlindly(n, f) /\ meta' = meta)
            => Share(n, meta[n][f]) \cap disk[n] \subseteq disk'[n]
      ]_vars

(* Without the exception the code does not have it: see the README. *)
OwnedBlocksKeptAlways ==
    [][ \A n \in Node, f \in File :
            meta'[n][f] # NoEntry
                => Share(n, meta[n][f]) \cap disk[n] \subseteq disk'[n]
      ]_vars

(* The flags of an entry never claim both "complete" and "syncing": a list  *)
(* shows the one and the sync task resets the other.                        *)
NeverCompleteWhileSyncing ==
    \A n \in Node, f \in File :
        meta[n][f] # NoEntry => ~ (meta[n][f].complete /\ meta[n][f].syncing)

(* All machines that the file names as members list it, and every block of *)
(* it is still somewhere.                                                  *)
Settled(f) ==
    \E m \in Node :
        LET e == meta[m][f]
        IN  /\ e # NoEntry
            /\ e.members # {}
            /\ \A n \in Node : id[n] \in e.members =>
                   /\ meta[n][f] # NoEntry
                   /\ meta[n][f].content = e.content
                   /\ meta[n][f].members = e.members
            /\ \A b \in BlocksOf[e.content] : \E n \in Node : b \in disk[n]

Holders(b) == {n \in Node : b \in disk[n]}

(* Each block of f is on as many machines as the factor asks for. *)
Replicated(f) ==
    \A n \in Node : meta[n][f] # NoEntry =>
        \A b \in BlocksOf[meta[n][f].content] :
            \/ Cardinality(Holders(b)) >= RF
            \/ Cardinality(Holders(b)) >= Cardinality(meta[n][f].members)

(* "rs_replication_factor: how many nodes each block is stored on": once the *)
(* members of a file know it and a copy of each block is left, the sync task *)
(* brings every block to its number of copies, and again after every prune.  *)
ReplicationReached == \A f \in File : []<>(Settled(f) => Replicated(f))

(* "Delete RS file (propagates to peers)": the sync task only fetches blocks, *)
(* it never brings an entry back that was removed while it ran.               *)
SyncNeverRevives ==
    [][ \A n \in Node, f \in File :
            sync'[n] # sync[n] /\ meta[n][f] = NoEntry => meta'[n][f] = NoEntry
      ]_vars

(* A replica lost is not a file lost: as long as nobody deleted the file and *)
(* a machine lists it, each of its blocks is on some machine.               *)
NoBlockLost ==
    \A n \in Node, f \in File :
        meta[n][f] # NoEntry /\ (\A m \in Node : <<m, f>> \notin gone)
            => \A b \in BlocksOf[meta[n][f].content] : Holders(b) # {}

(* The members in use. *)
Current == {id[n] : n \in Node}

(* The set definition used by every other module is the code's             *)
(* sort-and-take, and rs_replication_factor is the number of nodes a block  *)
(* is stored on, for every group the machines can be in.                    *)
AgreesWithSort == \A ms \in Misplaced : ms \cap Current = {}

(* Minimal disruption, the reason to place by highest random weight: a     *)
(* newcomer is the only one that gains a block and displaces at most one    *)
(* owner of it. Read backwards: of a member that leaves only its own blocks *)
(* move, one owner each.                                                   *)
MinimalDisruption == \A ms \in Disturbed : ms \cap Current = {}
=============================================================================
