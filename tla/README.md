# rxiu in TLA+

rxiu is a peer-to-peer file sharing program: a daemon (`src/src/bin/rxiu-daemon.rs`)
that runs the libp2p node, and a TUI (`src/src/tui/`) that talks to it over IPC.
Users share *zones* (directories other peers load files from in chunks) and one *RS
space* (files cut into blocks that are spread over the machines). This directory
holds a model of the parts with state, TLC configurations that check it on small
instances, and TLAPS proofs, for all values of the constants, of the safety properties
that matter most. Paths are below `src/src/` unless they begin with `src/`.

Contents: [Inventory](#inventory) · [Modules](#modules) · [Runs](#runs) ·
[Disagreements](#disagreements-between-the-code-and-what-it-says) ·
[Fairness](#fairness) · [Proofs](#proofs) · [Not modelled](#not-modelled) ·
[Plan](#plan)

## Inventory

| Component | Source | State | Operations | Correct if |
|---|---|---|---|---|
| RS placement | `rs/sync.rs` | none | owners of a block among the members of a file, assignment, prune | as many owners as the factor asks for; a member that joins or leaves moves no other block |
| RS store | `rs/mod.rs`, `rs/sync.rs` | `metadata.json`, the blocks directory, the daemon's `RwLock` | put, upsert, set_syncing, remove with clean-up, list, write_block, prune | calls are atomic, nothing listed is lost, no block in use is deleted |
| RS space over the cluster | `tui/input.rs`, `tui/app.rs`, `daemon/rs_sync.rs`, `p2p/service.rs` | the store of each machine, announcements and deletions on their way, running syncs and downloads | rsput, rsdel, rslist, rsget, sync task, requests of peers, restarts | flags tell the truth, blocks reach their owners, deletions stay deleted |
| RS sync manager | `daemon/rs_sync.rs`, `daemon/server.rs`, `config.rs` | config, `in_progress`, `last_error`, trigger channel | config tick, auto tick, trigger, sync | it goes on for ever, every trigger is served |
| P2P request tables | `p2p/service.rs`, `p2p/node.rs` | twelve `pending_*` tables and two id tables | command, answer, error, failure, deadline | each caller returns, with the answer to its own request |
| Peer discovery, heartbeat | `p2p/service.rs`, `p2p/node.rs`, `p2p/peer_store.rs`, `p2p/protocol/peer_exchange.rs` | known peers, connections, pings, misses, `known_peers.json` | mDNS, dial, connect, close, heartbeat, exchange, reconnect | silent peers leave after four misses, and only those; stored peers come back |
| Network recovery | `p2p/recovery.rs` | retry counter, time stamps, whether it had peers | wake detection, refresh, first attempt, retries | a node without peers listens again in time, whatever the other strategies did |
| Renew | `daemon/renew.rs`, `renew/version.rs` | own executable, `.old` file, running build | version check, chunked download, verification, replacement, restart | never a broken executable, never an older build |
| Zone download | `tui/app.rs`, `storage/local.rs` | `<name>.part`, `<name>.part.json`, `<name>` | resume, write chunk, verify, rename | only whole files appear; interrupted downloads can be resumed |
| RS download scheduler | `tui/app.rs`, `tui/block_client.rs` | queue, requests under way, per-peer scores and loads, attempts | ask who has a block, choose, retry, give up, put together | no block is lost or loaded twice, only a whole file is put in place, it ends |
| Zones | `storage/` | `zones.json`, metadata list and files of a zone | create, import, delete, serve | what peers are told of a file is true |
| IPC and block server | `daemon/server.rs`, `protocol.rs`, `client.rs`, `proxy.rs`, `block_server.rs` | connections | one forwarded call per request | a silent or failing connection fails its request only |
| Daemon process | `bin/rxiu-daemon.rs`, `main.rs`, `daemon/server.rs` | processes, the two ports, identities | start, stop, restart, update | one daemon, and one that serves |
| TUI session | `tui/app.rs`, `tui/input.rs` | mode, caches, selections, pending operation, transfer channel and bar | commands, polls, transfers | a command acts on what the user saw; bar and outcome are the right transfer's |
| Configuration | `config.rs`, `tui/input.rs` | `config.toml` | load, save, rscfg | no edit is lost |
| Messages, codec, CLI, browser | `p2p/messages.rs`, `p2p/codec.rs`, `cli/`, `ui/` | none | | |

How they interact. The TUI and the daemon are two processes that share files
(the RS store, the config, the zones) without a common lock. The TUI reaches peers
only through the daemon (IPC, then a command to the P2P service). The service is one
task that owns the tables and the libp2p swarm; whoever wants something from a peer
sends it a command with a oneshot sender and waits with a deadline. The sync manager
and renew are tasks of the daemon that use the service like any other caller; the
sync manager takes ticks and IPC triggers in one `select!` loop. Requests of peers are
handled by the service and change the same RS store.

What is hard here: two processes and several tasks on one directory; snapshots
(`RsFileMeta`, file metadata, version info) that are used minutes after they were
read; answers matched to callers by keys that are not unique; kills between two
writes; a remote file, or a remote executable, that changes while it is loaded in
chunks; numbers and selections that stay while the lists behind them change; two
processes that race for one port; periodic tasks that must survive every error. `PROJECT.json` lists the
hazards with the line where each one bites and the properties that cover it.

## Modules

| Module | Models | Uses |
|---|---|---|
| `RsPlacement` | placement of blocks (operators only) | |
| `RsCluster` | the RS space over several machines | EXTENDS `RsPlacement` |
| `RsStore` | the inside of one machine's RS store | INSTANCE `AtomicStore` |
| `AtomicStore` | abstract: what a store promises its callers | |
| `RsDownload` | the block scheduler of `rsget` | |
| `RsSyncLoop` | the sync manager's loop, the config file | |
| `P2PRequests` | the request tables of the P2P service | |
| `NetworkRecovery` | when a node listens again | |
| `PeerLiveness` | which peers a node knows | EXTENDS `NetworkRecovery` |
| `ChunkedDownload` | `rget` with resume | |
| `Renew` | updates of the daemons from each other | |
| `Zones` | the zones of a machine, below the level of a storage call | |
| `TuiSession` | a session of the TUI | EXTENDS `Zones` |
| `DaemonProcess` | daemons and invocations of `rxiu` on one machine | |
| `RsClusterProofs` (the placement too), `RsStoreProofs`, `P2PRequestsProofs`, `PeerLivenessProofs`, `ChunkedDownloadProofs`, `RsDownloadProofs`, `TuiSessionProofs` (the zones too) | theorems | EXTEND the modules they are about |
| `DaemonProofs` | theorems about `Renew` and `DaemonProcess` | EXTENDS `Renew`, `DaemonProcess` |
| `MC*` | constants of the instances | EXTEND the modules they instantiate |

An operator whose name ends in `_something` after the name of another one
(`Cleanup_ignoresOthers`) is that operator with a bug put in. Each checked property
has one that violates it; they stand before the operator they replace and nothing
else uses them.

**RsPlacement.** `HrwTopNOwners` is `hrw_top_n_owners`: the members with fewer than n
others above them. `SortAndTake` is the same as the code computes it, by a sort and a
truncation, for comparison. The score of a member for a block (a SHA-256) is a constant with
distinct values per block. `EntryMembers` is the fallback for entries without members.

**RsCluster.** One action per operation: `RsPut`, `RsDelete`, `RsList`; `rsget` as
`DownloadStart`, `DownloadBlock`, `DownloadAbort`, `DownloadComplete` and the prune at its
end; the requests of peers as `HandleAnnounce`, `HandleDelete`, or
`LoseRequest`; the sync task as `SyncTick`/`SyncTrigger` (which take the snapshot),
`SyncStranger`, `SyncNothingMissing`, `SyncBegin`, `SyncFetch`, `SyncGiveUp`,
`SyncCheck`, `SyncWrite`; `Restart`, after which a daemon has another peer id
(`P2PNode::with_new_identity`), and `TuiRestart`. The prune runs in the TUI under no lock
the daemon takes, in steps: `PruneList` lists the files (`dl.listed`), `PruneUnlink` takes
a block that is not in the share computed from that listing, `PruneScanned` ends the
scan, `PruneUpsert` writes one listed entry back, a deleted one included, `PruneEnd` ends
it. `me` is the peer id the TUI keeps from its connection, `ids` the peer ids its daemons have
had; `Getters` and `Restarts` name the machines that download and restart.
`meta`, `disk` are each machine's metadata and blocks
directory, `net` the requests on their way, `sync` and `dl` the local variables of the
two long-running tasks: the snapshot entry they will write back is in there.
Simplifications: one store call is one step (RsStore has its inside); the test for a
listed name and the store call of rsput are one step; a block is its hash, since it is
verified before it is written; machines are all connected and a lost or slow one shows
as requests that fail; a file without blocks is not downloaded. In which order the blocks
are loaded, from whom and how often is in `RsDownload`.

**RsStore.** A task runs the store calls of its operation one after the other, and each
access to the file system is a step: look, load, truncate, write, create a block, fill
it, unlink. A truncated `metadata.json` reads as empty, as `load_metadata` does. Daemon
tasks take the `RwLock` for a call, TUI tasks, which have a store of their own, take
none. A kill leaves the files as they are: `seen` is the listing each task was
last given, and `kills` counts the kills, so that a loss can be told from one. `team` says which tasks run together in a
behaviour. The refinement mapping to `AtomicStore` (`Promised`) takes the metadata as the
holder of the lock will leave it: a call takes effect when it truncates the file, and the
rewrite lasts until the file is whole again. `AtomicStore` lets entries go in a kill
inside a rewrite and nowhere else, and gives nobody a listing during one.

**RsDownload.** `Entry` and `Have` ask who has which block; `Scan` queues
the parts that are not in the store, one by one; `Request` takes the first
block of the queue and starts a task for the candidate with the best score (start, plus
throughput, minus failures, minus load); `Result` is what the task comes back with, and
puts the block in the store, back into the queue or ends the download; `Build` and
`Finish` put the file together and prune. `Requeued`, `Accepted`, `Attempted` are the
decisions in between. Peers answer with a block, a torn block, nothing, or keep a direct
connection open for ever (`stalled`). The daemon works on the
same store meanwhile under no common lock: `DaemonFinds`, `DaemonCreates` and
`DaemonFills` are its `fs::write` of a block, which is there, and short (`Filling`), before
it is whole; `DaemonStops` is its end inside one. `Deleted` and `OtherPrunes` take blocks,
`WriteFails` and `BuildFails` are the I/O errors of a block and of the destination, `Kill`
leaves what there is. `damaged` records that one of these has taken or torn a block or
the destination.

**P2PRequests.** `Ask` is a caller, `Handle` the service loop filing the sender under
`Key` (overwriting, and thereby dropping, an earlier sender), `Answer`, `AnswerError`
and `RequestFails` what comes back, `OtherFails` the failure of a request nobody waits
for, `Timeout` the caller's own deadline. `Key` has the keys of all twelve request
kinds; `ForgetIds` and `ErrorKeys` the two tables of outbound request ids. A file's
answer goes to whatever key ends in a colon and its name (`EndsWith`, as `ends_with` in
`p2p/service.rs:504`): `Ends` says which names end so in which others. Names of zones are
taken to have no colon. `came` is a history variable: what came of a call last, an
answer, an error or a failure.

**ChunkedDownload.** The steps of `download_file_chunked`, in its order, over inodes
and paths, so that two tasks, or a rename under an open file, behave as on a real file
system. Sizes are in chunks; a version in `Ragged` has a short last chunk. `Change` is
the remote user replacing the file, `Crash` the TUI being killed (the machine does not
lose power).

**Renew.** A check asks peer after peer; `LoadChunk` reads the peer's executable as it
is at that moment; `Replace` (Unix) or `MoveAway` and `MoveIn` (Windows) put the file in
place; `Restart` or `RestartFails` follow. The `.bak` copy, which nothing reads, is left
out. `fleet` chooses platforms, updaters and faults at the start. On Linux the path of a
replaced executable that still runs is reported as deleted: a daemon that is not `AtHome`,
as after a restart that failed, may fail every request for its file and every copy of its
own.

**RsSyncLoop.** `ConfigTick`, `AutoTick`, `TakeTrigger` are the arms of `select!`;
`Check`, `CheckFails`, `Synced` the phases of `run_sync_if_needed`. Clients that find
the channel full wait in `blocked`. `failing` chooses at the start which faults occur in
a behaviour. `Edit` (by hand), `Rscfg` and `Saved` change the config file under the loop:
`rscfg` writes the config its TUI holds, and while it does the file is truncated and reads
as the defaults.

**NetworkRecovery.** The clocks of `RecoveryManager` in heartbeat intervals, each capped
where it no longer tells anything apart; a tick that comes late is followed at once by
those it held up. Its operators say for given clocks whether `detect_wake`,
the three strategies of `should_recover` fire; `Recover` is what one tick does to them.

**PeerLiveness.** One node's view. mDNS and libp2p are external: a dial of a connected
peer is refused, a request to an unconnected peer dials it. `Heartbeat` is the 5 s tick
with the recovery in it, `Reconnect` the 30 s one, each as one step. `silence` is a history
variable: ticks in a row that found a ping unanswered. What listening again brings about
on the network is external. The seven-day expiry of stored peers and errors of saving them
are left out.

**Zones.** Every storage call of a TUI is a job of steps: load the list, truncate it,
write it, copy or remove the file. A kill leaves what is there; the daemon serves files
and lists with the registry it read when it started.

**TuiSession.** One turn of the loop of `main_loop_async`: `ProcessPending`, then
`Results` (one message), then a key or the poll (`NoKey`). `cache` is the list of peers,
`selected`, `zone` and the listing what a number stands for; `listing` and
`pending.seen` are history variables: the peer, zone and number of the peer whose files
the user was shown. They stay through refreshes and failures, but for a failed listing of
another zone, after which nobody can say of which zone the files are. A second transfer
replaces `rx` and the bar. An error of the key handler ends the program.

**DaemonProcess.** The actions of a process (bind the IPC port or end, bind the block
port, serve, answer a shutdown, sleep and exit, update by `exec` or by spawning) and of
each invocation (connect, start, wait, connect again, give up). `happened` remembers
which kinds of outside events there were.

## Runs

Each cfg bounds the operations of the outside world (users, faults, changes) by a
`Max...` constant and leaves the program unbounded. Where such a bound can bring the
system to a stop deadlock is not checked; `RsSyncLoop`, `PeerLiveness` and `TuiSession`
run for ever and it is. Each module has a `TypeOK`; to keep the runs short the checked
one is that of `cluster`, and the proofs have the types of the other modules they are
about in their invariants.

| Run | Configuration | Shows | Why the bounds suffice |
|---|---|---|---|
| `cluster` | 3 machines, 2 users, 1 of them downloads and restarts, 2 files of the same block, 3 operations; 4 ids, factors 0–5 for the placement | `TypeOK`, `NeverCompleteWhileSyncing`, `OwnedBlocksKept`, `AgreesWithSort`, `MinimalDisruption` | two uploads and a deletion, or upload, download with prune and deletion, with announcements, deletions and triggered syncs between any two steps of the prune; the placement leaves a machine out; restarts bring every group of the ids about; the two files are interchangeable, which the run uses as a symmetry |
| `cluster_live` | 3 machines, all with global sync, 2 users, 1 file of 1 block, 2 operations | `ReplicationReached` | one user's machine is last in the placement of the block, so it has to travel; the other downloads what the first put |
| `cluster_delete` | 1 file, put and deleted | `SyncNeverRevives`, violated | |
| `store` | 2 daemon tasks or 1 TUI task, 2 files, 2 blocks, 4 operations or kills | `CompleteHasOwned`, `Linearizable`, `ListedBlocksSpared` | two writers and a reader of both entries, shared blocks, a kill at every step, a listing in every phase of a rewrite |
| `requests` | 3 calls out of 8 requests to 2 peers, one name ending in another | `RightContent`, `AnsweredReturns`, `NoStaleIds` | two callers on one key and a third of another request, every kind of key |
| `download` | 1 task, 4 remote versions of 2, 2 (short last), 1 and 0 chunks, 2 failures, 2 changes | `FullIsWhole`, `ResumeIsExact`, `AlignedRetriesSucceed` | change, failure and change again in one part; a part with chunks of two versions |
| `renew` | 3 nodes, 7 builds, 3 fleets, 2 faults | `ExeWhole`, `Recoverable`, `Settles` | a node that loads from one that replaces itself with a third build; both renames fail or are interrupted; every kind of fault in the fleet of the lone updater, a failed restart included |
| `sync_loop` | 2 clients, channel of 1, 1 edit, 3 triggers, any of the 3 faults | `KeepsSyncingWhenReadable`, `TriggersServed`, `ClientsReturn`, `ConfigTakesEffect` | with a channel of 1 instead of 4 one client fills it and the other waits; the edit falls into any phase of a sync |
| `peers` | 2 peers, 3 misses, 1 machine going down or up, refresh after 4 ticks, 2 retries, gaps of up to 2 ticks | `FourMisses`, `DeadPeersLeave`, `ClosedPeersReturn`, `NeverLongAlone`, `PromptAfterLoss` | one peer's events in the course of the other's; retries used up, renewed by a refresh and cut off by a sleep; the proofs have all thresholds, among them the code's |
| `rs_download` | 2 blocks, 1 peer asked directly and 1 through the daemon, 3 attempts, 2 requests at a time, 2 downloads, 1 deletion, prune, failed write or kill | `Accounted`, `SuccessWhole`, `OnlyLocalDamageSticks`, `EndsUnlessStalled` | one block's requests fail while the other's are under way; the second download meets what the first left; the daemon creates and fills blocks between any two steps |
| `session` | 1 TUI, 2 zones, 2 names, 2 contents, 2 peers that come and go, 2 transfers, channel of 1, 1 kill | `MetaTrue`, `BarHonest`, `RightSource`, `LastOutcomeShown` | two files under one name, re-selections while a listing is awaited, the list of peers refreshed under a selection, a second transfer while the first reports |
| `daemon` | a TUI, a start, a stop and a restart, 3 processes, 1 update by `exec` or spawn, 1 kill | `TuiConnected`, `EventuallyServed`, `NoneLingers` | every overlap of the four, with a process that lost the race and one that replaces itself |

What the properties say:

- `OwnedBlocksKept`: no step takes from a machine a block that a file it goes on
  listing assigns to it. A deletion has to spare shared blocks, a prune the share of
  every file, with the membership each entry has. The exception is an unlink by a prune
  whose picture of the file is out of date (`PrunesBlindly`): the entry was announced or
  replaced since the prune listed, or the daemon has another id than the TUI knows. Put,
  deletion, sync and the upserts of the prune have none.
- `NeverCompleteWhileSyncing`: no entry says complete and syncing at once, though
  four tasks write these flags from entries read at different times.
- `AgreesWithSort`, `MinimalDisruption`: the set of members with fewer than n others above
  them is what sorting and taking n gives; a member that joins takes at most one block
  place from others and moves nothing else.
- `ReplicationReached`: when all members know a file and a copy of each block is left,
  the blocks get to as many machines as the factor asks for, again after every prune.
- `Linearizable`: the store implements `AtomicStore`: one entry changes at a time, no
  listing is of a file half rewritten, and only a kill inside a rewrite costs entries.
  `ListedBlocksSpared` and
  `CompleteHasOwned`: metadata and directory agree at every step, through kills.
- `RightContent`: a caller of a block is given that block, a caller of a peer's list or
  version that peer's, a caller of a file one of its name or of a name that ends its own
  after a colon. `AnsweredReturns`: nobody waits on once his own has come, also when his
  sender was overwritten, dropped or left behind: an answer to his request (but a file's,
  which another key may take), an error of his block, blocks or availability request, or
  the failure of any request (but for the callers of renew). Errors in answer to other
  requests, `RsList` and `RsGetMeta` among them, reach no waiter in the code
  (`p2p/service.rs:580`): those callers wait to their deadline, and the property leaves them
  out. `NoStaleIds`: the id table of block requests does not grow; that of the
  availability requests does, and is not covered.
- `FullIsWhole`: only a whole version of the remote file is put at the destination.
  `ResumeIsExact`: while the remote file stays the same a part never holds anything else
  before the position it is resumed at. `AlignedRetriesSucceed`: asking again succeeds.
- `ExeWhole`, `Recoverable`, `Settles`: no mixed or foreign executable is put in place,
  one whole build is always left, a lone updater ends on its peer's build, or in the
  state a failed restart leaves: running a file that is not in its place.
- `KeepsSyncingWhenReadable`, `TriggersServed`, `ClientsReturn`, `ConfigTakesEffect`:
  no fault and no flood of triggers stops the other arms of the loop for good, and the
  daemon ends on the config in the file, though it may have read it half-written.
- `FourMisses`: the heartbeat disconnects only a peer that has left `MaxMisses` pings in a
  row unanswered. `DeadPeersLeave`, `ClosedPeersReturn`: the list follows the machines.
  `NeverLongAlone`, `PromptAfterLoss`: whatever the retries, wake-ups and refreshes
  before, a node without peers listens again within the refresh interval, and first within
  the stale threshold after it lost them.
- `Accounted`: every block is queued, requested or there, once, and a peer's load is the
  number of its requests. `SuccessWhole`: a download that says it is done put the whole
  file in place. `OnlyLocalDamageSticks`: peers alone cannot leave a file cut short at the
  destination, which bars every later download; it takes a kill, a failed write, a deletion
  or another prune that took a block, or the daemon writing a block while it is read.
  `EndsUnlessStalled`: it comes to an end.
- `MetaTrue`: what a peer is told of a file is true of the file, or its entry is on its
  way. `BarHonest`, `LastOutcomeShown`: the bar is that of the transfer whose messages are
  read, and the user learns how the last transfer ended. `RightSource`: a file comes from
  the zone the user was shown and, as long as its number is still that of the peer he was
  shown, from that peer, through refreshes of the list of peers and failed listings.
- `TuiConnected`, `EventuallyServed`, `NoneLingers`: a TUI has its daemon, one daemon
  serves in the end and the losers of the race are gone.

## Disagreements between the code and what it says

The run `cluster_delete` (`SyncNeverRevives`) shows one as a counterexample: the sync task
writes back the entry of the snapshot it took before it fetched (`daemon/rs_sync.rs:272`),
so a file deleted meanwhile is listed again, and rslist of the peers takes it over.

The following configurations, each with one property, are kept beside the runs. TLC
finds each property violated (with `tlc -config X.cfg M`); the modules state them next to
the weaker ones that the runs check.

| Configuration (module) | Property | What happens |
|---|---|---|
| `RsCluster_lost` (`MCRsCluster`) | `NoBlockLost` | a prune right after an upload deletes the only copy of a block whose owners have not loaded it yet |
| `RsCluster_factor3` (`MCRsCluster`) | `OwnedBlocksKept` | with `rs_replication_factor` 3 the prune, which always uses 2 (`tui/app.rs:487`), deletes assigned blocks |
| `RsCluster_restart` (`MCRsCluster`) | `ReplicationReached` | a restarted daemon has another peer id and is no member of its own files |
| `RsStore_lost` (`MCRsStore`) | `StaysListed` | TUI and daemon rewrite `metadata.json` over each other |
| `RsStore_prune` (`MCRsStore`) | `PutHasBlocks` | the prune of a download deletes the blocks of an upload that has not listed its file yet |
| `RsStore_crash` (`MCRsStore`) | `BlocksVerified` | a block cut short by a kill counts as present |
| `P2PRequests_zone` (`MCP2PRequests`) | `RightAnswer` | listings of two zones of a peer are swapped; with `Request <- MCMeta` metadata of one peer is given to the caller of another |
| `ChunkedDownload_ragged` (`MCChunkedDownload`) | `RetriesSucceed` | a part with wrong data and a short last chunk is cut to whole chunks and resumed there for ever |
| `ChunkedDownload_twice` (`MCChunkedDownload`) | `FullIsWhole` | of two downloads of one file one rewrites the part between the other's hash check and rename |
| `Renew_upgrade` (`MCRenew`) | `UpgradeOnly` | `src/build.rs` formats versions as `V24-0131.1200`, which semver does not parse, so `is_newer_than` is true of every other hash and a daemon takes an older build |
| `RsSyncLoop_leak` (`RsSyncLoop`) | `KeepsSyncing` | `needs_sync(...)?` (`daemon/rs_sync.rs:126`) leaves with `in_progress` set when `metadata.json` cannot be read; nothing is synced after |
| `PeerLiveness_expired` (`PeerLiveness`) | `PeersReturn` | a peer forgotten when its mDNS record expires but still connected cannot be dialled again |
| `RsDownload_fastfail` (`MCRsDownload`) | `AsksAllPeers` | a block uses up its attempts on a peer that fails fast while the other candidate is busy |
| `RsDownload_stall` (`MCRsDownload`) | `Ends` | nothing bounds the wait for a direct connection that sends nothing |
| `TuiSession_source` (`MCTuiSession`) | `AlwaysRightSource` | when the list of peers is refreshed and shifts, or after a failed listing of another zone, a number stands for another peer's file |
| `TuiSession_twotuis` (`MCTuiSession`) | `MetaTrue` | of two TUIs the second writes over the metadata list of the first (in `zones.json` as well: `ZonesStay`) |

Others fail when they are put into the configuration of a run: `OwnedBlocksKeptAlways` of
`RsCluster` (a file announced after the prune has listed loses its assigned block);
`SettlesAnywhere` of `Renew` (after a failed `exec` on Linux the daemon's own path reads
"(deleted)", and every later copy fails); `UpdateServed` of
`DaemonProcess` (with `Exec = {FALSE}` the spawned daemon finds the port taken by the old
one and ends, although the log says "New daemon started, exiting old process"),
`ServesBlocks` (of two daemons started at once one may get the IPC port and the other the
block port) and `IdentityCurrent` (a TUI goes on with the identity of a daemon that was
restarted); `EveryOutcomeShown` of `TuiSession` (a second transfer replaces the channel of
the first), `MetaAlwaysTrue` (a deletion that was killed leaves an entry behind, which the
file imported again is listed with) and `ZonesServed` (a new zone is served only after the
daemon was restarted); `OnlyWrittenConfigs` of `RsSyncLoop` (the daemon runs on defaults
while `rscfg` rewrites the file), `HandEditsKept` (`rscfg` writes what its TUI holds and,
for what it has no command for, constants over what was set by hand) and `FreshConfig` (after a long sync `select!` may take a
trigger before the due config tick).

## Fairness

None is assumed of users, of peers' answers or of faults, and none at all in `RsStore`,
`P2PRequests` and `Zones`, of which no liveness is checked. It is assumed:

- `RsCluster`: weak for the tick and the steps of each sync task, which the runtime
  polls for ever; strong for `SyncFetch`: a block asked for again and again is delivered
  at some point (rounds are repeated at every tick).
- `ChunkedDownload`: weak for the steps of a spawned task, whose requests end by answer
  or deadline, and for starting a download as long as the file is not there: the
  property is about a user who keeps asking.
- `Renew`: weak for the renew task of each daemon. No daemon has to be restarted by
  its user.
- `RsSyncLoop`: weak for the timers, for the end of a sync (all its requests have
  deadlines) and for `rscfg` finishing its write, or dying in it; strong for the arms of `select!`, which tokio picks at random among those
  that are ready.
- `PeerLiveness`: weak for the two ticks, which may be late but come, for a dial
  succeeding or failing and for a disconnection being carried out. Wake-ups, mDNS and pongs
  owe nothing.
- `RsDownload`: weak for the steps of the download and for the results of requests that
  do not stall: a refused or lost connection ends them, or a deadline of the daemon. A
  direct connection that stays open and silent owes nothing, and has no deadline.
- `TuiSession`: weak for the turns of the loop, which polls for a key for 50 ms at most.
  Users, transfers and the daemon owe nothing.
- `DaemonProcess`: weak for the steps of each process and invocation. Two assumptions on
  time are in the guards: a daemon that has answered a shutdown exits (100 ms) before the
  restart command goes on (500 ms), and a daemon is up before a TUI gives up (2 s).

## Proofs

TLAPS checks every step of eight modules, some 8,000 obligations, for all values of the
constants that satisfy the named assumptions of the modules. TLC evaluates each of these
on the runs of that module. Every safety property that a passing run checks is a theorem,
under the hypotheses named here: `GuardedTeams`, `OneTask`, `OneTui`, `RF <= PruneFactor`;
the runs satisfy them, and for each there is a configuration that refutes the property
without it.

`RsClusterProofs` (`ScoreAssumption`: distinct natural scores per block;
`ClusterAssumption`: types, distinct initial ids, a finite set of ids, a positive factor):

- `FactorMonotone`, `OwnerExists`, `StrangerLeaves`: more factor, more owners; a block
  with members has an owner, the member with the fewest above it; a member that is no owner
  leaves without a change. They rest on `OutscoringMonotone`: who outscores q outscores
  everyone q outscores.
- `SortedPlacement`: for any finite group and factor the owners are those of the code's sort
  and truncation, and as many as they should be; so `PlacementAgrees`:
  `Spec => []AgreesWithSort`. The number of members above one is its place in the sort: it is
  below the number of members (`RankRange`) and nobody shares it (`RankIdentifies`), so the
  places are a bijection and the sort exists (`SortExists`); in any descending list the i-th
  member has exactly those before it above it (`RankingPlaces`).
- `NewcomerDisturbs`: of a newcomer's group nobody else gains the block and one owner at most
  loses it; so `MovesLittle`: `Spec => []MinimalDisruption`. The newcomer moves everybody one
  place down at most (`NewcomerAdds`), so only the owner in the last place can go.
- `TypeCorrect`: `Spec => []TypeOK`. `TypeOK` is inductive because it says of a running
  task that the file and entry it works on exist, and of an announcement that it carries
  an entry. One lemma per group of actions.
- `FlagsCorrect`: `Spec => []NeverCompleteWhileSyncing`. With `TypeOK` it is inductive:
  every writer either clears `syncing` (`WithFlags(_, _, FALSE)`, whatever the snapshot
  says) or clears `complete` (`SetSyncing`). `FlagsStep` goes through the actions.
- `OwnedBlocksStay`: `RF <= PruneFactor` implies `Spec => OwnedBlocksKept`. Only prune
  and remove take blocks. The prune keeps the share computed with the factor 2, which by
  `FactorMonotone` contains the share with `RF` (`PruneKeepsShare`); the clean-up keeps
  what other entries refer to (`CleanupKeepsShare`). As the prune lists, unlinks and
  upserts in steps of its own, what it is to keep is part of an invariant (`Picture`,
  `PictureRight`): the blocks it spares contain the share of every entry it listed, by
  the id it lists with. The assumption is needed: `RsCluster_factor3.cfg` is the
  counterexample without; so is the exception, `OwnedBlocksKeptAlways` fails.

`RsStoreProofs` (`StoreAssumption`; `GuardedTeams`: the tasks of a behaviour are tasks of
the daemon, any number of them, or one task by itself):

- `Implements`: `Spec => Linearizable`, the refinement of `AtomicStore`, with kills at any
  point. `BlocksSpared`: `Spec => ListedBlocksSpared`. The invariant has, per task, what its
  calls look like (`QueueOf`), that it holds the lock its call needs (`LockOf`), and what it
  read is still true (`DataOf`): the copy it is about to save is the file with one entry
  changed, and what it is about to unlink is not referred to. `Exclusion` gets from the
  lock that nobody else is in a call while the file changes, which is what lets `DataOf` of
  the others survive (`StepFrame`). Each step then maps to a change (`TruncateChanges`), the
  end of a rewrite (`SaveRewrites`), a listing (`ReadListSees`), a kill (`CrashKills`) or
  a stutter (`AccessQuiet`, `OperationQuiet`). A kill has to find the file truncated to
  cost entries, and then a rewrite is on. Without the hypothesis `RsStore_lost.cfg` and
  `RsStore_prune.cfg` are counterexamples of what it is for.
- `CompleteIsOwned`: `Spec => []CompleteHasOwned`, for any `Teams` (the property is itself
  about one task without announcements). On top of the invariant above, which holds whenever
  the team is guarded (`GuardedInvariant`), it follows the task's queue of calls: every
  listed entry has its assigned blocks, complete or not (`HasOwned`); what a call of the
  queue is to list has them too, or an earlier call writes them; and the prune at the head
  of the queue does not take them (`GoodQueue`). A kill drops the queue, and leaves blocks
  that may be torn but are there.

`P2PRequestsProofs` (`RequestAssumption`: the fields of a request, and a kind the tables know):

- `ContentRight`, `CallersReturn`, `IdsCurrent`: `Spec => []RightContent`,
  `[]AnsweredReturns`, `[]NoStaleIds`. The invariant ties the records of a call together:
  while it waits and its command has been handled, its sender is filed under its key and,
  for the kinds that have one, its id leads to that key (`Filing`); what the tables hold are
  keys of their calls (`PendingKeys`, `IdKeys`). Whatever takes an entry out of a table,
  another command with the same key included, resolves its waiter in the same step. So
  once what came of a call is meant for its key (`Told`) it no longer waits.

`PeerLivenessProofs` (`PeerAssumption`, `RecoveryAssumption`: positive thresholds, the stale
one below the refresh interval):

- `TypeCorrect`; `FourMissesHold`: `misses[p] <= silence[p]` for pinged peers is inductive,
  through bursts of ticks. `NeverLongAloneHolds`, `PromptAfterLossHolds`: the clocks are
  related to the time alone and since the loss, with each strategy's resets.

`ChunkedDownloadProofs` (`DownloadAssumption`; `OneTask`: at most one download):

- `DestinationWhole`: `Spec => []FullIsWhole`. What the task has hashed is still what lies at
  the part's path when it renames it (`Control`), through kills and a remote file that
  changes. With two tasks it is not: `ChunkedDownload_twice.cfg`.
- `ResumesExactly`: `Spec => []ResumeIsExact`. `Exact` follows the part through its life: all
  of it is the remote file but for a last chunk that a kill cut short, which the next
  resumption cuts off.

`RsDownloadProofs` (`DownloadAssumption` of `RsDownload`: types, a file of one block at least):

- `NothingLost`: `Spec => []Accounted`. `Once` says of the parts scanned so far that each is
  queued, under way or there, and nowhere twice; the counts follow, and that the loop can end
  only when every part is there.
- `DoneIsWhole`, `PeersLeaveNoTornFile`: `Spec => []SuccessWhole`,
  `Spec => []OnlyLocalDamageSticks`. The second rests on `Once`: when the file is put together
  all its blocks have been there, and until something on this machine has done it
  (`damaged`) none has gone or was torn (`Unharmed`).

`TuiSessionProofs` (`SessionAssumption`, `ZonesAssumption`, `OperationAssumption`: types,
finitely many peers, and markers that are no names):

- `BarIsHonest`, `SourceIsRight`: `Spec => []BarHonest`, `Spec => []RightSource`. The
  invariant (`RemoteInv`) says where the list the user sees is from (`Shown`: the peer
  with the selected number when it was shown and, as long as no other is being asked for,
  the selected zone), and that the file he is about to choose a place for is still of that
  number and zone (`Chosen`). Which peer has the number when the download starts is not
  fixed by anything, and the property says so.
- `MetaIsTrue`, for `OneTui` (`Tui = {Me}`): `Spec => []MetaTrue`. `LocalInv` relates the list of each zone to its files, entry by
  entry (`ListsTrue`), the list about to be saved to what the files will be (`NewTrue`), and
  the step a storage call is at to the file it works on (`JobTrue`). That no entry with the
  name is left once `retain` has gone through the list is by minimal counterexample over its
  recursion (`KeepingExists`, `WithoutKeeps`). With two TUIs `TuiSession_twotuis.cfg` is the
  counterexample.

`DaemonProofs` (`RenewAssumption`: types, and builds of at least one chunk; nothing about
the constants of `DaemonProcess`):

- `ExecutablesWhole`, `AlwaysRecoverable`: `Spec => []ExeWhole`, `Spec => []Recoverable`. The
  invariant follows the hash: what a peer tells is the hash of a whole build for the asking
  node's platform (`TargetWhole`), only what has that hash gets past the verification
  (`StagedVerified`), and on Windows the file moved away stays until the restart is over
  (`OldKept`).
- `TuiConnects`: `ProcessSpec => []TuiConnected` of `DaemonProcess`. While nothing has ended or
  updated a daemon (`Undisturbed`), the one with the port serves and stays, a start that
  fails has lost the port to it, and so for a TUI that waits one serves or comes up.

Only model-checked: all liveness, refinement under fairness included (the prover has no
`ENABLED`). Induction over a parameter is out of the prover's reach as a rule; where a
recursion or a minimum needed it (`OwnerExists`, `WithoutKeeps`) the proof takes a minimal
counterexample in the naturals instead.

## Not modelled

- P2P messages and codec, IPC framing and the forwarding of IPC calls to the service: data
  formats, and one connection with one call each. That answers meet their callers is in
  `P2PRequests`; what a silent or broken block connection does is in `RsDownload`.
- CLI, file browser, rendering: no state others see. The line editor of the TUI is one
  step per command; that it cuts a line at byte positions (`tui/input.rs:40`) is about
  text, which the model does not have.
- Listening again adds a listener each time (`p2p/node.rs:209`) and nothing removes the old
  ones: a matter of libp2p's resources. Of the peers mDNS reports together only the first
  is handled (`p2p/node.rs:305`); in `PeerLiveness` mDNS may report or not at any time, and
  its reports are repeated.
- A deletion that reaches a peer never, or an upload of one name on two machines, has no
  resolution in the code (no tombstones, no versions): `RsCluster` has them as lost
  requests and entries that differ, and no property says which one wins. The same goes for
  a deletion between the listing and the upserts of a prune: the prune lists the file
  again, in the model as in the code.
- A second TUI that removes a file another one has found ends that one (the error of the
  key handler): the step is in `TuiSession`, no property is about it.
- `renew/updater.rs`, which the daemon does not call; the seven-day expiry of stored peers;
  the PID file, which nobody reads; the `.bak` copy of an update.
- Time, but for the order of deadlines and the clocks of `NetworkRecovery`; throughput,
  but for the bonus it gives a peer's score.

## Plan

The order was: the decision which blocks are stored where, then the RS space, its store,
the requests it makes, and the tasks around it; then recovery, the download scheduler,
zones, session and processes. Left to do:

1. `RsDownload` as a refinement of the `Download...` actions of `RsCluster`: the two share
   the store, the entry and the set of loaded blocks.
2. What holds without the hypotheses: which entries of `RsStore` survive when TUI and daemon
   write together, and which metadata of a zone with two TUIs at work.
