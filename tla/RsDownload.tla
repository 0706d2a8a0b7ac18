----------------------------- MODULE RsDownload -----------------------------
(***************************************************************************)
(* How rsget loads the blocks of a file (download_rs_file in tui/app.rs):   *)
(* who has which block is asked first; missing blocks are then requested,   *)
(* several at a time, each from the candidate with the best score, and     *)
(* requested again, up to MaxAttempts times, when that fails; in the end   *)
(* the file is put together from the store. The daemon works on the same    *)
(* store at the same time, under no lock the TUI shares: a block it writes  *)
(* is there, and empty or short, before it is whole.                       *)
(*                                                                         *)
(* A peer whose address is known is asked directly (tui/block_client.rs,   *)
(* daemon/block_server.rs), the others through the daemon. Peers may fail   *)
(* to answer, answer with a torn block (nobody verifies a block that is     *)
(* served), or keep a direct connection open and send nothing.             *)
(*                                                                         *)
(* Abstractions: scores are integers, StartScore for 1.0 and Bonus for the   *)
(* share of the throughput (bytes per second) a success adds; between       *)
(* candidates of the same score either is taken. One file; its entry is     *)
(* reduced to whether it is listed and has its blocks (RsCluster has the    *)
(* flags), the prune to the blocks this machine owns.                      *)
(***************************************************************************)
EXTENDS Naturals, Sequences, FiniteSets

CONSTANTS Peer,
          Direct,       (* the peers whose address is known                *)
          Hash,
          HashOf,       (* HashOf[i]: the hash of the i-th block            *)
          Owned,        (* the blocks this machine is to keep              *)
          Concurrency,  (* rs_block_concurrency                            *)
          MaxAttempts,  (* 6                                               *)
          StartScore, Bonus,
          MaxRuns,      (* bound on the downloads                          *)
          MaxFaults,    (* bound on deletions, kills, failed writes and    *)
                        (* prunes of other downloads                       *)
          Stalls,       (* whether direct requests may stall               *)
          Absent, Filling, Torn, Whole

Part == 1..Len(HashOf)

ASSUME DownloadAssumption ==
    /\ Direct \subseteq Peer /\ Owned \subseteq Hash
    /\ HashOf \in Seq(Hash) /\ HashOf # <<>>
    /\ Concurrency \in Nat \ {0} /\ MaxAttempts \in Nat \ {0}
    /\ StartScore \in Nat /\ Bonus \in Nat
    /\ MaxRuns \in Nat /\ MaxFaults \in Nat
    /\ Stalls \in BOOLEAN
    /\ Absent # Torn /\ Torn # Whole /\ Whole # Absent
    /\ Filling \notin {Absent, Torn, Whole}

VARIABLES
    store,     (* the blocks directory; Filling: the daemon writes it now  *)
    found,     (* blocks the daemon has not found there and is about to     *)
               (* create                                                   *)
    listed,    (* whether the file is listed, and "bare" if without blocks *)
    holds,     (* holds[p]: the blocks of peer p                           *)
    dest,      (* the destination file: Absent, Torn or Whole              *)
    pc,        (* "idle", "entry", "have", "scan", "load", "build", "done",  *)
               (* "failed"                                                 *)
    have,      (* availability                                             *)
    pending,   (* pending: parts to be requested                           *)
    attempts,
    tasks,     (* the requests under way                                   *)
    inFlight, score, (* stats                                              *)
    passed,    (* how many parts the loop over the parts has passed        *)
    intact,    (* whether the bytes put together are the file's            *)
    got,       (* parts that were there or have been written               *)
    tried,     (* tried[i]: the peers that part i was requested from       *)
    damaged,   (* history: something on this machine has removed or torn a  *)
               (* stored block or a destination (the properties name what)  *)
    runs, faults

vars == <<store, found, listed, holds, dest, pc, have, pending, attempts, tasks, inFlight, score,
          passed, intact, got, tried, damaged, runs, faults>>

Task == [part : Part, peer : Peer, stalled : BOOLEAN]

TypeOK ==
    /\ store \in [Hash -> {Absent, Filling, Torn, Whole}]
    /\ found \subseteq Hash
    /\ listed \in {"no", "bare", "yes"}
    /\ holds \in [Peer -> SUBSET Hash]
    /\ dest \in {Absent, Torn, Whole}
    /\ pc \in {"idle", "entry", "have", "scan", "load", "build", "done", "failed"}
    /\ have \in [Hash -> SUBSET Peer]
    /\ pending \in Seq(Part)
    /\ attempts \in [Part -> 0..MaxAttempts]
    /\ tasks \in SUBSET Task
    /\ inFlight \in [Peer -> Nat] /\ score \in [Peer -> Nat]
    /\ passed \in 0..Len(HashOf) /\ intact \in BOOLEAN
    /\ got \in SUBSET Part /\ tried \in [Part -> SUBSET Peer]
    /\ damaged \in BOOLEAN
    /\ runs \in 0..MaxRuns /\ faults \in 0..MaxFaults

Fresh ==
    /\ have' = [h \in Hash |-> {}]
    /\ pending' = <<>> /\ attempts' = [i \in Part |-> 0]
    /\ tasks' = {}
    /\ inFlight' = [p \in Peer |-> 0] /\ score' = [p \in Peer |-> StartScore]
    /\ passed' = 0 /\ intact' = TRUE
    /\ got' = {} /\ tried' = [i \in Part |-> {}]

Init ==
    /\ store \in [Hash -> {Absent, Whole}] /\ found = {}
    /\ listed \in {"bare", "yes"}
    /\ holds \in [Peer -> SUBSET Hash]
    /\ dest = Absent /\ pc = "idle"
    /\ have = [h \in Hash |-> {}]
    /\ pending = <<>> /\ attempts = [i \in Part |-> 0]
    /\ tasks = {}
    /\ inFlight = [p \in Peer |-> 0] /\ score = [p \in Peer |-> StartScore]
    /\ passed = 0 /\ intact = TRUE
    /\ got = {} /\ tried = [i \in Part |-> {}]
    /\ damaged = FALSE
    /\ runs = 0 /\ faults = 0

-----------------------------------------------------------------------------
Disk == <<store, found, listed>>
World == <<holds, damaged, runs, faults>>
Loading == <<have, pending, attempts, tasks, inFlight, score, got, tried>>
Building == <<passed, intact>>

HasBlock(h) == store[h] # Absent

Limit == IF Concurrency * Cardinality(Peer) < 32 THEN Concurrency * Cardinality(Peer) ELSE 32

Fault == faults < MaxFaults /\ faults' = faults + 1

(* The user asks for the file, at first or again. *)
Start ==
    /\ pc \in {"idle", "failed"} /\ runs < MaxRuns
    /\ pc' = "entry" /\ runs' = runs + 1
    /\ Fresh
    /\ UNCHANGED <<Disk, dest, holds, damaged, faults>>

(* The entry, from a peer if it has no blocks; without one, or with a file   *)
(* at the destination already, or without peers, the download ends.         *)
Entry ==
    /\ pc = "entry"
    /\ \/ listed = "yes" /\ UNCHANGED listed
          /\ pc' = IF dest = Absent /\ Peer # {} THEN "have" ELSE "failed"
       \/ listed = "bare" /\ listed' = "yes"
          /\ pc' = IF dest = Absent /\ Peer # {} THEN "have" ELSE "failed"
       \/ listed # "yes" /\ pc' = "failed" /\ UNCHANGED listed
    /\ UNCHANGED <<store, found, dest, World, Loading, Building>>

(* rs_have of all the peers, of whom some do not answer in time.            *)
Have ==
    /\ pc = "have"
    /\ \E answering \in SUBSET Peer :
          have' = [h \in Hash |-> {p \in answering : h \in holds[p]}]
    /\ pc' = "scan"
    /\ UNCHANGED <<Disk, dest, World, pending, attempts, tasks, inFlight, score, got, tried,
                   Building>>

(* The next part is queued, if it is not in the store.                      *)
Scan ==
    LET i == passed + 1
    IN  /\ pc = "scan"
        /\ IF HasBlock(HashOf[i])
           THEN got' = got \cup {i} /\ UNCHANGED pending
           ELSE pending' = Append(pending, i) /\ UNCHANGED got
        /\ IF i < Len(HashOf) THEN passed' = i /\ UNCHANGED pc
           ELSE passed' = 0 /\ pc' = IF pending' = <<>> THEN "build" ELSE "load"
        /\ UNCHANGED <<Disk, dest, World, have, attempts, tasks, inFlight, score, tried, intact>>

Candidates(h) == IF have[h] = {} THEN Peer ELSE have[h]

(* p is preferred to q: score / (in_flight + 1). *)
Better(p, q) == score[p] * (inFlight[q] + 1) > score[q] * (inFlight[p] + 1)

Best(P) == {p \in P : \A q \in P : ~Better(q, p)}

(* The next part is requested while there is room for a request. *)
Request ==
    /\ pc = "load" /\ pending # <<>> /\ Cardinality(tasks) < Limit
    /\ \E p \in Best(Candidates(HashOf[Head(pending)])) :
          /\ tasks' = tasks \cup {[part |-> Head(pending), peer |-> p, stalled |-> FALSE]}
          /\ inFlight' = [inFlight EXCEPT ![p] = @ + 1]
          /\ tried' = [tried EXCEPT ![Head(pending)] = @ \cup {p}]
    /\ pending' = Tail(pending)
    /\ UNCHANGED <<Disk, dest, pc, World, have, attempts, score, got, Building>>

(* A direct connection that is open and silent: nothing bounds the wait.    *)
Stall(t) ==
    /\ Stalls /\ pc = "load"
    /\ t \in tasks /\ ~t.stalled /\ t.peer \in Direct
    /\ tasks' = (tasks \ {t}) \cup {[t EXCEPT !.stalled = TRUE]}
    /\ UNCHANGED <<Disk, dest, pc, World, have, pending, attempts, inFlight, score, got, tried,
                   Building>>

(* Mutant: results are waited for when there is no room only, so that the   *)
(* last ones are not.                                                      *)
Taken_whenFull(t) ==
    /\ pc = "load" /\ t \in tasks /\ ~t.stalled
    /\ Cardinality(tasks) >= Limit
    /\ tasks' = tasks \ {t}
    /\ inFlight' = [inFlight EXCEPT ![t.peer] = @ - 1]
    /\ UNCHANGED <<found, listed, dest, holds, runs, have, tried, Building>>

(* The results are taken one after the other, when all the requests there   *)
(* is room for are under way.                                              *)
Taken(t) ==
    /\ pc = "load" /\ t \in tasks /\ ~t.stalled
    /\ pending = <<>> \/ Cardinality(tasks) >= Limit
    /\ tasks' = tasks \ {t}
    /\ inFlight' = [inFlight EXCEPT ![t.peer] = @ - 1]
    /\ UNCHANGED <<found, listed, dest, holds, runs, have, tried, Building>>

Succeeded(p) == score' = [score EXCEPT ![p] = (@ * 4) \div 5 + Bonus]

NextPc == IF pending' = <<>> /\ tasks' = {} THEN "build" ELSE "load"

(* The block of the hash; it is not written over one that is there. *)
BlockArrives(t) ==
    /\ HashOf[t.part] \in holds[t.peer]
    /\ Taken(t)
    /\ store' = [store EXCEPT ![HashOf[t.part]] = IF @ = Absent THEN Whole ELSE @]
    /\ got' = got \cup {t.part}
    /\ Succeeded(t.peer)
    /\ UNCHANGED <<pending, attempts, damaged, faults>>
    /\ pc' = NextPc

(* Mutant: a block is written as it came. *)
WrongData_written(t) ==
    /\ store' = [store EXCEPT ![HashOf[t.part]] = IF @ = Absent THEN Torn ELSE @]
    /\ got' = got \cup {t.part}
    /\ pc' = NextPc

(* verify_and_write_block: a wrong hash ends the download. *)
WrongData(t) == pc' = "failed" /\ UNCHANGED <<store, got>>

WrongBlockArrives(t) ==
    /\ HashOf[t.part] \in holds[t.peer]
    /\ Taken(t)
    /\ Succeeded(t.peer)
    /\ UNCHANGED <<pending, attempts, damaged, faults>>
    /\ WrongData(t)

(* The block is the right one and cannot be written, or not all of it: the  *)
(* download ends.                                                          *)
WriteFails(t) ==
    /\ HashOf[t.part] \in holds[t.peer] /\ store[HashOf[t.part]] = Absent
    /\ Taken(t)
    /\ Fault
    /\ \E left \in {Absent, Torn} : store' = [store EXCEPT ![HashOf[t.part]] = left]
    /\ damaged' = (damaged \/ store' # store)
    /\ Succeeded(t.peer)
    /\ pc' = "failed"
    /\ UNCHANGED <<pending, attempts, got>>

(* Mutant: a failed request is not made again. *)
Requeued_dropped(i) == pending

(* The part of a failed request goes to the end of the queue. *)
Requeued(i) == Append(pending, i)

Attempted(i) == [attempts EXCEPT ![i] = @ + 1]

Failed(p) == score' = [score EXCEPT ![p] = (@ * 85) \div 100]

GivenUp(n) == n >= MaxAttempts

RequestFails(t) ==
    /\ Taken(t)
    /\ Failed(t.peer)
    /\ attempts' = Attempted(t.part)
    /\ IF GivenUp(attempts'[t.part])
       THEN pc' = "failed" /\ UNCHANGED pending
       ELSE pending' = Requeued(t.part) /\ pc' = NextPc
    /\ UNCHANGED <<store, got, damaged, faults>>

-----------------------------------------------------------------------------
(* reconstruct_to_path: the destination is opened, the blocks are read and  *)
(* written one after the other; a block that is gone ends it there, one     *)
(* that is being written is read short.                                    *)
Build ==
    /\ pc = "build" /\ passed < Len(HashOf)
    /\ dest' = Torn
    /\ LET block == store[HashOf[passed + 1]]
       IN  /\ IF block = Absent THEN pc' = "failed" /\ UNCHANGED Building
              ELSE /\ passed' = passed + 1
                   /\ intact' = (intact /\ block = Whole)
                   /\ UNCHANGED pc
           /\ damaged' = (damaged \/ block = Filling)
    /\ UNCHANGED <<Disk, holds, runs, faults, Loading>>

(* The destination cannot be opened, a block not read, or the destination   *)
(* not be written or flushed: it stays as far as it came.                  *)
BuildFails ==
    /\ pc = "build"
    /\ Fault
    /\ pc' = "failed" /\ damaged' = TRUE
    /\ dest' \in IF dest = Absent THEN {Absent, Torn} ELSE {dest}
    /\ UNCHANGED <<Disk, holds, runs, Loading, Building>>

(* Mutant: the hash of the file is not compared. *)
Accepted_always == TRUE

(* The hash of what was put together is that of the file. *)
Accepted == intact

(* What a prune leaves of the store. (RsCluster has its steps.) *)
Pruned == [h \in Hash |-> IF h \in Owned THEN store[h] ELSE Absent]

(* The file is done, its entry listed as complete and the store pruned. *)
Finish ==
    /\ pc = "build" /\ passed = Len(HashOf)
    /\ IF Accepted
       THEN /\ pc' = "done"
            /\ dest' = IF intact THEN Whole ELSE Torn
            /\ listed' = "yes"
            /\ store' = Pruned
       ELSE pc' = "failed" /\ UNCHANGED <<dest, store, listed>>
    /\ UNCHANGED <<found, World, Loading, Building>>

-----------------------------------------------------------------------------
Download == <<dest, pc, Loading, Building>>

(* write_block of the daemon's sync task, which has fetched a block this     *)
(* machine owns (of the file that is listed, or was when the task began):   *)
(* the block is not there,                                                  *)
DaemonFinds(h) ==
    /\ h \in Owned /\ listed # "bare"
    /\ store[h] = Absent
    /\ found' = found \cup {h}
    /\ UNCHANGED <<store, listed, World, Download>>

(* it is created, or cut to nothing if the TUI has written it meanwhile,     *)
DaemonCreates(h) ==
    /\ h \in found
    /\ found' = found \ {h}
    /\ store' = [store EXCEPT ![h] = Filling]
    /\ UNCHANGED <<listed, World, Download>>

(* and filled.                                                              *)
DaemonFills(h) ==
    /\ store[h] = Filling
    /\ store' = [store EXCEPT ![h] = Whole]
    /\ UNCHANGED <<found, listed, World, Download>>

(* The daemon is killed, or its disk is full, before the block is whole.    *)
DaemonStops(h) ==
    /\ store[h] = Filling
    /\ Fault
    /\ store' = [store EXCEPT ![h] = Torn] /\ damaged' = TRUE
    /\ UNCHANGED <<found, listed, holds, runs, Download>>

(* The file is deleted, by a peer through the daemon or by the user.        *)
Deleted ==
    /\ listed # "no"
    /\ Fault
    /\ listed' = "no"
    /\ store' = IF listed = "yes" THEN [h \in Hash |-> Absent] ELSE store
    /\ damaged' = (damaged \/ store' # store)
    /\ UNCHANGED <<found, holds, runs, Download>>

(* Another download of this machine ends and prunes the store.              *)
OtherPrunes ==
    /\ Fault
    /\ store' = Pruned
    /\ damaged' = (damaged \/ store' # store)
    /\ UNCHANGED <<found, listed, holds, runs, Download>>

(* The user lists the space and has the entry again. *)
Relisted ==
    /\ listed = "no"
    /\ listed' = "yes"
    /\ UNCHANGED <<store, found, World, Download>>

(* The TUI is killed, perhaps while it writes a block. *)
Kill ==
    /\ pc \notin {"idle", "done", "failed"}
    /\ Fault
    /\ pc' = "idle" /\ Fresh
    /\ \/ UNCHANGED store
       \/ \E t \in tasks : /\ HashOf[t.part] \in holds[t.peer] /\ store[HashOf[t.part]] = Absent
                           /\ store' = [store EXCEPT ![HashOf[t.part]] = Torn]
    /\ damaged' = (damaged \/ dest # Absent \/ store' # store)
    /\ UNCHANGED <<found, listed, dest, holds, runs>>

Result(t) ==
    BlockArrives(t) \/ WrongBlockArrives(t) \/ WriteFails(t) \/ RequestFails(t)

Next ==
    \/ Start \/ Entry \/ Have \/ Scan \/ Request \/ Build \/ BuildFails \/ Finish
    \/ \E t \in tasks : Stall(t) \/ Result(t)
    \/ Deleted \/ OtherPrunes \/ Relisted \/ Kill
    \/ \E h \in Hash : DaemonFinds(h) \/ DaemonCreates(h) \/ DaemonFills(h) \/ DaemonStops(h)

Spec == Init /\ [][Next]_vars

(* A task of the TUI goes on, and a request that does not stall returns (a  *)
(* connection that is refused or lost, the daemon's deadlines).            *)
LiveSpec ==
    /\ Spec
    /\ WF_vars(Entry) /\ WF_vars(Have) /\ WF_vars(Scan) /\ WF_vars(Request)
    /\ WF_vars(Build) /\ WF_vars(Finish)
    /\ WF_vars(\E t \in tasks : Result(t))
-----------------------------------------------------------------------------
(* Properties. *)

(* The scheduler loses nothing: each block of the file is queued, requested *)
(* or there, once, and a peer's load is the number of its requests.         *)
Accounted ==
    pc = "load" =>
        /\ Len(pending) + Cardinality(tasks) + Cardinality(got) = Len(HashOf)
        /\ {pending[k] : k \in 1..Len(pending)} \cup {t.part : t \in tasks} \cup got = Part
        /\ \A p \in Peer : inFlight[p] = Cardinality({t \in tasks : t.peer = p})

(* A download that says it is done has put the whole file in place, though  *)
(* peers send torn blocks, kills and failed writes leave some in the store, *)
(* and the daemon deletes and writes blocks under way.                      *)
SuccessWhole == pc = "done" => dest = Whole

(* A file that is cut short bars every later download of it ("Destination   *)
(* file already exists"). Peers that fail, stall or send torn blocks cannot *)
(* bring that about: it takes one of this machine's own doing, a kill, a     *)
(* deletion, a failed write or read, the prune of another download, or the  *)
(* daemon writing a block in the moment the TUI reads it.                   *)
OnlyLocalDamageSticks == dest = Torn /\ pc \in {"idle", "failed"} => damaged

(* "Failed to fetch RS block from peers": a block is given up when all its   *)
(* candidates have failed to send it. Not so when a peer that fails fast is *)
(* asked again and again while the others are busy with other blocks.       *)
AsksAllPeers ==
    [][\A i \in Part :
        attempts[i] < MaxAttempts /\ attempts'[i] >= MaxAttempts
        => tried[i] = Candidates(HashOf[i])]_vars

Over == pc \in {"idle", "done", "failed"}

(* A download comes to an end, whatever fails, if no connection stalls.     *)
EndsUnlessStalled == ~Over ~> Over \/ \E t \in tasks : t.stalled

(* The same with connections that stall: nothing ends the wait for them.    *)
Ends == ~Over ~> Over
=============================================================================
