---------------------------- MODULE P2PRequests ----------------------------
(***************************************************************************)
(* The request tables of the P2P service (p2p/service.rs).                 *)
(*                                                                         *)
(* A caller (an IPC client, the sync task, the renew task) sends a command *)
(* with a oneshot sender to the service loop and waits with a deadline of  *)
(* its own. The loop sends the request to the peer and files the sender    *)
(* under a key; what comes back is matched by key again:                   *)
(*  - zones, files, rsList, version: one waiter per peer;                  *)
(*  - file: an answer with only the file's name, matched with the end of   *)
(*    the waiters' "zone:name";                                            *)
(*  - fileMeta, chunk, rsMeta, block: one waiter per name, for all peers;  *)
(*  - have, binary: one waiter per peer and name;                          *)
(*  - blocks: by the id of the outbound request.                           *)
(* A name stands for all that the key has besides zone and peer (a file    *)
(* name, a name and an offset, a block hash). A file name may contain ':'  *)
(* (Ends); a zone name is taken not to.                                    *)
(*                                                                         *)
(* Abstractions: the command channel is a set, as the callers' sends can   *)
(* come in any order; a peer may answer or fail at any time; of requests   *)
(* without a waiter (announce, delete, ping) only the failure is kept.     *)
(***************************************************************************)
EXTENDS Naturals, FiniteSets

CONSTANTS Call,     (* calls of the service, each made once                *)
          Request,  (* the requests callers make                           *)
          Ends,     (* <<n, m>>: the file name n ends with ":" and m       *)
          NoRequest

PerPeer     == {"zones", "files", "rsList", "version"}
PerName     == {"fileMeta", "chunk", "rsMeta", "block"}
PerPeerName == {"have", "binary"}
Kinds       == PerPeer \cup PerName \cup PerPeerName \cup {"file", "blocks"}

(* Kinds whose answer tells the zone in the key. *)
Zoned == {"file", "fileMeta", "chunk"}

ASSUME RequestAssumption ==
    /\ \A r \in Request : r.kind \in Kinds /\ DOMAIN r = {"kind", "peer", "zone", "name"}
    /\ NoRequest \notin Request

VARIABLES
    req,     (* req[c]: what c asked for                                   *)
    status,  (* status[c]: "new", "waiting", "ok" or "failed"              *)
    answer,  (* answer[c]: the request whose answer c was given            *)
    queue,   (* calls whose command the loop has not handled               *)
    wire,    (* calls whose request is with the peer                       *)
    pending, (* the waiters: <<key, call>>, one per key                    *)
    ids,     (* pending_rs_block_ids, pending_rs_have_ids: <<call, key>>,  *)
             (* a call standing for the id of its outbound request         *)
    came     (* history: what has come back for c's request, "nothing" yet, *)
             (* its "answer", an "error" or its "failure"                  *)

vars == <<req, status, answer, queue, wire, pending, ids, came>>

(* Mutant: all waiters are filed under the peer asked, a block's under it alone. *)
Key_blockPerPeer(c) ==
    LET r == req[c]
    IN  IF r.kind = "block" THEN <<r.kind, r.peer>> ELSE <<r.kind, r.peer, r.name>>

(* The key of call c's request in its table. *)
Key(c) ==
    LET r == req[c]
    IN  CASE r.kind \in PerPeer     -> <<r.kind, r.peer>>
          [] r.kind = "blocks"      -> <<r.kind, c>>
          [] r.kind \in PerPeerName -> <<r.kind, r.peer, r.name>>
          [] r.kind \in Zoned       -> <<r.kind, r.zone, r.name>>
          [] OTHER                  -> <<r.kind, r.name>>

TypeOK ==
    /\ req \in [Call -> Request \cup {NoRequest}]
    /\ status \in [Call -> {"new", "waiting", "ok", "failed"}]
    /\ answer \in [Call -> Request \cup {NoRequest}]
    /\ queue \in SUBSET Call
    /\ wire \in SUBSET Call
    /\ \A p \in pending : p[2] \in Call /\ p[1] = Key(p[2])
    /\ \A p, q \in pending : p[1] = q[1] => p = q
    /\ \A i \in ids : i[1] \in Call /\ i[2] = Key(i[1])
    /\ came \in [Call -> {"nothing", "answer", "error", "failure"}]

Init ==
    /\ req = [c \in Call |-> NoRequest]
    /\ status = [c \in Call |-> "new"]
    /\ answer = [c \in Call |-> NoRequest]
    /\ queue = {}
    /\ wire = {}
    /\ pending = {}
    /\ ids = {}
    /\ came = [c \in Call |-> "nothing"]

-----------------------------------------------------------------------------
Waiters(keys) == {p[2] : p \in {q \in pending : q[1] \in keys}}

(* A dropped or answered sender ends the wait, if the caller still waits. *)
Resolved(calls, result) ==
    [c \in Call |-> IF c \in calls /\ status[c] = "waiting" THEN result ELSE status[c]]

(* The caller sends its command and starts to wait. *)
Ask(c, r) ==
    /\ status[c] = "new"
    /\ req' = [req EXCEPT ![c] = r]
    /\ status' = [status EXCEPT ![c] = "waiting"]
    /\ queue' = queue \cup {c}
    /\ UNCHANGED <<answer, wire, pending, ids, came>>

(* insert: the sender filed before under the same key is dropped. *)
Filed(c) == {p \in pending : p[1] # Key(c)} \cup {<<Key(c), c>>}

(* The loop sends the request and files the sender; a sender it overwrites *)
(* is dropped, which fails the older call.                                 *)
Handle(c) ==
    /\ c \in queue
    /\ queue' = queue \ {c}
    /\ wire' = wire \cup {c}
    /\ pending' = Filed(c)
    /\ status' = Resolved(Waiters({Key(c)}), "failed")
    /\ ids' = IF req[c].kind \in {"block", "have"} THEN ids \cup {<<c, Key(c)>>} ELSE ids
    /\ UNCHANGED <<req, answer, came>>

(* What comes for c's request has reached the loop. *)
Comes(c, what) ==
    /\ c \in wire
    /\ wire' = wire \ {c}
    /\ came' = [came EXCEPT ![c] = what]

(* The key k of a file, "zone:name", ends with ":" and the name n. *)
EndsWith(k, n) == k[1] = "file" /\ (k[3] = n \/ <<k[3], n>> \in Ends)

(* The tables' keys that the answer to c's request matches. *)
Matching(c) ==
    IF req[c].kind # "file" THEN {Key(c)}
    ELSE {k \in {p[1] : p \in pending} : EndsWith(k, req[c].name)}

(* The waiter k is given the answer to c's request. *)
Deliver(c, k) ==
    LET w == Waiters({k})
    IN  /\ pending' = {p \in pending : p[1] # k}
        /\ status' = Resolved(w, "ok")
        /\ answer' = [x \in Call |->
                        IF x \in w /\ status[x] = "waiting" THEN req[c] ELSE answer[x]]

(* Mutant: the ids of a block's requests are kept. *)
ForgetIds_never(c) == ids

(* A block's answer clears all ids asked for it; rs_have's is left behind. *)
ForgetIds(c) ==
    IF req[c].kind = "block" THEN {i \in ids : i[2] # Key(c)} ELSE ids

(* The peer's answer arrives; with no waiter it is dropped. *)
Answer(c) ==
    /\ Comes(c, "answer")
    /\ ids' = ForgetIds(c)
    /\ IF Matching(c) = {} THEN UNCHANGED <<pending, status, answer>>
       ELSE \E k \in Matching(c) : Deliver(c, k)
    /\ UNCHANGED <<req, queue>>

(* Mutant: an error is only routed for the blocks requests. *)
ErrorKeys_blocksOnly(c) == IF req[c].kind = "blocks" THEN {Key(c)} ELSE {}

(* The waiters an error answer is routed to: by the request id, for three  *)
(* kinds only.                                                             *)
ErrorKeys(c) ==
    IF req[c].kind = "blocks" THEN {Key(c)} ELSE {i[2] : i \in {j \in ids : j[1] = c}}

(* The peer answers with an error. *)
AnswerError(c) ==
    /\ Comes(c, "error")
    /\ status' = Resolved(Waiters(ErrorKeys(c)), "failed")
    /\ pending' = {p \in pending : p[1] \notin ErrorKeys(c)}
    /\ ids' = {i \in ids : i[1] # c}
    /\ UNCHANGED <<req, answer, queue>>

(* Every waiter but renew's is failed, whatever it waits for. *)
DrainTables ==
    LET drained == {p \in pending : p[1][1] \notin {"version", "binary"}}
    IN  /\ status' = Resolved({p[2] : p \in drained}, "failed")
        /\ pending' = pending \ drained
        /\ ids' = {}

(* The request fails: no connection, or 30 s without an answer. *)
RequestFails(c) ==
    /\ Comes(c, "failure")
    /\ DrainTables
    /\ UNCHANGED <<req, answer, queue>>

(* So does a request that nobody waits for: a ping to a peer that is gone, *)
(* an announcement.                                                        *)
OtherFails == DrainTables /\ UNCHANGED <<req, answer, queue, wire, came>>

(* The caller's own deadline passes; its sender stays filed. *)
Timeout(c) ==
    /\ status[c] = "waiting"
    /\ status' = [status EXCEPT ![c] = "failed"]
    /\ UNCHANGED <<req, answer, queue, wire, pending, ids, came>>

Next ==
    \/ \E c \in Call :
        \/ \E r \in Request : Ask(c, r)
        \/ Handle(c)
        \/ Answer(c)
        \/ AnswerError(c)
        \/ RequestFails(c)
        \/ Timeout(c)
    \/ OtherFails

Spec == Init /\ [][Next]_vars

-----------------------------------------------------------------------------
(* Properties. *)

(* "List files in a remote zone", "fetch file metadata from a remote peer": *)
(* a caller is given the answer to a request like its own, from the peer    *)
(* it asked.                                                                *)
RightAnswer == \A c \in Call : status[c] = "ok" => answer[c] = req[c]

(* The block a caller is given is the block it asked for, whoever sent it;  *)
(* a list or a version is that of the peer it asked; a file has the name    *)
(* asked for or, if that contains ':', the part of it behind one.           *)
RightContent ==
    \A c \in Call : status[c] = "ok" =>
        /\ answer[c].kind = req[c].kind
        /\ CASE req[c].kind \in PerPeer -> answer[c].peer = req[c].peer
             [] req[c].kind = "file" ->
                    \/ answer[c].name = req[c].name
                    \/ <<req[c].name, answer[c].name>> \in Ends
             [] OTHER -> answer[c].name = req[c].name

(* What came for c's request is meant for a caller of c's key: an answer    *)
(* whose key is c's own, an error of a request whose id is kept, a failure  *)
(* of whatever waits but renew's requests.                                  *)
Told(c) ==
    \/ came[c] = "answer" /\ req[c].kind # "file"
    \/ came[c] = "error" /\ req[c].kind \in {"block", "blocks", "have"}
    \/ came[c] = "failure" /\ req[c].kind \notin {"version", "binary"}

(* A caller no longer waits when the answer to its request has come (but a  *)
(* file's, which may go to another caller's key), when an error has come    *)
(* for its block, blocks or have request, or when its request has failed    *)
(* (renew's go on to their deadline): overwritten waiters, shared keys and  *)
(* ids cleared by another's answer included. An error in answer to any      *)
(* other request, rs_list and rs_get_meta among them, reaches no waiter.    *)
AnsweredReturns == \A c \in Call : Told(c) => status[c] # "waiting"

(* The loop keeps no id of a block request that is over. (Of an rs_have     *)
(* request that was answered it does, until the next failure.)             *)
NoStaleIds == \A i \in ids : req[i[1]].kind = "block" => i[1] \in wire
=============================================================================
