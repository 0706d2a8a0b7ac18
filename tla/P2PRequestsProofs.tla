-------------------------- MODULE P2PRequestsProofs --------------------------
(***************************************************************************)
(* Proofs about P2PRequests, for any number of calls and any requests: who  *)
(* is given an answer is given one of its kind and name (RightContent), a   *)
(* caller does not wait on after an answer, an error or a failure that is   *)
(* meant for its key (AnsweredReturns), and no id of a block request        *)
(* outlives the request (NoStaleIds).                                       *)
(*                                                                         *)
(* The invariant ties the three records of a call together: as long as it   *)
(* waits and its command has been handled, its sender is filed under its    *)
(* key and, for the kinds that have one, its id leads to that key (Filing).  *)
(* Whatever takes an entry out of a table resolves its waiter in that step. *)
(***************************************************************************)
EXTENDS P2PRequests, TLAPS

HasId == {"block", "have"}

Shape ==
    /\ req \in [Call -> Request \cup {NoRequest}]
    /\ status \in [Call -> {"new", "waiting", "ok", "failed"}]
    /\ DOMAIN answer = Call
    /\ queue \subseteq Call /\ wire \subseteq Call
    /\ DOMAIN came = Call

(* A call that has not been made has left no trace; one that has been made   *)
(* has a request, and something has come for it only if it is nowhere else. *)
Fresh ==
    /\ \A c \in Call : status[c] # "new" => req[c] \in Request
    /\ \A c \in queue \cup wire : status[c] # "new"
    /\ queue \cap wire = {}
    /\ \A c \in Call : came[c] # "nothing" => status[c] # "new" /\ c \notin queue \cup wire

PendingKeys ==
    \A p \in pending : p[2] \in Call /\ p = <<Key(p[2]), p[2]>> /\ status[p[2]] # "new"

IdKeys ==
    \A i \in ids :
        /\ i[1] \in Call /\ i = <<i[1], Key(i[1])>> /\ status[i[1]] # "new"
        /\ req[i[1]].kind \in HasId
        /\ req[i[1]].kind = "block" => i[1] \in wire

Filing ==
    \A c \in Call : status[c] = "waiting" /\ c \notin queue =>
        /\ <<Key(c), c>> \in pending
        /\ req[c].kind \in HasId => <<c, Key(c)>> \in ids

Inv == /\ Shape /\ Fresh /\ PendingKeys /\ IdKeys /\ Filing
       /\ RightContent /\ AnsweredReturns

-----------------------------------------------------------------------------
(* The keys. *)

LEMMA KeyForm ==
    ASSUME NEW c \in Call, req[c] \in Request
    PROVE  /\ req[c].kind \in Kinds
           /\ Key(c)[1] = req[c].kind
           /\ req[c].kind \in PerPeer => Key(c) = <<req[c].kind, req[c].peer>>
           /\ req[c].kind = "blocks" => Key(c) = <<req[c].kind, c>>
           /\ req[c].kind \in PerPeerName => Key(c) = <<req[c].kind, req[c].peer, req[c].name>>
           /\ req[c].kind \in Zoned => Key(c) = <<req[c].kind, req[c].zone, req[c].name>>
           /\ req[c].kind \in {"rsMeta", "block"} => Key(c) = <<req[c].kind, req[c].name>>
<1>1. req[c].kind \in Kinds
  BY RequestAssumption
<1>2. CASE req[c].kind \in PerPeer
  BY <1>1, <1>2 DEF Key, PerPeer, PerPeerName, Zoned
<1>3. CASE req[c].kind = "blocks"
  BY <1>1, <1>3 DEF Key, PerPeer, PerPeerName, Zoned
<1>4. CASE req[c].kind \in PerPeerName
  BY <1>1, <1>4 DEF Key, PerPeer, PerPeerName, Zoned
<1>5. CASE req[c].kind \in Zoned
  BY <1>1, <1>5 DEF Key, PerPeer, PerPeerName, Zoned
<1>6. CASE req[c].kind \in {"rsMeta", "block"}
  BY <1>1, <1>6 DEF Key, PerPeer, PerPeerName, Zoned
<1> QED
  BY <1>1, <1>2, <1>3, <1>4, <1>5, <1>6 DEF Kinds, PerPeer, PerName, PerPeerName, Zoned

(* Two calls under one key have asked for the same thing. *)
Alike(c, d) ==
    /\ req[c].kind = req[d].kind
    /\ IF req[d].kind \in PerPeer THEN req[c].peer = req[d].peer
       ELSE req[c].name = req[d].name

(* The answer to r may be given to d: that is what RightContent says of them. *)
Fits(r, d) ==
    /\ r.kind = req[d].kind
    /\ CASE req[d].kind \in PerPeer -> r.peer = req[d].peer
         [] req[d].kind = "file" -> r.name = req[d].name \/ <<req[d].name, r.name>> \in Ends
         [] OTHER -> r.name = req[d].name

LEMMA SameKey ==
    ASSUME NEW c \in Call, NEW d \in Call, req[c] \in Request, req[d] \in Request,
           Key(c) = Key(d)
    PROVE  Alike(c, d)
<1>1. req[c].kind = req[d].kind
  BY KeyForm
<1>2. CASE req[d].kind \in PerPeer
  BY <1>1, <1>2, KeyForm DEF Alike
<1>3. CASE req[d].kind = "blocks"
  BY <1>1, <1>3, KeyForm DEF Alike, PerPeer
<1>4. CASE req[d].kind \in PerPeerName
  <2>1. req[c].name = Key(c)[3] /\ req[d].name = Key(d)[3]
    BY <1>1, <1>4, KeyForm
  <2> QED
    BY <1>1, <1>4, <2>1 DEF Alike, PerPeer, PerPeerName
<1>5. CASE req[d].kind \in Zoned
  <2>1. req[c].name = Key(c)[3] /\ req[d].name = Key(d)[3]
    BY <1>1, <1>5, KeyForm
  <2> QED
    BY <1>1, <1>5, <2>1 DEF Alike, PerPeer, Zoned
<1>6. CASE req[d].kind \in {"rsMeta", "block"}
  <2>1. req[c].name = Key(c)[2] /\ req[d].name = Key(d)[2]
    BY <1>1, <1>6, KeyForm
  <2> QED
    BY <1>1, <1>6, <2>1 DEF Alike, PerPeer
<1> QED
  BY <1>2, <1>3, <1>4, <1>5, <1>6, KeyForm DEF Kinds, PerPeer, PerName, PerPeerName, Zoned

(* A waiter that c's answer matches has asked for something that c's fits. *)
LEMMA MatchAlike ==
    ASSUME Inv, NEW c \in wire, NEW k \in Matching(c), NEW d \in Waiters({k})
    PROVE  d \in Call /\ status[d] # "new" /\ Key(d) = k /\ Fits(req[c], d)
<1>1. d \in Call /\ status[d] # "new" /\ Key(d) = k
  BY DEF Waiters, Inv, PendingKeys
<1>2. c \in Call /\ req[c] \in Request /\ req[d] \in Request
  BY <1>1 DEF Inv, Shape, Fresh
<1>3. CASE req[c].kind # "file"
  <2>1. Key(c) = Key(d)
    BY <1>1, <1>3 DEF Matching
  <2>2. Alike(c, d)
    BY <1>1, <1>2, <2>1, SameKey
  <2> QED
    BY <1>1, <1>3, <2>2 DEF Alike, Fits
<1>4. CASE req[c].kind = "file"
  <2>1. k[1] = "file" /\ (k[3] = req[c].name \/ <<k[3], req[c].name>> \in Ends)
    BY <1>4 DEF Matching, EndsWith
  <2>2. req[d].kind = "file"
    BY <1>1, <1>2, <2>1, KeyForm
  <2>3. Key(d)[3] = req[d].name
    BY <1>2, <1>1, <2>2, KeyForm DEF Zoned
  <2> QED
    BY <1>1, <1>2, <1>4, <2>1, <2>2, <2>3 DEF Fits, PerPeer
<1> QED
  BY <1>1, <1>3, <1>4

(* Given an answer that fits, a call has the content it asked for. *)
LEMMA ContentFits ==
    RightContent <=> \A d \in Call : status[d] = "ok" => Fits(answer[d], d)
  BY DEF RightContent, Fits

-----------------------------------------------------------------------------
LEMMA InitInv == Init => Inv
  BY DEF Init, Inv, Shape, Fresh, PendingKeys, IdKeys, Filing, RightContent,
         AnsweredReturns, Told

(* The keys depend on the requests only. *)
LEMMA KeyStable ==
    ASSUME req' = req
    PROVE  /\ \A c : Key(c)' = Key(c)
  BY DEF Key

(* What a resolution does to the states of the calls. *)
LEMMA Resolution ==
    ASSUME Shape, NEW W, NEW result \in {"ok", "failed"}, status' = Resolved(W, result)
    PROVE  /\ status' \in [Call -> {"new", "waiting", "ok", "failed"}]
           /\ \A c \in Call :
                /\ status'[c] = "new" <=> status[c] = "new"
                /\ status'[c] = "waiting" <=> status[c] = "waiting" /\ c \notin W
                /\ status'[c] = "ok" =>
                     status[c] = "ok" \/ (result = "ok" /\ c \in W /\ status[c] = "waiting")
                /\ status[c] # "waiting" => status'[c] = status[c]
  BY DEF Shape, Resolved

(* A call that waits and has been handled is the waiter of its key. *)
LEMMA WaiterOfKey ==
    ASSUME Inv, NEW c \in Call, status[c] = "waiting", c \notin queue, NEW K, Key(c) \in K
    PROVE  c \in Waiters(K)
<1> DEFINE p == <<Key(c), c>>
<1>1. p \in pending
  BY DEF Inv, Filing
<1>2. p[1] \in K /\ p[2] = c
  OBVIOUS
<1>3. p \in {q \in pending : q[1] \in K}
  BY <1>1, <1>2
<1> HIDE DEF p
<1> QED
  BY <1>2, <1>3 DEF Waiters

LEMMA AskInv ==
    ASSUME Inv, NEW c \in Call, NEW r \in Request, Ask(c, r)
    PROVE  Inv'
<1>1. /\ req' = [req EXCEPT ![c] = r] /\ status' = [status EXCEPT ![c] = "waiting"]
      /\ status[c] = "new" /\ queue' = queue \cup {c}
      /\ UNCHANGED <<answer, wire, pending, ids, came>>
  BY DEF Ask
<1>2. \A d \in Call \ {c} : req'[d] = req[d] /\ status'[d] = status[d] /\ Key(d)' = Key(d)
  BY <1>1 DEF Inv, Shape, Key
<1>3. status'[c] = "waiting" /\ req'[c] = r
  BY <1>1 DEF Inv, Shape
<1>4. Shape' /\ Fresh'
  BY <1>1, <1>2, <1>3 DEF Inv, Shape, Fresh
<1>5. PendingKeys' /\ IdKeys'
  BY <1>1, <1>2 DEF Inv, PendingKeys, IdKeys
<1>6. Filing'
  BY <1>1, <1>2 DEF Inv, Filing
<1>7. RightContent'
  BY <1>1, <1>2, <1>3 DEF Inv, RightContent
<1>8. AnsweredReturns'
  BY <1>1, <1>2 DEF Inv, Fresh, AnsweredReturns, Told
<1> QED
  BY <1>4, <1>5, <1>6, <1>7, <1>8 DEF Inv

(* c's sender replaces the one filed under its key, whose call fails. *)
LEMMA HandleInv ==
    ASSUME Inv, NEW c \in Call, Handle(c)
    PROVE  Inv'
<1>1. /\ c \in queue /\ queue' = queue \ {c} /\ wire' = wire \cup {c}
      /\ pending' = {p \in pending : p[1] # Key(c)} \cup {<<Key(c), c>>}
      /\ ids' = IF req[c].kind \in HasId THEN ids \cup {<<c, Key(c)>>} ELSE ids
      /\ req' = req /\ answer' = answer /\ came' = came
      /\ status' = Resolved(Waiters({Key(c)}), "failed")
  BY DEF Handle, Filed, HasId
<1>2. \A d : Key(d)' = Key(d)
  BY <1>1, KeyStable
<1>3. /\ status' \in [Call -> {"new", "waiting", "ok", "failed"}]
      /\ \A d \in Call :
           /\ status'[d] = "new" <=> status[d] = "new"
           /\ status'[d] = "waiting" <=> status[d] = "waiting" /\ d \notin Waiters({Key(c)})
           /\ status'[d] = "ok" => status[d] = "ok"
  BY <1>1, Resolution DEF Inv
<1>4. Shape' /\ Fresh'
  BY <1>1, <1>3 DEF Inv, Shape, Fresh
<1>5. PendingKeys'
  BY <1>1, <1>2, <1>3 DEF Inv, Fresh, PendingKeys
<1>6. IdKeys'
  <2> SUFFICES ASSUME NEW i \in ids'
               PROVE  /\ i[1] \in Call /\ i = <<i[1], Key(i[1])>> /\ status'[i[1]] # "new"
                      /\ req[i[1]].kind \in HasId
                      /\ req[i[1]].kind = "block" => i[1] \in wire'
    BY <1>1, <1>2 DEF IdKeys
  <2>1. CASE i \in ids
    BY <1>1, <1>3, <2>1 DEF Inv, IdKeys
  <2>2. CASE i = <<c, Key(c)>> /\ req[c].kind \in HasId
    <3>1. i[1] = c /\ i[2] = Key(c)
      BY <2>2
    <3> QED
      BY <1>1, <1>3, <2>2, <3>1 DEF Inv, Fresh
  <2> QED
    BY <1>1, <2>1, <2>2
<1>7. Filing'
  <2> SUFFICES ASSUME NEW d \in Call, status'[d] = "waiting", d \notin queue'
               PROVE  /\ <<Key(d), d>> \in pending'
                      /\ req[d].kind \in HasId => <<d, Key(d)>> \in ids'
    BY <1>1, <1>2 DEF Filing
  <2>1. CASE d = c
    BY <1>1, <2>1
  <2>2. CASE d # c
    <3>1. status[d] = "waiting" /\ d \notin queue /\ d \notin Waiters({Key(c)})
      BY <1>1, <1>3, <2>2
    <3>2. Key(d) # Key(c)
      BY <3>1, WaiterOfKey
    <3> QED
      BY <1>1, <3>1, <3>2 DEF Inv, Filing
  <2> QED
    BY <2>1, <2>2
<1>8. RightContent'
  BY <1>1, <1>3 DEF Inv, RightContent
<1>9. AnsweredReturns'
  BY <1>1, <1>3 DEF Inv, AnsweredReturns, Told
<1> QED
  BY <1>4, <1>5, <1>6, <1>7, <1>8, <1>9 DEF Inv

(* An answer clears the one key it is given to, and the ids that lead there. *)
LEMMA AnswerInv ==
    ASSUME Inv, NEW c \in Call, Answer(c)
    PROVE  Inv'
<1>1. /\ c \in wire /\ wire' = wire \ {c} /\ ids' = ForgetIds(c)
      /\ req' = req /\ queue' = queue /\ came' = [came EXCEPT ![c] = "answer"]
  BY DEF Answer, Comes
<1>c. /\ DOMAIN came' = Call /\ came'[c] = "answer"
      /\ \A d \in Call \ {c} : came'[d] = came[d]
      /\ c \notin queue'
  BY <1>1 DEF Inv, Shape, Fresh
<1>2. \A d : Key(d)' = Key(d)
  BY <1>1, KeyStable
<1>3. ids' \subseteq ids /\ \A i \in ids : i \notin ids' => req[c].kind = "block" /\ i[2] = Key(c)
  BY <1>1 DEF ForgetIds
<1>4. \A i \in ids' : req[i[1]].kind = "block" => i[1] \in wire'
  <2> SUFFICES ASSUME NEW i \in ids', req[i[1]].kind = "block" PROVE i[1] \in wire'
    OBVIOUS
  <2>1. i \in ids /\ i[1] \in wire /\ i = <<i[1], Key(i[1])>>
    BY <1>3 DEF Inv, IdKeys
  <2>2. i[1] # c
    BY <1>1, <2>1 DEF ForgetIds
  <2> QED
    BY <1>1, <2>1, <2>2
<1>5. CASE Matching(c) = {}
  <2>1. req[c].kind = "file" /\ UNCHANGED <<pending, status, answer>>
    BY <1>5 DEF Answer, Matching
  <2>2. ids' = ids
    BY <1>1, <2>1 DEF ForgetIds
  <2>3. Shape' /\ Fresh' /\ PendingKeys' /\ RightContent'
    BY <1>1, <1>c, <1>2, <2>1 DEF Inv, Shape, Fresh, PendingKeys, RightContent
  <2>4. IdKeys'
    BY <1>1, <1>2, <1>4, <2>1, <2>2 DEF Inv, IdKeys
  <2>5. Filing'
    BY <1>1, <1>2, <2>1, <2>2 DEF Inv, Filing
  <2>6. AnsweredReturns'
    BY <1>1, <1>c, <2>1 DEF Inv, AnsweredReturns, Told
  <2> QED
    BY <2>3, <2>4, <2>5, <2>6 DEF Inv
<1>6. ASSUME NEW k \in Matching(c), Deliver(c, k) PROVE Inv'
  <2> DEFINE W == Waiters({k})
  <2>1. /\ pending' = {p \in pending : p[1] # k}
        /\ status' = Resolved(W, "ok")
        /\ answer' = [x \in Call |-> IF x \in W /\ status[x] = "waiting" THEN req[c] ELSE answer[x]]
    BY <1>6 DEF Deliver
  <2>2. /\ status' \in [Call -> {"new", "waiting", "ok", "failed"}]
        /\ \A d \in Call :
             /\ status'[d] = "new" <=> status[d] = "new"
             /\ status'[d] = "waiting" <=> status[d] = "waiting" /\ d \notin W
             /\ status'[d] = "ok" => status[d] = "ok" \/ (d \in W /\ status[d] = "waiting")
    BY <2>1, Resolution DEF Inv
  <2>3. Shape' /\ Fresh' /\ PendingKeys'
    BY <1>1, <1>c, <1>2, <2>1, <2>2 DEF Inv, Shape, Fresh, PendingKeys
  <2>4. IdKeys'
    BY <1>1, <1>2, <1>3, <1>4, <2>2 DEF Inv, IdKeys
  <2>5. Filing'
    <3> SUFFICES ASSUME NEW d \in Call, status'[d] = "waiting", d \notin queue
                 PROVE  /\ <<Key(d), d>> \in pending'
                        /\ req[d].kind \in HasId => <<d, Key(d)>> \in ids'
      BY <1>1, <1>2 DEF Filing
    <3>1. status[d] = "waiting" /\ d \notin W
      BY <2>2
    <3>2. Key(d) # k
      BY <3>1, WaiterOfKey
    <3>3. req[c].kind # "file" => k = Key(c)
      BY <1>6 DEF Matching
    <3>4. req[d].kind \in HasId => <<d, Key(d)>> \in ids'
      <4>1. req[d].kind \in HasId => <<d, Key(d)>> \in ids
        BY <3>1 DEF Inv, Filing
      <4> QED
        BY <1>3, <3>2, <3>3, <4>1
    <3> QED
      BY <1>1, <2>1, <3>1, <3>2, <3>4 DEF Inv, Filing
  <2>6. RightContent'
    <3>1. \A d \in Call : status'[d] = "ok" => Fits(answer'[d], d)
      <4> SUFFICES ASSUME NEW d \in Call, status'[d] = "ok"
                   PROVE  Fits(answer'[d], d)
        OBVIOUS
      <4>1. CASE d \in W /\ status[d] = "waiting"
        <5>1. answer'[d] = req[c]
          BY <2>1, <4>1
        <5> QED
          BY <1>1, <1>6, <4>1, <5>1, MatchAlike
      <4>2. CASE ~(d \in W /\ status[d] = "waiting")
        <5>1. answer'[d] = answer[d] /\ status[d] = "ok"
          BY <2>1, <2>2, <4>2
        <5> QED
          BY <5>1, ContentFits DEF Inv
      <4> QED
        BY <4>1, <4>2
    <3> QED
      BY <1>1, <3>1 DEF RightContent, Fits
  <2>7. AnsweredReturns'
    <3> SUFFICES ASSUME NEW d \in Call, Told(d)' PROVE status'[d] # "waiting"
      BY DEF AnsweredReturns
    <3>1. CASE d = c
      <4>1. k = Key(c) /\ c \notin queue
        BY <1>1, <1>c, <1>6, <3>1 DEF Told, Matching
      <4>2. status[c] = "waiting" => c \in W
        BY <4>1, WaiterOfKey
      <4> QED
        BY <2>2, <3>1, <4>2
    <3>2. CASE d # c
      BY <1>1, <1>c, <2>2, <3>2 DEF Inv, AnsweredReturns, Told
    <3> QED
      BY <3>1, <3>2
  <2> QED
    BY <2>3, <2>4, <2>5, <2>6, <2>7 DEF Inv
<1> QED
  BY <1>5, <1>6 DEF Answer

-----------------------------------------------------------------------------
(* Taking the entries of some keys out of a table, and failing their waiters. *)
LEMMA ClearedInv ==
    ASSUME Inv, NEW K, NEW c \in Call,
           req' = req, answer' = answer, queue' = queue,
           wire' = wire \/ (wire' = wire \ {c} /\ c \in wire),
           came' = came \/ (\E w : came' = [came EXCEPT ![c] = w] /\ c \in wire \ wire'),
           status' = Resolved(Waiters(K), "failed"),
           pending' = {p \in pending : p[1] \notin K},
           ids' \subseteq ids,
           \A i \in ids' : req[i[1]].kind = "block" => i[1] \in wire',
           \A d \in Call : <<d, Key(d)>> \in ids \ ids' => Key(d) \in K \/ status[d] # "waiting"
                                                               \/ d \in queue,
           Told(c)' /\ ~Told(c) /\ status[c] = "waiting" => Key(c) \in K
    PROVE  Inv'
<1>1. \A d : Key(d)' = Key(d)
  BY KeyStable
<1>2. /\ status' \in [Call -> {"new", "waiting", "ok", "failed"}]
      /\ \A d \in Call :
           /\ status'[d] = "new" <=> status[d] = "new"
           /\ status'[d] = "waiting" <=> status[d] = "waiting" /\ d \notin Waiters(K)
           /\ status'[d] = "ok" => status[d] = "ok"
  BY Resolution DEF Inv
<1>c. /\ DOMAIN came' = Call
      /\ \A d \in Call \ {c} : came'[d] = came[d]
      /\ came'[c] # came[c] => c \notin queue' \cup wire' /\ status[c] # "new"
  BY DEF Inv, Shape, Fresh
<1>3. Shape' /\ Fresh' /\ RightContent'
  BY <1>2, <1>c DEF Inv, Shape, Fresh, RightContent
<1>4. PendingKeys'
  BY <1>1, <1>2 DEF Inv, PendingKeys
<1>5. IdKeys'
  BY <1>1, <1>2 DEF Inv, IdKeys
<1>6. Filing'
  <2> SUFFICES ASSUME NEW d \in Call, status'[d] = "waiting", d \notin queue
               PROVE  /\ <<Key(d), d>> \in pending'
                      /\ req[d].kind \in HasId => <<d, Key(d)>> \in ids'
    BY <1>1 DEF Filing
  <2>1. status[d] = "waiting" /\ d \notin Waiters(K)
    BY <1>2
  <2>2. Key(d) \notin K
    BY <2>1, WaiterOfKey
  <2>3. /\ <<Key(d), d>> \in pending
        /\ req[d].kind \in HasId => <<d, Key(d)>> \in ids
    BY <2>1 DEF Inv, Filing
  <2>4. <<Key(d), d>> \in pending'
    BY <2>2, <2>3
  <2>5. req[d].kind \in HasId => <<d, Key(d)>> \in ids'
    BY <2>1, <2>2, <2>3
  <2> QED
    BY <2>4, <2>5
<1>7. AnsweredReturns'
  <2> SUFFICES ASSUME NEW d \in Call, Told(d)' PROVE status'[d] # "waiting"
    BY DEF AnsweredReturns
  <2>1. CASE Told(d)
    BY <1>2, <2>1 DEF Inv, AnsweredReturns
  <2>2. CASE ~Told(d)
    <3>1. d = c /\ came'[c] # came[c]
      BY <1>c, <2>2 DEF Told
    <3>2. c \notin queue /\ (status[c] = "waiting" => Key(c) \in K)
      BY <1>c, <2>2, <3>1
    <3>3. status[c] = "waiting" => c \in Waiters(K)
      BY <3>2, WaiterOfKey
    <3> QED
      BY <1>2, <3>1, <3>3
  <2> QED
    BY <2>1, <2>2
<1> QED
  BY <1>3, <1>4, <1>5, <1>6, <1>7 DEF Inv

LEMMA AnswerErrorInv ==
    ASSUME Inv, NEW c \in Call, AnswerError(c)
    PROVE  Inv'
<1> DEFINE K == ErrorKeys(c)
<1>1. /\ c \in wire /\ wire' = wire \ {c}
      /\ status' = Resolved(Waiters(K), "failed")
      /\ pending' = {p \in pending : p[1] \notin K}
      /\ ids' = {i \in ids : i[1] # c}
      /\ req' = req /\ answer' = answer /\ queue' = queue
      /\ came' = [came EXCEPT ![c] = "error"]
  BY DEF AnswerError, Comes
<1>2. <<c, Key(c)>> \in ids => Key(c) \in K
  <2>1. ASSUME <<c, Key(c)>> \in ids, req[c].kind # "blocks" PROVE Key(c) \in K
    <3> DEFINE i == <<c, Key(c)>>
    <3>1. i[1] = c /\ i[2] = Key(c)
      OBVIOUS
    <3>2. i \in {j \in ids : j[1] = c}
      BY <2>1, <3>1
    <3> HIDE DEF i
    <3> QED
      BY <2>1, <3>1, <3>2 DEF ErrorKeys
  <2> QED
    BY <2>1 DEF ErrorKeys
<1>3. \A d \in Call : <<d, Key(d)>> \in ids \ ids' => Key(d) \in K
  <2> SUFFICES ASSUME NEW d \in Call, <<d, Key(d)>> \in ids \ ids' PROVE Key(d) \in K
    OBVIOUS
  <2>1. d = c
    BY <1>1
  <2> QED
    BY <1>2, <2>1
<1>4. Told(c)' /\ ~Told(c) /\ status[c] = "waiting" => Key(c) \in K
  <2>1. req[c].kind = "blocks" => Key(c) \in K
    BY DEF ErrorKeys
  <2>2. req[c].kind \in HasId /\ status[c] = "waiting" => <<c, Key(c)>> \in ids
    BY <1>1 DEF Inv, Filing, Fresh
  <2>3. Told(c)' => req[c].kind = "blocks" \/ req[c].kind \in HasId
    BY <1>1 DEF Told, HasId, Inv, Shape
  <2> QED
    BY <1>2, <2>1, <2>2, <2>3
<1>5. \A i \in ids' : req[i[1]].kind = "block" => i[1] \in wire'
  BY <1>1 DEF Inv, IdKeys
<1> HIDE DEF K
<1> QED
  BY <1>1, <1>3, <1>4, <1>5, ClearedInv

(* A failure empties the tables of everything but renew's two kinds. *)
LEMMA DrainInv ==
    ASSUME Inv, NEW c \in Call, DrainTables, req' = req, answer' = answer, queue' = queue,
           \/ wire' = wire /\ came' = came
           \/ wire' = wire \ {c} /\ c \in wire /\ came' = [came EXCEPT ![c] = "failure"]
    PROVE  Inv'
<1> DEFINE drained == {p \in pending : p[1][1] \notin {"version", "binary"}}
           K == {p[1] : p \in drained}
<1>1. /\ status' = Resolved({p[2] : p \in drained}, "failed")
      /\ pending' = pending \ drained /\ ids' = {}
  BY DEF DrainTables
<1>2. pending' = {p \in pending : p[1] \notin K}
  BY <1>1
<1>3. {p[2] : p \in drained} = Waiters(K)
  BY DEF Waiters
<1>4. \A d \in Call : status[d] = "waiting" /\ d \notin queue /\ req[d].kind \notin {"version", "binary"}
                         => Key(d) \in K
  <2> SUFFICES ASSUME NEW d \in Call, status[d] = "waiting", d \notin queue,
                      req[d].kind \notin {"version", "binary"}
               PROVE  Key(d) \in K
    OBVIOUS
  <2> DEFINE p == <<Key(d), d>>
  <2>1. p \in pending /\ req[d] \in Request
    BY DEF Inv, Filing, Fresh
  <2>2. p[1] = Key(d) /\ Key(d)[1] = req[d].kind
    BY <2>1, KeyForm
  <2> HIDE DEF p
  <2>3. p \in drained
    BY <2>1, <2>2
  <2> QED
    BY <2>2, <2>3
<1>5. \A d \in Call : <<d, Key(d)>> \in ids =>
        Key(d) \in K \/ status[d] # "waiting" \/ d \in queue
  <2> SUFFICES ASSUME NEW d \in Call, <<d, Key(d)>> \in ids
               PROVE  Key(d) \in K \/ status[d] # "waiting" \/ d \in queue
    OBVIOUS
  <2>1. req[d].kind \in HasId
    <3> DEFINE i == <<d, Key(d)>>
    <3>1. i[1] = d /\ i \in ids
      OBVIOUS
    <3> HIDE DEF i
    <3> QED
      BY <3>1 DEF Inv, IdKeys
  <2> QED
    BY <1>4, <2>1 DEF HasId
<1>6. status' = Resolved(Waiters(K), "failed")
  BY <1>1, <1>3
<1>7. \A d \in Call : <<d, Key(d)>> \in ids \ ids' =>
        Key(d) \in K \/ status[d] # "waiting" \/ d \in queue
  BY <1>5
<1>8. Told(c)' /\ ~Told(c) /\ status[c] = "waiting" => Key(c) \in K
  <2>1. Told(c)' /\ ~Told(c) =>
          req[c].kind \notin {"version", "binary"} /\ c \in wire
    BY DEF Told, Inv, Shape
  <2> QED
    BY <1>4, <2>1 DEF Inv, Fresh
<1>9. ids' \subseteq ids /\ \A i \in ids' : req[i[1]].kind = "block" => i[1] \in wire'
  BY <1>1
<1> HIDE DEF K, drained
<1> QED
  BY <1>2, <1>6, <1>7, <1>8, <1>9, ClearedInv

LEMMA TimeoutInv ==
    ASSUME Inv, NEW c \in Call, Timeout(c)
    PROVE  Inv'
<1>1. /\ status[c] = "waiting" /\ status' = [status EXCEPT ![c] = "failed"]
      /\ UNCHANGED <<req, answer, queue, wire, pending, ids, came>>
  BY DEF Timeout
<1>2. \A d : Key(d)' = Key(d)
  BY <1>1, KeyStable
<1>3. \A d \in Call :
        /\ status'[d] = "new" <=> status[d] = "new"
        /\ status'[d] \in {"waiting", "ok"} => status'[d] = status[d]
  BY <1>1 DEF Inv, Shape
<1>4. Shape' /\ Fresh'
  BY <1>1, <1>3 DEF Inv, Shape, Fresh
<1>5. PendingKeys'
  BY <1>1, <1>2, <1>3 DEF Inv, PendingKeys
<1>6. IdKeys'
  BY <1>1, <1>2, <1>3 DEF Inv, IdKeys
<1>7. Filing'
  BY <1>1, <1>2, <1>3 DEF Inv, Filing
<1>8. RightContent'
  BY <1>1, <1>3 DEF Inv, RightContent
<1>9. AnsweredReturns'
  BY <1>1, <1>3 DEF Inv, AnsweredReturns, Told
<1> QED
  BY <1>4, <1>5, <1>6, <1>7, <1>8, <1>9 DEF Inv

LEMMA StutterInv ==
    ASSUME Inv, UNCHANGED vars
    PROVE  Inv'
<1>1. \A d : Key(d)' = Key(d)
  BY KeyStable DEF vars
<1> QED
  BY <1>1 DEF vars, Inv, Shape, Fresh, PendingKeys, IdKeys, Filing, RightContent,
              AnsweredReturns, Told

LEMMA StepInv == Inv /\ [Next]_vars => Inv'
<1> SUFFICES ASSUME Inv, [Next]_vars PROVE Inv'
  OBVIOUS
<1>1. CASE UNCHANGED vars
  BY <1>1, StutterInv
<1>2. ASSUME NEW c \in Call, NEW r \in Request, Ask(c, r) PROVE Inv'
  BY <1>2, AskInv
<1>3. ASSUME NEW c \in Call, Handle(c) PROVE Inv'
  BY <1>3, HandleInv
<1>4. ASSUME NEW c \in Call, Answer(c) PROVE Inv'
  BY <1>4, AnswerInv
<1>5. ASSUME NEW c \in Call, AnswerError(c) PROVE Inv'
  BY <1>5, AnswerErrorInv
<1>6. ASSUME NEW c \in Call, RequestFails(c) PROVE Inv'
  BY <1>6, DrainInv DEF RequestFails, Comes
<1>7. ASSUME NEW c \in Call, Timeout(c) PROVE Inv'
  BY <1>7, TimeoutInv
<1>8. CASE OtherFails
  <2>1. CASE Call = {}
    <3>1. pending = {} /\ ids = {}
      BY <2>1 DEF Inv, PendingKeys, IdKeys
    <3>2. pending' = {} /\ ids' = {} /\ UNCHANGED <<req, answer, queue, wire, came>>
      BY <1>8, <3>1 DEF OtherFails, DrainTables
    <3>3. status' \in [Call -> {"new", "waiting", "ok", "failed"}]
      BY <1>8, <2>1 DEF OtherFails, DrainTables, Resolved
    <3> QED
      BY <2>1, <3>2, <3>3
         DEF Inv, Shape, Fresh, PendingKeys, IdKeys, Filing, RightContent,
             AnsweredReturns
  <2>2. CASE Call # {}
    BY <1>8, <2>2, DrainInv DEF OtherFails
  <2> QED
    BY <2>1, <2>2
<1> QED
  BY <1>1, <1>2, <1>3, <1>4, <1>5, <1>6, <1>7, <1>8 DEF Next

THEOREM Invariant == Spec => []Inv
  BY InitInv, StepInv, PTL DEF Spec

(* Whoever is given a block is given the one it asked for, and a list or a   *)
(* version is that of the peer asked, for any number of callers on a key.   *)
THEOREM ContentRight == Spec => []RightContent
<1>1. Inv => RightContent
  BY DEF Inv
<1> QED
  BY <1>1, Invariant, PTL

(* No caller waits on when an answer, an error or a failure meant for its    *)
(* key has come, although its sender may have been overwritten and its id   *)
(* cleared by another's answer.                                             *)
THEOREM CallersReturn == Spec => []AnsweredReturns
<1>1. Inv => AnsweredReturns
  BY DEF Inv
<1> QED
  BY <1>1, Invariant, PTL

(* The table of block ids holds no more ids than requests are with peers. *)
THEOREM IdsCurrent == Spec => []NoStaleIds
<1>1. Inv => NoStaleIds
  BY DEF Inv, IdKeys, NoStaleIds
<1> QED
  BY <1>1, Invariant, PTL
=============================================================================
