------------------------------ MODULE MCRenew ------------------------------
(* Builds of one and two chunks for three platforms, and three fleets: Unix *)
(* nodes two of which update, Windows nodes, and a single updater.          *)
EXTENDS Renew, TLC

CONSTANTS n1, n2, n3, l1, l2, l3, w1, w2, m1, m2

MCTarget == [b \in {l1, l2, l3} |-> "linux"] @@ [b \in {w1, w2} |-> "windows"]
                @@ [b \in {m1, m2} |-> "macos"]
MCSize == [b \in DOMAIN MCTarget |-> IF b \in {l1, m1} THEN 1 ELSE 2]
MCReleased == [b \in DOMAIN MCTarget |-> CASE b \in {l1, w1, m1} -> 1
                                          [] b \in {l2, w2, m2} -> 2
                                          [] OTHER -> 3]

OfThree(p, q, r) == n1 :> p @@ n2 :> q @@ n3 :> r

UnixFleet == [platform |-> OfThree("linux", "linux", "linux"),
              enabled |-> {n1, n2}, faults |-> {"restart"}]
WindowsFleet == [platform |-> OfThree("windows", "windows", "macos"),
                 enabled |-> {n1, n2}, faults |-> FaultKinds]
OneUpdater == [platform |-> OfThree("macos", "macos", "windows"),
               enabled |-> {n1}, faults |-> FaultKinds]

MCFleets == {UnixFleet, WindowsFleet, OneUpdater}

(* Two Linux nodes, both updating, and nothing fails. *)
TwoNodes == {[platform |-> [n \in {n1, n2} |-> "linux"], enabled |-> {n1, n2},
              faults |-> {}]}
=============================================================================
