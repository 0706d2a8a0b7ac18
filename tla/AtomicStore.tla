---------------------------- MODULE AtomicStore ----------------------------
(***************************************************************************)
(* What a store of RS metadata promises its callers. A call changes the    *)
(* entry of one name at one instant and then has the file rewritten; a      *)
(* listing is the state of one instant, never that of a file half          *)
(* rewritten. Only a kill inside such a rewrite costs entries, then all of  *)
(* them; any kill costs the listings of the tasks that ran in the process.  *)
(***************************************************************************)
EXTENDS Naturals

CONSTANTS Task, File, Entry, NoEntry

VARIABLES meta,      (* the entry of each name                             *)
          seen,      (* seen[t]: the listing t got last                    *)
          rewriting, (* whether a change is being written to the file      *)
          kills      (* the kills of a process so far                      *)

Empty == [f \in File |-> NoEntry]

Init ==
    /\ meta = Empty
    /\ seen = [t \in Task |-> Empty]
    /\ rewriting = FALSE
    /\ kills = 0

Change(f, e) ==
    /\ ~ rewriting
    /\ meta' = [meta EXCEPT ![f] = e]
    /\ rewriting' = TRUE
    /\ UNCHANGED <<seen, kills>>

Rewritten == rewriting /\ rewriting' = FALSE /\ UNCHANGED <<meta, seen, kills>>

See(t) ==
    /\ ~ rewriting
    /\ seen' = [seen EXCEPT ![t] = meta]
    /\ UNCHANGED <<meta, rewriting, kills>>

Kill ==
    /\ kills' = kills + 1
    /\ \E P \in SUBSET Task : seen' = [t \in Task |-> IF t \in P THEN Empty ELSE seen[t]]
    /\ \/ UNCHANGED <<meta, rewriting>>
       \/ rewriting /\ rewriting' = FALSE /\ meta' = Empty

Next ==
    \/ Kill \/ Rewritten
    \/ \E f \in File, e \in Entry \cup {NoEntry} : Change(f, e)
    \/ \E t \in Task : See(t)

Spec == Init /\ [][Next]_<<meta, seen, rewriting, kills>>
=============================================================================
