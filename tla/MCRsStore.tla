----------------------------- MODULE MCRsStore -----------------------------
(* Two tasks of each process, two files, two blocks.                       *)
EXTENDS RsStore

CONSTANTS d1, d2, t1, t2, f1, f2, b1, b2

(* The tasks of the daemon together, or one task of the TUI alone. *)
MCTeams == {[tasks |-> Daemon, jobs |-> {"announce", "remove", "list", "sync"}]}
               \cup {[tasks |-> {t}, jobs |-> {"put", "get", "remove"}] : t \in Tui}

(* Both processes at once. *)
MCTogether == {[tasks |-> Task, jobs |-> {"announce", "remove", "put"}]}

(* An upload and a download at once. *)
MCUsers == {[tasks |-> Tui, jobs |-> {"put", "get"}]}
=============================================================================
