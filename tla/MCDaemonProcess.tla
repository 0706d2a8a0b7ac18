--------------------------- MODULE MCDaemonProcess ---------------------------
(* Values for model-checking DaemonProcess. *)
EXTENDS DaemonProcess

CONSTANTS t1, r, s, u

(* A TUI, a restart, a stop and a start, in any order and overlap. *)
MCCommand ==
    [l \in Launcher |-> CASE l = t1 -> "tui" [] l = r -> "restart" [] l = s -> "stop"
                          [] l = u -> "start"]
=============================================================================
