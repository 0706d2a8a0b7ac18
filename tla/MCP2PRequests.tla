--------------------------- MODULE MCP2PRequests ---------------------------
(* Four calls to two peers, two zones that have a file of the same name.   *)
EXTENDS P2PRequests

CONSTANTS k1, k2, k3, k4, p1, p2, z1, z2, a, b

Req(kinds, peers, zones, names) ==
    [kind : kinds, peer : peers, zone : zones, name : names]

(* What the sync task and rsget ask for, listings, a file and renew's version. *)
MCMixed == Req({"block"}, {p1}, {z1}, {a, b}) \cup Req({"block"}, {p2}, {z1}, {a})
               \cup Req({"have", "blocks", "rsList", "rsMeta", "version"}, {p1}, {z1}, {a})
               \cup Req({"file"}, {p1}, {z1}, {a, b})
MCFiles == Req({"files", "zones"}, {p1}, {z1, z2}, {a})
MCMeta == Req({"fileMeta", "chunk"}, {p1, p2}, {z1}, {a})

(* The name b is one like "x:a". *)
MCEnds == {<<b, a>>}
=============================================================================
