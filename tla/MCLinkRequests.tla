--------------------------- MODULE MCLinkRequests ---------------------------
(***************************************************************************)
(* Four futures on one connection over a table of three links: two        *)
(* `ip link get`, so that a dump may be requested while the other runs,   *)
(* and two `ip link del` of the same link, which race with each other     *)
(* (one finds the link gone) and with the dumps, before and after a       *)
(* cursor passes the link.  Before execute, any future may rewrite the    *)
(* index of its request through message_mut.                              *)
(***************************************************************************)
EXTENDS LinkRequests

CONSTANTS g1, g2, d1, d2

MCClients == {g1, g2, d1, d2}

MCOps == [c \in MCClients |-> IF c \in {g1, g2} THEN Get ELSE Del(2)]

MCInitLinks == {1, 2, 3}

(* message_mut may name no device: index 0, which the kernel refuses.    *)
MCIndices == {0}

=============================================================================
