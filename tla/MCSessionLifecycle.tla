------------------------- MODULE MCSessionLifecycle -------------------------
(* A room and a peer who tries to enter it, for TLC. *)
EXTENDS SessionLifecycle, TLC

CONSTANTS host, ann

OnePeer == {ann}

\* The room is opened twice, and ann comes back.
Visits == (host :> 2) @@ (ann :> 2)
=============================================================================
