---------------------------- MODULE MCHeartbeats ----------------------------
(* A host whose frames stall briefly, a peer whose frames stall past the    *)
(* timeout, for TLC.                                                        *)
EXTENDS Heartbeats, TLC

CONSTANTS host, ann

Stalls == (host :> 1) @@ (ann :> 5)
=============================================================================
