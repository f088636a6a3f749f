------------------------------ MODULE MCRelay ------------------------------
(* Two popups and one connection through the relay, for TLC. *)
EXTENDS Relay, TLC

CONSTANTS first, second, none, bridge

Popups == {first, second}
OneBridge == {bridge}
=============================================================================
