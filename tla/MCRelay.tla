------------------------------ MODULE MCRelay ------------------------------
(* An instance of Relay for TLC: one listed joiner of two hosts. *)
EXTENDS Relay

CONSTANTS h1, h2, j
=============================================================================
