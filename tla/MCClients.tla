----------------------------- MODULE MCClients -----------------------------
(* Small instances of Clients for TLC. *)
EXTENDS Clients, TLC

CONSTANTS c1, c2, c3

TwoClients == {c1, c2}
ThreeClients == {c1, c2, c3}
=============================================================================
