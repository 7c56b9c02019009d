---------------------------- MODULE MCForkService ----------------------------
(***************************************************************************)
(* Three clients that come again and again and at most three copies of the *)
(* server: fork fails once three are there.                                *)
(***************************************************************************)
EXTENDS ForkService

CONSTANTS c1, c2, c3, p1, p2, p3

ThreeClients == {c1, c2, c3}
ThreeProcs == {p1, p2, p3}
=============================================================================
