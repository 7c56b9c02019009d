-------------------------- MODULE MCKafkaPipeline --------------------------
(***************************************************************************)
(* Three lines and a queue of two: the third line may find it full, with   *)
(* messages not sent, sent twice, or reported.                             *)
(***************************************************************************)
EXTENDS KafkaPipeline

ThreeLines == 1..3
=============================================================================
