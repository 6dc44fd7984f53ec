------------------------------- MODULE MCTv -------------------------------
(* Model-checking instance of Tv. *)
EXTENDS Tv

MCNeverRefused == {FALSE}
=============================================================================
