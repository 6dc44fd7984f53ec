----------------------------- MODULE MCMsgQueue -----------------------------
(* Model-checking instance of MsgQueue: delays in ticks. *)
EXTENDS MsgQueue

MCDelays == {0, 1, 3}
=============================================================================
