---------------------------- MODULE MCRecording ----------------------------
(* Model-checking instance of Recording. *)
EXTENDS Recording, TLC

CONSTANTS h1, h2, h3, f1, f2, f3, p1, p2

\* Addresses and the ids of players are interchangeable: no operator orders or
\* names one.
MCAddresses == Permutations(Handles) \cup Permutations(Files) \cup Permutations(PlayerIds)
=============================================================================
