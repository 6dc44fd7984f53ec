----------------------------- MODULE MCPlayback -----------------------------
(***************************************************************************)
(* What plays and records, the tuner it comes from and the decoder, in one *)
(* run: part names the module that moves while the others rest, so that    *)
(* the states add up instead of multiplying.                               *)
(***************************************************************************)
EXTENDS MCRecording, TimeShift, FrontEnd, VdinDevice

CONSTANT Moving   (* the modules that a run moves                          *)

(* A recording with two audios, a subtitle and a teletext; its file, and   *)
(* the file cut short.                                                     *)
MCMedia ==
  [duration |-> 60, name |-> 5, vid |-> <<33, 2>>, auds |-> <<<<34, 3, 11>>, <<35, 3, 12>>>>,
   subs |-> <<<<36, 0, 1, 1, 0, 0, 11>>>>, ttxs |-> <<<<37, 1, 0, 11>>>>]
MCFiles == [whole |-> WholeFile(MCMedia), cut |-> CutFile(MCMedia, 28)]

VARIABLE part

MCInit ==
  /\ part \in Moving
  /\ Init /\ TsInit /\ FendInit
  /\ VdinInit /\ vfm["tvpath"] = "whole" /\ (part # "vdin" => vfm["default"] = "whole")

MCNext ==
  /\ UNCHANGED part
  /\ \/ part = "recording" /\ Next /\ UNCHANGED <<tsVars, fendVars, vdinVars>>
     \/ part = "timeshift" /\ TsNext /\ UNCHANGED <<vars, fendVars, vdinVars>>
     \/ part = "frontend" /\ FendNext /\ UNCHANGED <<vars, tsVars, vdinVars>>
     \/ part = "vdin" /\ VdinNext /\ UNCHANGED <<vars, tsVars, fendVars>>

MCSpec == MCInit /\ [][MCNext]_<<part, vars, tsVars, fendVars, vdinVars>>
=============================================================================
