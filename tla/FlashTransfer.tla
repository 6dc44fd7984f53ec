--------------------------- MODULE FlashTransfer ---------------------------
(***************************************************************************)
(* What a firmware upgrade promises: the blocks of the image reach the     *)
(* panel's flash in order, and a transfer is called complete only when     *)
(* every block is there.                                                   *)
(***************************************************************************)
EXTENDS Integers

CONSTANT NBlocks

VARIABLES
  ftPhase,    (* no transfer, or one under way                             *)
  ftDone,     (* blocks 1..ftDone are in the flash                         *)
  ftResult    (* how the last transfer ended                               *)

ftVars == <<ftPhase, ftDone, ftResult>>

FTInit == ftPhase = "idle" /\ ftDone = 0 /\ ftResult = "none"

FTBegin ==
  /\ ftPhase = "idle" /\ ftPhase' = "busy"
  /\ ftDone' = 0 /\ ftResult' = "none"

FTWrite ==
  /\ ftPhase = "busy" /\ ftDone < NBlocks /\ ftDone' = ftDone + 1
  /\ UNCHANGED <<ftPhase, ftResult>>

FTEnd ==
  /\ ftPhase = "busy" /\ ftPhase' = "idle"
  /\ \/ ftDone = NBlocks /\ ftResult' = "complete"
     \/ ftResult' = "failed"
  /\ UNCHANGED ftDone

FTNext == FTBegin \/ FTWrite \/ FTEnd

FTSpec == FTInit /\ [][FTNext]_ftVars
=============================================================================
