---------------------------- MODULE FbcUpgrade -----------------------------
(***************************************************************************)
(* The upgrade of the panel's firmware (CFbcUpgrade): start(), and the     *)
(* thread that prepares, sends the image block by block, looks for the     *)
(* panel's confirmation of each, sends a block again up to three times,    *)
(* reports and reboots.  The partitions' block lists are one list of       *)
(* blocks.  The panel confirms a block only after writing it and within    *)
(* the two seconds uartReadStream reads; both directions may lose data.    *)
(***************************************************************************)
EXTENDS Integers

CONSTANTS
  NBlocks,     (* blocks of the image                                      *)
  ResendLimit  (* how often a block may fail before the upgrade is aborted *)

ASSUME FbcUpgradeAssumption == NBlocks \in Nat \ {0} /\ ResendLimit \in Nat

VARIABLES
  upState,     (* mState                                                   *)
  upPc,        (* step of the upgrade thread, "none" when it does not run  *)
  upFlag,      (* mUpgradeFlag: the protocol thread is kept off the line   *)
  upNext,      (* the block being sent                                     *)
  upResend,    (* reSendTimes                                              *)
  upCode,      (* ret_code: 0 or an error                                  *)
  upReady,     (* prepare_success                                          *)
  upReported,  (* the last onUpgradeStatus since the start                 *)
  flash        (* panel: blocks 1..flash hold the new image                *)

upVars == <<upState, upPc, upFlag, upNext, upResend, upCode, upReady, upReported, flash>>

Serial == "ERR_SERIAL_CONNECT"
PrepareErrors == {"ERR_NOT_CORRECT_UPGRADE_BLKSIZE", "ERR_NOT_SUPPORT_UPGRADE_MDOE",
                  "ERR_OPEN_BIN_FILE", "ERR_BIN_FILE_SIZE", "ERR_READ_BIN_FILE",
                  "ERR_DATA_CRC_ERROR", Serial}
UpCodes == PrepareErrors \cup {"0"}
NeverRun == <<"never", "0">>
NoReport == <<"none", "0">>

Busy == upPc \in {"prepare", "send", "confirm", "end"}

UpInit ==
  /\ upState = "STOPED" /\ upPc = "none" /\ upFlag = FALSE
  /\ upNext = 1 /\ upResend = 0 /\ upCode = "0" /\ upReady = FALSE
  /\ upReported = NeverRun /\ flash = 0

\* start(): between the start and the first block mState still says STOPED, and run() of a thread
\* that runs does nothing; with mState RUNNING the flag is cleared under the running upgrade.
UpStart ==
  IF upState \in {"STOPED", "ABORT", "FINISHED"}
  THEN /\ upFlag' = TRUE
       /\ IF upPc = "none"
          THEN /\ upPc' = "prepare" /\ upNext' = 1 /\ upResend' = 0 /\ upCode' = "0"
               /\ upReady' = FALSE /\ flash' = 0 /\ upReported' = NoReport
          ELSE UNCHANGED <<upPc, upNext, upResend, upCode, upReady, flash, upReported>>
       /\ UNCHANGED upState
  ELSE /\ upFlag' = FALSE
       /\ UNCHANGED <<upState, upPc, upNext, upResend, upCode, upReady, upReported, flash>>

\* The settings are checked, the file is loaded and cut into blocks, its first partition's
\* checksum compared, and the panel told to reboot into its upgrade mode; the first failure counts.
UpPrepare ==
  /\ upPc = "prepare"
  /\ \/ /\ upPc' = "send" /\ upReady' = TRUE /\ UNCHANGED upCode
     \/ /\ upCode' \in PrepareErrors /\ upPc' = "end" /\ UNCHANGED upReady
  /\ UNCHANGED <<upState, upFlag, upNext, upResend, upReported, flash>>

\* Command, data and checksum of a block.  A write of the port that fails aborts; else the panel
\* gets the block whole and writes it, or not.
UpSendBlock ==
  /\ upPc = "send"
  /\ \/ /\ upState' = "RUNNING" /\ upPc' = "confirm"
        /\ flash' \in {flash, upNext}
        /\ UNCHANGED upCode
     \/ /\ upState' = "ABORT" /\ upCode' = Serial /\ upPc' = "end" /\ UNCHANGED flash
  /\ UNCHANGED <<upFlag, upNext, upResend, upReady, upReported>>

\* Three 0x5A within two seconds confirm the block.
UpConfirmed ==
  /\ upPc = "confirm" /\ flash >= upNext
  /\ upResend' = 0 /\ upNext' = upNext + 1
  /\ upPc' = IF upNext < NBlocks THEN "send" ELSE "end"
  /\ UNCHANGED <<upState, upFlag, upCode, upReady, upReported, flash>>

UpUnconfirmedAgain ==
  /\ upPc = "confirm"
  /\ upReported' = <<upState, Serial>> /\ upPc' = "send"
  /\ UNCHANGED <<upState, upFlag, upNext, upResend, upCode, upReady, flash>>
\* Nothing, or not enough, came: the observer hears of it and the block is sent again, or the
\* upgrade given up.
UpUnconfirmed ==
  /\ upPc = "confirm"
  /\ upResend' = upResend + 1
  /\ upReported' = <<upState, Serial>>
  /\ IF upResend + 1 > ResendLimit
     THEN upState' = "ABORT" /\ upCode' = Serial /\ upPc' = "end"
     ELSE upPc' = "send" /\ UNCHANGED <<upState, upCode>>
  /\ UNCHANGED <<upFlag, upNext, upReady, flash>>

UpEndNoError ==
  /\ upPc = "end"
  /\ upState' = "STOPED" /\ upFlag' = FALSE
  /\ upReported' = <<"STOPED", "0">>
  /\ upPc' = IF upReady THEN "reboot" ELSE "none"
  /\ UNCHANGED <<upNext, upResend, upCode, upReady, flash>>
\* The end of threadLoop, however it was reached; a prepared upgrade goes on to the reboot.
UpEnd ==
  /\ upPc = "end"
  /\ upState' = "STOPED" /\ upFlag' = FALSE
  /\ upReported' = <<"STOPED", upCode>>
  /\ upPc' = IF upReady THEN "reboot" ELSE "none"
  /\ UNCHANGED <<upNext, upResend, upCode, upReady, flash>>

\* The panel is told to reboot unless the line failed, then the whole system reboots; a start() in
\* between changes nothing that survives.
UpReboot ==
  /\ upPc = "reboot"
  /\ upState' = "STOPED" /\ upPc' = "none" /\ upFlag' = FALSE
  /\ UNCHANGED <<upNext, upResend, upCode, upReady, upReported, flash>>

\* Power is lost: nothing of the server survives, the flash does.
PowerCut ==
  /\ Busy
  /\ upState' = "STOPED" /\ upPc' = "none" /\ upFlag' = FALSE
  /\ upReported' = NoReport
  /\ UNCHANGED <<upNext, upResend, upCode, upReady, flash>>

UpThread == UpPrepare \/ UpSendBlock \/ UpConfirmed \/ UpUnconfirmed \/ UpEnd \/ UpReboot

UpNext == UpStart \/ UpThread \/ PowerCut

\* The thread runs: each of its waits is bounded.
UpSpec == UpInit /\ [][UpNext]_upVars /\ WF_upVars(UpThread)

(***************************************************************************)
(* Properties.                                                             *)
(***************************************************************************)

UpReports == {"never", "none", "STOPED", "RUNNING", "ABORT"} \X UpCodes

UpTypeOK ==
  /\ upState \in {"STOPED", "RUNNING", "ABORT"}
  /\ upPc \in {"none", "prepare", "send", "confirm", "end", "reboot"}
  /\ upFlag \in BOOLEAN /\ upReady \in BOOLEAN
  /\ upNext \in 1..(NBlocks + 1) /\ upResend \in 0..(ResendLimit + 1)
  /\ upCode \in UpCodes /\ flash \in 0..NBlocks
  /\ upReported \in UpReports

UpResult ==
  IF Busy \/ upReported = NeverRun THEN "none"
  ELSE IF upReported = <<"STOPED", "0">> THEN "complete" ELSE "failed"

FT == INSTANCE FlashTransfer WITH
        ftPhase <- IF Busy THEN "busy" ELSE "idle", ftDone <- flash, ftResult <- UpResult

\* The upgrade implements FlashTransfer: the panel's flash is filled in order and the observer
\* hears of an end without error only when every block is in it, through lost blocks, lost
\* confirmations, resends, failing writes, second starts and power cuts.
UpgradeIsTransfer == FT!FTSpec

\* The thread and the panel agree on the place in the image to within the one block on its way:
\* no block is passed over after a confirmation that was lost, and none confirmed twice.
FlashInStep == Busy /\ upReady => flash \in {upNext - 1, upNext}

\* Every started upgrade comes to an end: the thread never waits for the panel for ever.
UpgradeEnds == upPc # "none" ~> upPc = "none"
=============================================================================
