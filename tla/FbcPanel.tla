----------------------------- MODULE FbcPanel ------------------------------
(***************************************************************************)
(* The panel's settings as the server reaches them: CTvFactory converts a  *)
(* value, CFbcCommunication frames it with a command, the panel keeps it   *)
(* in a register.  A set that the panel does not get, or that an upgrade   *)
(* swallows, is reported as done all the same.  The panel is external: it  *)
(* answers a get command from the register of the set command it belongs   *)
(* to.                                                                     *)
(***************************************************************************)
EXTENDS Integers

CONSTANTS
  PanelValues, (* values the settings are given, in the units of the menu  *)
  WbGains,     (* white balance gains saved                                *)
  WbOffsets,   (* white balance offsets saved                              *)
  MaxPanelOps  (* bound: operations that reach the panel                   *)

ASSUME FbcPanelAssumption ==
  /\ PanelValues \subseteq 0..100 /\ MaxPanelOps \in Nat
  /\ WbGains \subseteq 0..2047 /\ WbOffsets \subseteq -1024..1023

VARIABLES
  panelReg,    (* the panel's registers                                    *)
  panelHas,    (* what the last set that reached the panel asked for       *)
  panelGot,    (* the last answered get since: a setting and its value     *)
  panelOps     (* operations so far, for the bound                         *)

panelVars == <<panelReg, panelHas, panelGot, panelOps>>

(***************************************************************************)
(* Commands.                                                               *)
(***************************************************************************)

\* Set and get command of each setting (VPU_*, AUDIO_*, CMD_*); gets of the picture side are the
\* set command with bit 7.
PictureCmds ==
  [gain_red |-> 64, gain_green |-> 65, gain_blue |-> 66,
   offset_red |-> 67, offset_green |-> 68, offset_blue |-> 69, wb_initial |-> 74,
   color_temp |-> 49, test_pattern |-> 42, picture_mode |-> 40, contrast |-> 51,
   brightness |-> 50, saturation |-> 52, hue |-> 53, backlight |-> 54, source |-> 13]
AudioCmds ==
  [mute |-> <<87, 97>>, volume_bar |-> <<86, 96>>, balance |-> <<89, 99>>,
   master_volume |-> <<81, 91>>]
BoardCmds ==
  [project_id |-> <<113, 114>>, auto_backlight |-> <<133, 134>>,
   bluetooth |-> <<106, 106 + 128>>, panel_status |-> <<107, 107 + 128>>]
\* Commands that only set.
LevelCmds ==
  [panel_power |-> 5, suspend |-> 6, user_default |-> 2, reboot_upgrade |-> 1, key |-> 20,
   eye_protection |-> 73, user_gamma |-> 47, gamma_pattern |-> 44, vmute |-> 46]
SwitchCmds ==
  [backlight_onoff |-> 33, lvds_ssg |-> 23, elec_mode |-> 100, thermal |-> 79, light_sensor |-> 132,
   dream_panel |-> 131, mult_pq |-> 129, memc |-> 130, led |-> 101, lockn |-> 115,
   split_screen |-> 116, uboot_stage |-> 123, pc_mode |-> 136, gray_pattern |-> 77]
SetOnly == {LevelCmds[s] : s \in DOMAIN LevelCmds} \cup {SwitchCmds[s] : s \in DOMAIN SwitchCmds}
Modules == [gamma |-> 4, white_balance |-> 5, cm |-> 8, csc1 |-> 9, dnlp |-> 10, csc0 |-> 11]

PanelSettings == DOMAIN PictureCmds \cup DOMAIN AudioCmds \cup DOMAIN BoardCmds

SetCmd(s) ==
  CASE s \in DOMAIN PictureCmds -> PictureCmds[s]
    [] s \in DOMAIN AudioCmds -> AudioCmds[s][1]
    [] OTHER -> BoardCmds[s][1]

GetCmd(s) ==
  CASE s \in DOMAIN PictureCmds -> PictureCmds[s] + 128
    [] s \in DOMAIN AudioCmds -> AudioCmds[s][2]
    [] OTHER -> BoardCmds[s][2]

\* External: the register from which the panel answers a get command.
RegisterOf(cmd) ==
  <<"cmd", IF cmd \in 90..99 THEN cmd - 10 ELSE IF cmd \in {114, 134} THEN cmd - 1 ELSE cmd - 128>>
SetRegister(s) == <<"cmd", SetCmd(s)>>

WbModes == 0..3
WbItems == {"gain", "offset"} \X WbModes
Registers == {SetRegister(s) : s \in PanelSettings} \cup {<<"enable", Modules[m]>> : m \in DOMAIN Modules}
               \cup WbItems \cup {<<"srcif", 2>>} \cup {<<"cmd", cmd>> : cmd \in SetOnly}

(***************************************************************************)
(* Conversions between the menu's units and the panel's byte.              *)
(***************************************************************************)

\* Standard, warm and cold of the menu are 1, 2 and 0 of the panel.
ColorTempToFbc(v) == CASE v = 0 -> 1 [] v = 1 -> 2 [] v = 2 -> 0 [] OTHER -> v
ColorTempFromFbc(b) == CASE b = 0 -> 2 [] b = 1 -> 0 [] b = 2 -> 1 [] OTHER -> b

BacklightToFbc(v) == (v * 255) \div 100
BacklightTruncated(b) == (b * 100) \div 255
BacklightFromFbc(b) ==
  IF (b * 100) % 255 = 0 THEN (b * 100) \div 255 ELSE (b * 100) \div 255 + 1

Encode(s, v) ==
  CASE s = "color_temp" -> ColorTempToFbc(v)
    [] s = "backlight" -> BacklightToFbc(v)
    [] OTHER -> v % 256

Decode(s, b) ==
  CASE s = "color_temp" -> ColorTempFromFbc(b)
    [] s = "backlight" -> BacklightFromFbc(b)
    [] OTHER -> b

\* The white balance is scaled twice on its way out, by 8 and by 2047/255, and twice back.
Clamp(v, lo, hi) == IF v < lo THEN lo ELSE IF v > hi THEN hi ELSE v
FormatInputGain(v) == Clamp(v, 0, 2047) \div 8
FormatInputOffset(v) == (Clamp(v, -1024, 1023) + 1024) \div 8
FormatOutputGain(v) == Clamp(v * 8, 0, 2047)
FormatOutputOffset(v) == IF v = 255 THEN 1023 ELSE v * 8 - 1024
BatchSetGain(g) == (g * 255) \div 2047
BatchSetOffset(o) == ((o + 1024) * 255) \div 2047
BatchGetGain(b) == (b * 2047) \div 255
BatchGetOffset(b) == (b * 2047) \div 255 - 1024

SavedGain(v) == BatchSetGain(FormatInputGain(v))
SavedOffset(v) == BatchSetOffset(FormatInputOffset(v))
ShownGain(b) == FormatOutputGain(BatchGetGain(b))
ShownOffset(b) == FormatOutputOffset(BatchGetOffset(b))

(***************************************************************************)
(* Operations.                                                             *)
(***************************************************************************)

NoValue == -9999
NoGet == <<<<"none", 0>>, NoValue>>
Wanted == (PanelSettings \X {0}) \cup WbItems

PanelInit ==
  /\ panelReg = [r \in Registers |-> 0] /\ panelHas = [s \in Wanted |-> NoValue]
  /\ panelGot = NoGet /\ panelOps = 0

Operation == panelOps < MaxPanelOps /\ panelOps' = panelOps + 1

\* A set: 0 is returned whether or not the frame reaches the panel.
SetPanel(s, v) ==
  /\ Operation
  /\ panelGot' = NoGet
  /\ \/ /\ panelReg' = [panelReg EXCEPT ![SetRegister(s)] = Encode(s, v)]
        /\ panelHas' = [panelHas EXCEPT ![<<s, 0>>] = v]
     \/ UNCHANGED <<panelReg, panelHas>>

\* A get the panel answers; without an answer the caller gets 0 as if it were the value.
GetPanel(s) ==
  /\ Operation
  /\ \/ panelGot' = <<<<s, 0>>, Decode(s, panelReg[RegisterOf(GetCmd(s))])>>
     \/ panelGot' = NoGet
  /\ UNCHANGED <<panelReg, panelHas>>

\* whiteBalancePramSave: one frame carries gains and offsets of a mode.
SaveWhiteBalance(m, gain, offset) ==
  /\ Operation
  /\ panelGot' = NoGet
  /\ \/ /\ panelReg' = [panelReg EXCEPT ![<<"gain", m>>] = SavedGain(gain),
                                        ![<<"offset", m>>] = SavedOffset(offset)]
        /\ panelHas' = [panelHas EXCEPT ![<<"gain", m>>] = gain, ![<<"offset", m>>] = offset]
     \/ UNCHANGED <<panelReg, panelHas>>

\* whiteBalanceGain*Get and whiteBalanceOffset*Get read the whole batch of a mode for one item.
GetWhiteBalance(m) ==
  /\ Operation
  /\ \/ panelGot' = <<<<"gain", m>>, ShownGain(panelReg[<<"gain", m>>])>>
     \/ panelGot' = <<<<"offset", m>>, ShownOffset(panelReg[<<"offset", m>>])>>
     \/ panelGot' = NoGet
  /\ UNCHANGED <<panelReg, panelHas>>

\* Frames sent one after the other, each of which may be lost.
SendFrames(frames) ==
  /\ Operation /\ panelGot' = NoGet
  /\ \E got \in SUBSET DOMAIN frames :
       LET last(r) == {i \in got : frames[i][1] = r} IN
       /\ panelReg' = [r \in Registers |-> IF last(r) = {} THEN panelReg[r]
                                           ELSE frames[CHOOSE i \in last(r) : TRUE][2]]
       /\ panelHas' = [w \in Wanted |->
            IF w[1] \in PanelSettings /\ last(SetRegister(w[1])) # {}
            THEN frames[CHOOSE i \in last(SetRegister(w[1])) : TRUE][2] ELSE panelHas[w]]

Enable(m, v) == <<<<"enable", Modules[m]>>, v>>
TestPatternSelect(v) ==
  SendFrames(<<<<<<"srcif", 2>>, 1>>, Enable("csc0", 1), <<SetRegister("test_pattern"), v>>>>)
GrayPatternOnOff(on) ==
  LET m == IF on THEN 0 ELSE 1 IN
  SendFrames(<<<<<<"srcif", 2>>, IF on THEN 1 ELSE 2>>,
               Enable("csc1", m), Enable("dnlp", m), Enable("cm", m)>>)
SetModule(m, v) == SendFrames(<<Enable(m, v)>>)

SetOther(cmd, v) == SendFrames(<<<<<<"cmd", cmd>>, v>>>>)

PanelNext ==
  \/ \E s \in PanelSettings : GetPanel(s) \/ \E v \in PanelValues : SetPanel(s, v)
  \/ \E m \in WbModes : GetWhiteBalance(m)
       \/ \E g \in WbGains, o \in WbOffsets : SaveWhiteBalance(m, g, o)
  \/ \E v \in PanelValues : TestPatternSelect(v)
  \/ \E on \in BOOLEAN : GrayPatternOnOff(on)
  \/ \E cmd \in SetOnly, v \in PanelValues : SetOther(cmd, v)
  \/ \E m \in DOMAIN Modules, v \in {0, 1} : SetModule(m, v)

PanelSpec == PanelInit /\ [][PanelNext]_panelVars

(***************************************************************************)
(* Properties.                                                             *)
(***************************************************************************)

PanelTypeOK ==
  /\ panelReg \in [Registers -> 0..255]
  /\ panelHas \in [Wanted -> (-1024..2047) \cup {NoValue}]
  /\ panelGot[1] \in Wanted \cup {NoGet[1]} /\ panelOps \in 0..MaxPanelOps

\* How far a white balance value may come back from what was saved: scaled twice, 2048 values
\* share 32 bytes, and the bytes 127 to 159 of the offsets stand for -1064 to 992.
WbLoss == 79

Distance(a, b) == IF a < b THEN b - a ELSE a - b

\* A get the panel answers tells what the last set of that same setting to reach the panel asked
\* for, in the menu's units, whatever other settings, patterns and lost frames came between: no
\* two commands share a register and every conversion has its inverse, but for the white balance,
\* which comes back within WbLoss.
AnsweredGetTells ==
  LET s == panelGot[1] IN
  s \in Wanted /\ panelHas[s] # NoValue =>
    IF s \in WbItems THEN Distance(panelGot[2], panelHas[s]) <= WbLoss
                     ELSE panelGot[2] = panelHas[s]
=============================================================================
