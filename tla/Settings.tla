------------------------------ MODULE Settings ------------------------------
(***************************************************************************)
(* The persistent settings (CTvSetting.cpp): the table of the settings the *)
(* system control keeps for the server, the calls that save them from      *)
(* binder threads, the restores of the defaults, and the pre-copied file   *)
(* of the first start.                                                     *)
(*                                                                         *)
(* A save is one call of the system control; a flag of a source's parental *)
(* control is a read of the 32-bit mask and a write of the changed mask,   *)
(* without a lock; a restore is a list of saves.  tvSSMReadNTypes and      *)
(* tvSSMWriteNTypes always answer 0, so no caller sees that the system     *)
(* control was away: a save is lost and a read keeps the caller's 0.       *)
(*                                                                         *)
(* Bounds: MaxEvents calls, absences of the system control and crashes,    *)
(* the values Asked of the settings Saved, the sources Sources.            *)
(***************************************************************************)
EXTENDS Integers, Sequences

CONSTANTS Users, Saved, Asked, Sources, EdidDefault, FileBytes, MaxEvents

ASSUME SettingsAssumption ==
  /\ Asked \subseteq Int /\ Sources \subseteq 0 .. 31 /\ 0 \in Sources
  /\ EdidDefault \in {0, 1} /\ FileBytes \in Nat \ {0} /\ MaxEvents \in Nat

-----------------------------------------------------------------------------
(* The table: the settings section by section, and for each the bytes      *)
(* written, the bytes read, and what is made of them.                      *)

\* Factory mode, power-up, language and music.
PowerSettings ==
  {"BurnWriteCharaterChar", "FactoryBurnMode", "PowerOnOffChannel", "LastSelectSourceInput",
   "SystemLanguage", "AgingMode", "PanelType", "PowerOnMusicSwitch", "PowerOnMusicVolume",
   "SystemSleepTimer"}

\* The mask itself is the variable parental.
ParentalSettings == {"ParentalControlSwitch"}

BoardSettings ==
  {"SearchNavigateFlag", "InputNumLimit", "LocalDimingOnOffFlg", "VDac2DValue", "VDac3DValue"}

\* Of the password only the first byte goes out, whatever its length.
ModeSettings ==
  {"NonStandardValue", "AdbSwitchValue", "NoiseGateThresholdValue", "GraphyBacklight",
   "FastSuspendFlag", "CABufferSizeValue", "StandbyMode"}
DisplaySettings ==
  {"HDMIEQMode", "LogoOnOffFlag", "HDMIInternalMode", "ParentalControlPassWord", "Disable3D",
   "GlobalOgoEnable"}

Marks == <<"Mark01", "Mark02", "Mark03">>
MarkValue == <<221, 136, 204>>
MarkSettings == {Marks[i] : i \in 1 .. 3}

InputSettings ==
  {"DTVType", "SourceInput", "CVBSStd", "Mode3D", "LRSwitch3D", "Depth3D", "TO2D3D"}
PictureSettings ==
  {"SceneMode", "FBCN360BackLightVal", "FBCN360ColorTempVal", "FBCELECmodeVal", "DBCStart",
   "DnlpStart", "PanoramaHdmi", "PanoramaOther", "TestPattern", "APL", "APL2"}
BacklightSettings ==
  {"BD", "BP", "DDRSSC", "LVDSSSC", "DreamPanel", "UserNatureLightSwitch", "DBCBacklightEnable",
   "DBCBacklightStd", "DBCEnable", "BackLightReverse", "BlackoutEnable"}
PanelSettings ==
  {"FBCN310BackLightVal", "FBCN310ColorTempVal", "FBCN310LightsensorVal", "FBCN310Dream_PanelVal",
   "FBCN310MULT_PQVal", "FBCN310MEMCVal", "N311_VbyOne_Spread_Spectrum_Val", "N311_Bluetooth_Vol",
   "PANEL_ID_Val"}

Ports == 1 .. 4
Edid(port) == <<"HDMIEdidVersion1", "HDMIEdidVersion2", "HDMIEdidVersion3", "HDMIEdidVersion4">>[port]
Edids == {Edid(p) : p \in Ports}
HdmiSettings == Edids \cup {"HDMIColorRangeMode", "HDMIHdcpSwitcher"}

\* The programme to play next is kept in the configuration file, not by the system control.
ConfigSettings == {"DTVProgramID", "ATVProgramID"}

SettingNames ==
  PowerSettings \cup ParentalSettings \cup BoardSettings \cup ModeSettings \cup DisplaySettings
    \cup MarkSettings \cup InputSettings \cup PictureSettings \cup BacklightSettings
    \cup PanelSettings \cup HdmiSettings \cup ConfigSettings

\* A flag reads as 1 for anything but 0; what is capped reads as 0 above 1; the timer saves one
\* byte and reads four; the other settings are a byte.
Entry(w, r, as) == [save |-> w, load |-> r, as |-> as]
Setting ==
  [k \in SettingNames |->
     CASE k \in {"FactoryBurnMode", "ParentalControlSwitch"} -> Entry(1, 1, "flag")
       [] k \in Edids \cup {"HDMIHdcpSwitcher"} -> Entry(1, 1, "capped")
       [] k = "GraphyBacklight" -> Entry(1, 1, "percent")
       [] k = "BlackoutEnable" -> Entry(1, 1, "signed")
       [] k = "SystemSleepTimer" -> Entry(1, 4, "natural")
       [] k \in {"NonStandardValue", "CABufferSizeValue"} -> Entry(2, 2, "value")
       [] k \in {"AgingMode", "HDMIInternalMode"} \cup ConfigSettings -> Entry(4, 4, "value")
       [] OTHER -> Entry(1, 1, "value")]

\* What a save leaves in the store, and which saves are refused.
Stored(k, v) == CASE Setting[k].save = 1 -> v % 256 [] Setting[k].save = 2 -> v % 65536 [] OTHER -> v
Accepted(k, v) == Setting[k].as = "percent" => v \in 0 .. 100

\* What a reader makes of the b that lies at k; behind a setting that is read wider than it is
\* saved lie others, of the value n here.
Loaded(k, b, n) ==
  LET raw == IF Setting[k].load > Setting[k].save THEN b + 256 * n ELSE b
  IN CASE Setting[k].as = "flag" -> IF raw # 0 THEN 1 ELSE 0
       [] Setting[k].as = "capped" -> IF raw > 1 THEN 0 ELSE raw
       [] Setting[k].as = "percent" -> IF raw > 100 THEN -1 ELSE raw
       [] Setting[k].as = "natural" -> IF raw < 0 THEN 0 ELSE raw
       [] Setting[k].as = "signed" -> IF raw > 127 THEN raw - 256 ELSE raw
       [] OTHER -> raw

-----------------------------------------------------------------------------
(* Saves as data: setting, value and, for a flag of the mask, its source.  *)

Mask == "InputSourceParentalControl"
Put(k, v) == <<k, v, 0>>
PutFlag(source, flag) == <<Mask, flag, source>>

MiscSSMRestoreDefault ==
  <<Put("FactoryBurnMode", 0), Put("PowerOnOffChannel", 1), Put("SystemLanguage", 0),
    Put("AgingMode", 0), Put("PanelType", 0), Put("PowerOnMusicSwitch", 0),
    Put("PowerOnMusicVolume", 20), Put("SystemSleepTimer", -1), PutFlag(0, 0),
    Put("ParentalControlSwitch", 0), Put("BlackoutEnable", 0)>>

MiscSSMFacRestoreDefault ==
  <<Put("SystemLanguage", 0), Put("PowerOnMusicSwitch", 1), Put("PowerOnMusicVolume", 20),
    Put("SystemSleepTimer", -1), PutFlag(0, 0), Put("ParentalControlSwitch", 0),
    Put("SearchNavigateFlag", 1), Put("InputNumLimit", 2), Put("LocalDimingOnOffFlg", 0)>>

CharaterChar == 138
ReservedSSMRestoreDefault == <<Put("BurnWriteCharaterChar", CharaterChar)>>

SSMRestoreDeviceMarkValues == [i \in 1 .. 3 |-> Put(Marks[i], MarkValue[i])]

SSMHDMIEdidRestoreDefault == [p \in Ports |-> Put(Edid(p), EdidDefault)]

\* CTv's restore of the defaults, as the service's SSMInitDevice calls it.
Tv_SSMRestoreDefaultSetting ==
  SSMRestoreDeviceMarkValues \o MiscSSMRestoreDefault \o ReservedSSMRestoreDefault
    \o <<Put("CVBSStd", 0), Put("LastSelectSourceInput", 0), Put("PanelType", 0),
          Put("DTVProgramID", -1), Put("ATVProgramID", -1), Put("StandbyMode", 0)>>
    \o SSMHDMIEdidRestoreDefault
    \o <<Put("HDMIHdcpSwitcher", 0), Put("HDMIColorRangeMode", 0)>>

\* The picture's defaults; full screen (1) for HDMI, normal (0) for the others.
VPP_SSMRestorToDefault ==
  <<Put("UserNatureLightSwitch", 1), Put("GraphyBacklight", 100), Put("DBCStart", 0),
    Put("DnlpStart", 0), Put("APL", 30), Put("APL2", 30), Put("BD", 30), Put("BP", 30),
    Put("FBCELECmodeVal", 11), Put("FBCN360BackLightVal", 10), Put("FBCN360ColorTempVal", 1),
    Put("FBCN310ColorTempVal", 0), Put("FBCN310LightsensorVal", 0), Put("FBCN310Dream_PanelVal", 1),
    Put("FBCN310MULT_PQVal", 1), Put("FBCN310MEMCVal", 2), Put("FBCN310BackLightVal", 254),
    Put("PanoramaOther", 0), Put("PanoramaHdmi", 1)>>

-----------------------------------------------------------------------------
VARIABLES
  blob,        \* the settings the system control and the configuration file were given to keep
  parental,    \* the sources whose bit is set in the parental mask
  reachable,   \* the system control answers
  faults,      \* its absences and the crashes of the server so far
  phase,       \* of the server: "down", "copying", "up"
  precopy,     \* the pre-copied file: "none", "short", "full"
  copied,      \* bytes of it written since the start
  saving,      \* caller -> the saves its call still has to make
  seen,        \* caller -> the mask it has read, or Nothing
  requests,    \* calls made
  asked,       \* ghost: source -> the flag asked last, or Nothing where none can be expected
  restore      \* ghost: the last call is a restore of the defaults that meets no other call and no
               \* absence: "going" till its last save, "done" till the next call; else "none"

settingVars ==
  <<blob, parental, reachable, faults, phase, precopy, copied, saving, seen, requests, asked,
    restore>>

Nothing == {-1}
Idle(c) == saving[c] = <<>>
Keeps(k) == reachable \/ k \in ConfigSettings

\* A set that has been in use: what is not in blob was saved as 3 before.
SavedBefore == 3
SettingsInit ==
  /\ blob = [k \in {} |-> SavedBefore] /\ parental \in SUBSET Sources /\ reachable = TRUE /\ faults = 0
  /\ phase = "down" /\ precopy \in {"none", "short", "full"} /\ copied = 0
  /\ saving = [c \in Users |-> <<>>] /\ seen = [c \in Users |-> Nothing]
  /\ requests = 0 /\ asked = [s \in Sources |-> IF s \in parental THEN 1 ELSE 0] /\ restore = "none"

-----------------------------------------------------------------------------
(* Start of the server: SSMHandlePreCopying, before any caller.  Every     *)
(* byte goes to the same setting; a file of another size, or one that      *)
(* cannot be read, is removed all the same.                                *)

callVars == <<saving, seen, requests, asked, restore>>

StartUp ==
  /\ phase = "down"
  /\ \/ phase' = "copying" /\ precopy = "full" /\ UNCHANGED precopy
     \/ phase' = "up" /\ precopy' = "none"
  /\ copied' = 0
  /\ UNCHANGED <<blob, parental, reachable, faults, callVars>>

CopyByte ==
  /\ phase = "copying"
  /\ copied' = copied + 1
  /\ phase' = IF copied' = FileBytes THEN "up" ELSE phase
  /\ precopy' = IF copied' = FileBytes THEN "none" ELSE precopy
  /\ UNCHANGED <<blob, parental, reachable, faults, callVars>>

\* A restore that is under way will not be a whole one.
Ended == IF restore = "going" THEN "none" ELSE restore

\* The process dies: every call in progress is cut short where it is.
ServerCrash ==
  /\ phase # "down" /\ requests + faults < MaxEvents
  /\ phase' = "down" /\ faults' = faults + 1
  /\ saving' = [c \in Users |-> <<>>] /\ seen' = [c \in Users |-> Nothing]
  /\ restore' = Ended
  /\ UNCHANGED <<blob, parental, reachable, precopy, copied, requests, asked>>

\* The system control goes and comes back.
SystemControl ==
  /\ reachable' = ~reachable /\ (reachable => requests + faults < MaxEvents)
  /\ faults' = IF reachable THEN faults + 1 ELSE faults
  /\ restore' = Ended
  /\ UNCHANGED <<blob, parental, phase, precopy, copied, saving, seen, requests, asked>>

-----------------------------------------------------------------------------
(* Calls: what a call has to save, then one save after the other.          *)

NewCall(c, saves) ==
  /\ phase = "up" /\ Idle(c) /\ requests + faults < MaxEvents
  /\ saving' = [saving EXCEPT ![c] = saves]
  /\ requests' = requests + 1
  /\ restore' = IF saves = Tv_SSMRestoreDefaultSetting /\ reachable /\ \A d \in Users : Idle(d)
                THEN "going" ELSE "none"
  /\ UNCHANGED <<blob, parental, reachable, faults, phase, precopy, copied, seen, asked>>

Save(c) == \E k \in Saved, v \in Asked : Accepted(k, v) /\ NewCall(c, <<Put(k, v)>>)
SaveFlag(c) == \E s \in Sources, f \in {0, 1} : NewCall(c, <<PutFlag(s, f)>>)
RestoreDefault(c) == NewCall(c, Tv_SSMRestoreDefaultSetting)
FacRestoreDefault(c) == NewCall(c, MiscSSMFacRestoreDefault)
PictureDefault(c) == NewCall(c, VPP_SSMRestorToDefault)

NextSave(c) == Head(saving[c])
Done(c) ==
  /\ saving' = [saving EXCEPT ![c] = Tail(@)]
  /\ restore' = IF restore = "going" /\ Tail(saving[c]) = <<>> THEN "done" ELSE restore

WriteNTypes(c) ==
  /\ ~Idle(c) /\ NextSave(c)[1] # Mask
  /\ LET k == NextSave(c)[1]
     IN blob' = [x \in DOMAIN blob \cup (IF Keeps(k) THEN {k} ELSE {}) |->
                   IF x = k /\ Keeps(k) THEN Stored(k, NextSave(c)[2]) ELSE blob[x]]
  /\ Done(c)
  /\ UNCHANGED <<parental, reachable, faults, phase, precopy, copied, seen, requests, asked>>

\* SSMSaveInputSourceParentalControl reads the mask ...
ReadMask(c) ==
  /\ ~Idle(c) /\ NextSave(c)[1] = Mask /\ seen[c] = Nothing
  /\ seen' = [seen EXCEPT ![c] = IF reachable THEN parental ELSE {}]
  /\ UNCHANGED <<blob, parental, reachable, faults, phase, precopy, copied, saving, requests, asked, restore>>

\* ... and writes it with the flag changed.  Nothing can be expected of the other flags when the
\* mask is no longer the one that was read, nor of this one when the mask is not kept.
\* Mutant of WithFlag: the other sources' flags are dropped.
WithFlagAlone(mask, source, flag) == IF flag = 1 THEN {source} ELSE {}

WithFlag(mask, source, flag) == (mask \ {source}) \cup (IF flag = 1 THEN {source} ELSE {})
WriteMask(c) ==
  /\ ~Idle(c) /\ NextSave(c)[1] = Mask /\ seen[c] # Nothing
  /\ LET flag == NextSave(c)[2]  source == NextSave(c)[3]
     IN /\ parental' = IF reachable THEN WithFlag(seen[c], source, flag) ELSE parental
        /\ asked' = [s \in Sources |->
             CASE s = source -> IF reachable THEN flag ELSE -1
               [] s # source /\ reachable /\ seen[c] # parental -> -1
               [] OTHER -> asked[s]]
  /\ seen' = [seen EXCEPT ![c] = Nothing]
  /\ Done(c)
  /\ UNCHANGED <<blob, reachable, faults, phase, precopy, copied, requests>>

SettingsNext ==
  \/ StartUp \/ CopyByte \/ ServerCrash \/ SystemControl
  \/ \E c \in Users :
       \/ Save(c) \/ SaveFlag(c) \/ RestoreDefault(c) \/ FacRestoreDefault(c) \/ PictureDefault(c)
       \/ WriteNTypes(c) \/ ReadMask(c) \/ WriteMask(c)

SettingsSpec == SettingsInit /\ [][SettingsNext]_settingVars

-----------------------------------------------------------------------------
(* What a client reads.                                                    *)

Reads(k) == Loaded(k, IF k \in DOMAIN blob THEN blob[k] ELSE SavedBefore, 0)

\* SSMReadInputSourceParentalControl: no source is blocked while the switch is off.
Blocked(s) == Reads("ParentalControlSwitch") = 1 /\ s \in parental

DeviceMarkCheck == \E i \in 1 .. 3 : Reads(Marks[i]) = MarkValue[i]

-----------------------------------------------------------------------------
(* Properties.                                                             *)

\* A source's parental flag is the one asked last: it is lost only to a call that changed the mask
\* between another's read and write of it, or to an absence of the system control.
FlagKept == \A s \in Sources : asked[s] # -1 => ((s \in parental) <=> (asked[s] = 1))

\* After a restore of the defaults that met no other call, a client finds them: marks that pass
\* the check, every port on the configured EDID, no source blocked, no programme to play next.
RestoredReadsDefault ==
  restore = "done" =>
    /\ DeviceMarkCheck
    /\ \A p \in Ports : Reads(Edid(p)) = EdidDefault
    /\ \A s \in Sources : ~Blocked(s)
    /\ \A k \in {"DTVProgramID", "ATVProgramID"} : Reads(k) = -1
    /\ \A k \in {"FactoryBurnMode", "SystemLanguage", "AgingMode", "PanelType", "BlackoutEnable",
                  "StandbyMode", "CVBSStd", "HDMIHdcpSwitcher", "HDMIColorRangeMode"} : Reads(k) = 0
    /\ Reads("PowerOnMusicVolume") = 20 /\ Reads("PowerOnOffChannel") = 1

\* What was set, and what was restored, is what is read.
SettingsKept == FlagKept /\ RestoredReadsDefault
=============================================================================
