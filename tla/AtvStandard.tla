---------------------------- MODULE AtvStandard ----------------------------
(***************************************************************************)
(* Analogue channels: the standard a scan hears is stored as two numbers,  *)
(* video and audio, and turned into the bits of the tuner again when the   *)
(* channel is played, twice where CTv passes it through CFrontEnd's string *)
(* of parameters; the CVBS decoder gets its format from a third number;    *)
(* and a channel may be fine tuned, an offset CFrontEnd keeps in           *)
(* mCurFineFreq beside the parameters of the last tuning.                  *)
(*                                                                         *)
(* External: the bits of a V4L2 standard, and the tuner, which a tuning    *)
(* sets to the frequency asked, without an offset, and which may fail.     *)
(***************************************************************************)
EXTENDS Integers

CONSTANTS
  AtvFreqs,    (* frequencies of the channels on air                       *)
  FineAsked    (* offsets a client asks for, in Hz; -1 if it names none    *)

ASSUME AtvAssumption == AtvFreqs \subseteq Nat \ {0} /\ FineAsked \subseteq Int

VARIABLES
  stations,   (* the analogue channels that scans stored                   *)
  tuner,      (* external: what the tuner is set to                        *)
  cvbs,       (* external: the format of the CVBS decoder                  *)
  cached,     (* CFrontEnd: mFEParas and mCurFineFreq                      *)
  wish,       (* history: the last channel asked for                       *)
  atvDoubt    (* history: why the tuner may be at another offset           *)

atvVars == <<stations, tuner, cvbs, cached, wish, atvDoubt>>

(***************************************************************************)
(* Standards: a set of colour systems and a set of bits.                   *)
(***************************************************************************)

PalDK == {"PAL_D", "PAL_D1", "PAL_K"}
PalBG == {"PAL_B", "PAL_B1", "PAL_G"}
SecamDK == {"SECAM_D", "SECAM_K", "SECAM_K1"}
VideoStds == {"PAL", "NTSC", "SECAM", "AUTO"}
AudioStds == {"DK", "I", "BG", "M", "L"}

\* What enumToStdAndColor has no bits for.
Uncoded == {"PAL", "NTSC"} \X {"L"} \cup {"AUTO"} \X AudioStds

\* enumToStdAndColor.
EnumToStdAndColor(video, audio) ==
  [colour |-> {video} \ {"AUTO"},
   bits |-> IF <<video, audio>> \in Uncoded THEN {}
            ELSE CASE audio = "DK" -> IF video = "SECAM" THEN SecamDK ELSE PalDK
                   [] audio = "I"  -> {"PAL_I"}
                   [] audio = "BG" -> IF video = "SECAM" THEN {"SECAM_B", "SECAM_G"} ELSE PalBG
                   [] audio = "M"  -> IF video = "PAL" THEN {"PAL_M"} ELSE {"NTSC_M"}
                   [] audio = "L"  -> {"SECAM_L"}]

\* stdAndColorToVideoEnum.
StdAndColorToVideoEnum(std) ==
  CASE "PAL" \in std.colour -> "PAL"
    [] "PAL" \notin std.colour /\ "NTSC" \in std.colour -> "NTSC"
    [] std.colour \cap {"PAL", "NTSC"} = {} /\ "SECAM" \in std.colour -> "SECAM"
    [] OTHER -> "PAL"

\* Mutant of StdAndColorToAudioEnum: the SECAM bits of B and G are forgotten.
AudioEnumPalOnly(std) ==
  CASE PalDK \subseteq std.bits \/ SecamDK \subseteq std.bits -> "DK"
    [] "PAL_I" \in std.bits -> "I"
    [] PalBG \subseteq std.bits -> "BG"
    [] "PAL_M" \in std.bits \/ "NTSC_M" \in std.bits -> "M"
    [] "SECAM_L" \in std.bits -> "L"
    [] OTHER -> "DK"

\* stdAndColorToAudioEnum, of standards in which one of the cases holds at most.
StdAndColorToAudioEnum(std) ==
  CASE PalDK \subseteq std.bits \/ SecamDK \subseteq std.bits -> "DK"
    [] "PAL_I" \in std.bits -> "I"
    [] PalBG \subseteq std.bits \/ "SECAM_B" \in std.bits \/ "SECAM_G" \in std.bits -> "BG"
    [] "PAL_M" \in std.bits \/ "NTSC_M" \in std.bits -> "M"
    [] "SECAM_L" \in std.bits -> "L"
    [] OTHER -> "DK"

\* stdEnumToCvbsFmt: with two colour systems, or none, no format, which lets the decoder find one.
StdEnumToCvbsFmt(std) ==
  CASE std.colour = {"NTSC"} -> IF std.bits = {"NTSC_443"} THEN "NTSC_443" ELSE "NTSC_M"
    [] std.colour = {"PAL"} -> CASE std.bits = {"PAL_M"} -> "PAL_M" [] std.bits = {"PAL_60"} -> "PAL_60"
                                 [] std.bits = {"PAL_Nc"} -> "PAL_CN" [] OTHER -> "PAL_I"
    [] std.colour = {"SECAM"} -> "SECAM"
    [] OTHER -> "NULL"

ColourOfFmt(fmt) ==
  CASE fmt \in {"NTSC_M", "NTSC_443"} -> "NTSC"
    [] fmt \in {"PAL_I", "PAL_M", "PAL_60", "PAL_CN"} -> "PAL"
    [] fmt = "SECAM" -> "SECAM"

\* What a scan hears: a standard with a code, or one of the formats that are no broadcast's.
Heard == {EnumToStdAndColor(p[1], p[2]) : p \in VideoStds \X AudioStds \ Uncoded}
         \cup {[colour |-> {"NTSC"}, bits |-> {"NTSC_443"}], [colour |-> {"PAL"}, bits |-> {"PAL_60"}],
               [colour |-> {"PAL", "AUTO"}, bits |-> PalDK]}

(***************************************************************************)
(* Channels and parameters.                                                *)
(***************************************************************************)

\* processTsInfo: what is stored of the channel at freq.
Station(freq, std) ==
  [freq |-> freq, video |-> StdAndColorToVideoEnum(std), audio |-> StdAndColorToAudioEnum(std), vfmt |-> std]

\* The parameters of a station, with AFC or without.
Paras(station, afc) == [station |-> station, afc |-> afc]
NotAnalog == [digital |-> TRUE]

\* setPara(mode, freq, para1, ...) and convertParas: the bits are made numbers again; without AFC.
ConvertAtv(s) ==
  LET std == EnumToStdAndColor(s.video, s.audio) IN
  Paras([s EXCEPT !.video = StdAndColorToVideoEnum(std), !.audio = StdAndColorToAudioEnum(std)], FALSE)

NotTunedAtv == [freq |-> 0, std |-> EnumToStdAndColor("AUTO", "DK"), afc |-> FALSE, fine |-> 0]

AtvInit ==
  /\ stations = {} /\ tuner = NotTunedAtv /\ cvbs = "NULL"
  /\ cached = [paras |-> NotAnalog, fine |-> 0]
  /\ wish = [asked |-> FALSE] /\ atvDoubt = {}

\* Offsets are asked for in Hz and passed in kHz: C++'s division.
KHz(hz) == IF hz < 0 THEN -((-hz) \div 1000) ELSE hz \div 1000

\* setPara: the parameters are kept, then tuned; the same ones again are skipped.
SetAtvPara(paras, force, ok) ==
  IF paras = cached.paras /\ ~force THEN [cached |-> cached, tuner |-> tuner, skipped |-> TRUE]
  ELSE [cached |-> [cached EXCEPT !.paras = paras], skipped |-> FALSE,
        tuner |-> IF ok THEN [freq |-> paras.station.freq, afc |-> paras.afc, fine |-> 0,
                              std |-> EnumToStdAndColor(paras.station.video, paras.station.audio)]
                  ELSE NotTunedAtv]

\* fineTune: mCurFineFreq is the offset asked for last, whatever was tuned since.
FineTune(set, khz, force, ok) ==
  IF set.cached.fine = khz /\ ~force THEN [set EXCEPT !.skipped = @ \/ khz # 0]
  ELSE [set EXCEPT !.cached.fine = khz, !.tuner.fine = IF ok THEN khz ELSE @, !.skipped = FALSE]

\* A channel is tuned: CVBS format, parameters and, unless hz is 0, the offset.
Tune(s, paras, hz, force, ok) ==
  LET set == SetAtvPara(paras, force, ok.tune)
      done == IF hz = 0 THEN set ELSE FineTune(set, KHz(hz), force, ok.fine)
  IN
  /\ cvbs' = StdEnumToCvbsFmt(s.vfmt)
  /\ cached' = done.cached /\ tuner' = done.tuner
  /\ wish' = [asked |-> TRUE, station |-> s, khz |-> KHz(hz), force |-> force]
  /\ atvDoubt' = (IF set.skipped THEN atvDoubt \cap {"failed"} ELSE {})
                 \cup {d \in {"skipped", "failed"} :
                         IF d = "skipped" THEN done.skipped ELSE ~(ok.tune /\ ok.fine)}
  /\ UNCHANGED stations

AtvTunes == [tune : BOOLEAN, fine : BOOLEAN]

(***************************************************************************)
(* Actions.                                                                *)
(***************************************************************************)

\* A digital channel is tuned, or the front end closed.
LeaveAnalog ==
  /\ cached' = [cached EXCEPT !.paras = NotAnalog]
  /\ tuner' = NotTunedAtv /\ atvDoubt' = {} /\ wish' = [asked |-> FALSE]
  /\ UNCHANGED <<stations, cvbs>>

\* A scan, which stops the playback, deletes the channels and at its end closes the front end,
\* stores a channel.
FindStation ==
  /\ \E f \in AtvFreqs, std \in Heard : stations' = {Station(f, std)}
  /\ cached' = [cached EXCEPT !.paras = NotAnalog] /\ cvbs' = "NULL"
  /\ tuner' = NotTunedAtv /\ atvDoubt' = {} /\ wish' = [asked |-> FALSE]

\* playAtvProgram, of the analogue player: the offset it is given is not used.
PlayAtv == \E s \in stations, ok \in AtvTunes : Tune(s, ConvertAtv(s), 0, FALSE, ok)

\* resetFrontEndPara.
ResetFrontEndPara ==
  \E s \in stations, hz \in FineAsked, ok \in AtvTunes : Tune(s, ConvertAtv(s), hz, FALSE, ok)

\* setFrontEnd: the client's string as it is.
SetAtvFrontEnd ==
  \E s \in stations, hz \in FineAsked, afc, force \in BOOLEAN, ok \in AtvTunes :
    Tune(s, Paras(s, afc), hz, force, ok)

AtvNext == FindStation \/ PlayAtv \/ ResetFrontEndPara \/ SetAtvFrontEnd \/ LeaveAnalog
AtvSpec == AtvInit /\ [][AtvNext]_atvVars

(***************************************************************************)
(* Properties.                                                             *)
(***************************************************************************)

(* The tuner and the CVBS decoder get the standard the scan heard: the bits survive being made   *)
(* numbers, twice or three times, and the decoder's format is of the tuner's colour system       *)
(* (CFrontEnd::enumToStdAndColor, stdAndColorToVideoEnum, stdAndColorToAudioEnum, convertParas). *)
StandardSurvives ==
  wish.asked /\ "failed" \notin atvDoubt =>
    /\ tuner.freq = wish.station.freq
    /\ wish.station.vfmt \in {EnumToStdAndColor(p[1], p[2]) : p \in VideoStds \X AudioStds \ Uncoded} =>
         tuner.std = wish.station.vfmt
    /\ cvbs # "NULL" => tuner.std.colour = {ColourOfFmt(cvbs)}

(* The tuner stands at the offset asked for, but where the code knows an offset as set that it   *)
(* has left since: the parameters or the offset were skipped as the ones asked for last, or the  *)
(* tuner failed.  A forced request is never skipped (CFrontEnd::fineTune, mCurFineFreq).         *)
FineFollows ==
  wish.asked /\ "failed" \notin atvDoubt /\ (wish.force \/ "skipped" \notin atvDoubt) =>
    tuner.fine = wish.khz

TunedAsAsked == StandardSurvives /\ FineFollows
=============================================================================
