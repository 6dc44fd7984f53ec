----------------------------- MODULE VdinDevice ----------------------------
(***************************************************************************)
(* CTvin over the vdin driver: the decoder and the signal it decodes, the  *)
(* snow that analogue TV shows without a signal, and the kernel's two      *)
(* video paths, which CTv rebuilds at the first switch and, where          *)
(* incomplete, when it comes to digital TV.  CTv calls it under mLock.     *)
(* Modelled of a build that shows snow (mATVDisplaySnow).  The port is     *)
(* module Tv's.                                                            *)
(*                                                                         *)
(* External: the driver, which may refuse to start and to stop, the kernel *)
(* map of paths, of which a write may fail, and other processes, which     *)
(* leave a path in parts.                                                  *)
(***************************************************************************)
EXTENDS Integers

CONSTANT
  StableSignals    (* formats of stable signals                            *)

ASSUME VdinAssumption == StableSignals \cap {"none", "nosig", "unstable", "notsup"} = {}

VARIABLES
  vdin,     (* the members of CTvin, and those of CTv it depends on        *)
  vfm,      (* external: the two paths, "whole", "partial" or "none"       *)
  shown,    (* external: the driver shows snow                             *)
  vdinDoubt (* history: what the code cannot know, or does not look at     *)

vdinVars == <<vdin, vfm, shown, vdinDoubt>>

VdinSources == {"TV", "DTV", "HDMI"}
\* "none": the driver does not tell.
Signals == StableSignals \cup {"nosig", "unstable", "notsup", "none"}

VdinInit ==
  /\ vdin = [source |-> "none", first |-> TRUE, inVdin |-> FALSE, scanning |-> FALSE,
             decoding |-> FALSE, info |-> "none", snow |-> FALSE, sig |-> "none"]
  /\ vfm \in [{"default", "tvpath"} -> {"whole", "partial", "none"}]
  /\ shown = FALSE /\ vdinDoubt = {}

(***************************************************************************)
(* CTvin's operations, on its members.                                     *)
(***************************************************************************)

\* Tvin_StopDecoder: with the ioctl refused the decoder stays started.
StopVdin(v, refused) == [v EXCEPT !.decoding = @ /\ refused]

\* Tvin_StartDecoder: it decodes the current signal; one that runs goes on as it is.
StartVdin(v, ok) == IF v.decoding THEN v ELSE [v EXCEPT !.info = v.sig, !.decoding = ok]

\* SetSnowShowEnable, SwitchSnow: only a change is passed on, and its result is not looked at.
SnowOn(v, on) == [v EXCEPT !.snow = on]
ShownAfter(v) == IF v.snow = vdin.snow THEN {shown} ELSE {shown, v.snow}

\* SwitchPort: with the decoder not stopped the port stays.
SwitchPort(v, refused) == LET s == StopVdin(v, refused) IN [s EXCEPT !.inVdin = @ \/ ~s.decoding]

\* Tvin_RemovePath, up to 50 times, then VDIN_AddVideoPath, once, its result not looked at.
RebuildPath(paths, p, w) ==
  IF w.remove THEN [paths EXCEPT ![p] = IF w.add THEN "whole" ELSE "none"] ELSE paths

\* Tvin_CheckVideoPathComplete.
Incomplete(paths, p) == paths[p] # "whole"

Writes == [remove : BOOLEAN, add : BOOLEAN]
Wrote(w) == w.remove /\ w.add

\* Whether the driver refuses to stop matters while it decodes; to start it takes a video that is
\* free within ten seconds, and the driver.
DecoderRefusals == IF vdin.decoding THEN BOOLEAN ELSE {FALSE}
StartOutcomes == BOOLEAN

\* A step ends some doubts and brings new ones; those about the snow begin with a call the driver did
\* not follow and end when snow is off.
Doubts(cond, doubt) == {d \in {doubt} : cond}
KeepDoubt(ended, new) ==
  vdinDoubt' = ((vdinDoubt \ ended) \cup new \cup Doubts(shown' # vdin'.snow, "snow"))
                 \ Doubts(~shown' /\ ~vdin'.snow, "snow")

(***************************************************************************)
(* CTv's use of it.                                                        *)
(***************************************************************************)

\* SetSourceSwitchInputLocked: both paths at the first call; the decoder at a change of the source;
\* the snow is left as it is.
SwitchVdin ==
  \E source \in VdinSources, refused \in DecoderRefusals, t, d \in Writes :
    LET paths == IF vdin.first THEN RebuildPath(RebuildPath(vfm, "tvpath", t), "default", d) ELSE vfm
        toDtv == source = "DTV" /\ vdin.source # "DTV"
        incomplete == toDtv /\ Incomplete(paths, "default")
        v == [vdin EXCEPT !.first = FALSE, !.source = source]
    IN
    /\ vdin.first \/ (t = d /\ (Wrote(t) \/ incomplete))
    /\ UNCHANGED shown
    /\ vfm' = IF incomplete THEN RebuildPath(paths, "default", d) ELSE paths
    /\ vdin' = IF source = vdin.source THEN v
               ELSE IF source = "DTV" THEN StopVdin(v, refused) ELSE SwitchPort(v, refused)
    /\ KeepDoubt(Doubts(toDtv, "path"),
                 Doubts(toDtv /\ ~Wrote(d), "path") \cup Doubts(vdin.source = "TV" /\ source # "TV", "snow")
                 \cup Doubts(refused, "refused"))

AnalogSnow == vdin.source = "TV"

\* Mutant of StableStops: the snow goes off with the decoder running on.
StableStopsNothing(v, refused) == IF AnalogSnow THEN SnowOn(v, FALSE) ELSE v

\* onSigStillStable: before it starts the decoder.
StableStops(v, refused) ==
  IF AnalogSnow /\ v.snow THEN SnowOn(StopVdin(v, refused), FALSE) ELSE v

\* onVdinSignalChange, of a build whose analogue TV shows snow: with a stable signal the snow is
\* turned off and the decoder started; without one snow is decoded, on other sources nothing.
VdinSignal ==
  /\ vdin.inVdin /\ ~vdin.scanning
  /\ \E sig \in Signals, refused \in DecoderRefusals, ok \in StartOutcomes :
       LET v == [vdin EXCEPT !.sig = sig]
           stopped == StableStops(v, refused)
           lost == sig \in {"nosig", "notsup"}
           after == CASE sig \in StableSignals -> StartVdin(stopped, ok)
                      [] lost /\ AnalogSnow -> StartVdin(SnowOn(v, TRUE), ok)
                      [] sig = "none" \/ (sig = "unstable" /\ AnalogSnow) -> v
                      [] OTHER -> StopVdin(v, refused)
       IN
       /\ vdin' = after /\ shown' \in ShownAfter(after)
       /\ KeepDoubt(IF stopped.decoding THEN {} ELSE {"signal", "refused"},
                    Doubts(refused, "refused")
                    \cup Doubts(sig \in StableSignals /\ vdin.decoding
                                /\ vdin.sig \in StableSignals \cup {"unstable", "none"}, "signal"))
  /\ UNCHANGED vfm

\* atvAutoScan shows snow, whatever the source is; atvMunualScan and Scan do not, and Scan stops the
\* decoder.
ScanVdin ==
  /\ ~vdin.scanning
  /\ \E kind \in {"auto", "manual", "mixed"}, refused \in DecoderRefusals :
       LET v == [vdin EXCEPT !.scanning = TRUE]
           after == CASE kind = "auto" -> SnowOn(v, TRUE)
                      [] kind = "manual" -> v
                      [] kind = "mixed" -> StopVdin(v, refused)
       IN
       /\ vdin' = after /\ shown' \in ShownAfter(after)
       /\ KeepDoubt({}, Doubts(kind = "auto" /\ vdin.source # "TV", "snow") \cup Doubts(refused, "refused"))
  /\ UNCHANGED vfm

\* A mixed scan turns to its digital, and to its analogue, part (CTvScanner).
ScannerTurns ==
  /\ vdin.scanning
  /\ UNCHANGED <<vfm, shown>>
  /\ \E refused \in DecoderRefusals :
       vdin' = StopVdin(vdin, refused) /\ KeepDoubt({}, Doubts(refused, "refused"))

\* stopScan: on analogue TV the decoder and the snow go off.
StopScanVdin ==
  /\ vdin.scanning
  /\ \E refused \in DecoderRefusals :
       LET v == [vdin EXCEPT !.scanning = FALSE]
           off == IF AnalogSnow THEN SnowOn(StopVdin(v, refused), FALSE) ELSE v
       IN
       vdin' = off /\ shown' \in ShownAfter(off) /\ KeepDoubt({}, Doubts(refused, "refused"))
  /\ UNCHANGED vfm

\* setFrontEnd: digital parameters, on analogue TV of the combined source (adtv), or analogue ones.
SetFrontEndVdin ==
  /\ ~vdin.scanning
  /\ \E refused \in DecoderRefusals, digital, adtv \in BOOLEAN :
       LET v == StopVdin(vdin, refused)
           after == IF ~digital THEN [v EXCEPT !.inVdin = @ \/ vdin.source = "DTV"]
                    ELSE IF AnalogSnow /\ adtv THEN [SnowOn(v, FALSE) EXCEPT !.inVdin = FALSE] ELSE vdin
       IN
       vdin' = after /\ shown' \in ShownAfter(after) /\ KeepDoubt({}, Doubts(refused, "refused"))
  /\ UNCHANGED vfm

\* StopTvLock: the snow goes off if the source is analogue TV.
StopTvVdin ==
  /\ \E refused \in DecoderRefusals :
       LET v == StopVdin(vdin, refused)
           off == IF AnalogSnow THEN SnowOn(v, FALSE) ELSE v
           after == [off EXCEPT !.source = "none", !.inVdin = FALSE, !.scanning = FALSE]
       IN
       vdin' = after /\ shown' \in ShownAfter(after) /\ KeepDoubt({}, Doubts(refused, "refused"))
  /\ UNCHANGED vfm

\* External: another process leaves the decoder's path in parts; the other one is tvserver's own.
OthersUsePath ==
  /\ vfm' = [vfm EXCEPT !["default"] = "partial"]
  /\ vdinDoubt' = vdinDoubt \cup {"path"}
  /\ UNCHANGED <<vdin, shown>>

VdinNext ==
  \/ SwitchVdin \/ VdinSignal \/ ScanVdin \/ ScannerTurns \/ StopScanVdin
  \/ SetFrontEndVdin \/ StopTvVdin \/ OthersUsePath

VdinSpec == VdinInit /\ [][VdinNext]_vdinVars

(***************************************************************************)
(* Properties.                                                             *)
(***************************************************************************)

(* On digital TV the decoder's path is whole, but where a write of the map failed or another     *)
(* process took the path since (CTv::SetSourceSwitchInputLocked, Tvin_CheckVideoPathComplete).   *)
DtvFindsPath == vdin.source = "DTV" /\ "path" \notin vdinDoubt => vfm["default"] = "whole"

(* Snow is shown on analogue TV only, unless the source was left with the snow on, a scan was    *)
(* started from another source, or the driver refused (SetSnowShowEnable, CTvin::SwitchSnow).    *)
SnowStaysOnAnalog == shown /\ "snow" \notin vdinDoubt => vdin.source = "TV"

(* What is decoded is the signal last told as stable, but where the decoder was not stopped       *)
(* since: the driver refused, or one stable signal followed another with none lost between, which *)
(* nothing stops (CTv::onSigStillStable, CTvin::Tvin_StartDecoder, which ignores a new format).   *)
DecodesTheSignal ==
  vdin.decoding /\ vdin.sig \in StableSignals /\ vdinDoubt \cap {"signal", "refused"} = {} =>
    vdin.info = vdin.sig

VdinFollows == DtvFindsPath /\ SnowStaysOnAnalog /\ DecodesTheSignal
=============================================================================
