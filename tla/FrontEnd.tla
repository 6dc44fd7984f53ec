----------------------------- MODULE FrontEnd ------------------------------
(***************************************************************************)
(* CFrontEnd: one object over two tuner devices, the demodulator ("fe")    *)
(* and the analogue front end ("vl"), with the last parameters cached so   *)
(* that tuning to what is already tuned is skipped.  CTv opens and closes  *)
(* it, switches its mode and tunes it, each under mLock.                   *)
(*                                                                         *)
(* External: what a device does.  It is tuned by a SetPara that succeeds,  *)
(* and a change of mode, an open or a close loses what it was tuned to.    *)
(***************************************************************************)
EXTENDS Integers, FiniteSets

CONSTANTS
  TuneFreqs,     (* frequencies asked for                                  *)
  TuneBases      (* modulations asked for                                  *)

ASSUME FrontEndAssumption ==
  /\ TuneFreqs \subseteq Nat \ {0}
  /\ TuneBases \subseteq {"DTMB", "OFDM", "QAM", "ATSC", "ISDBT", "ANALOG"}

VARIABLES
  fend,    (* the members of CFrontEnd                                     *)
  tuned,   (* external: what each device is tuned to                       *)
  tuneDoubt, (* history: why the cache may say more than the device        *)
  lastTune   (* history: the last setPara and whether it was skipped       *)

fendVars == <<fend, tuned, tuneDoubt, lastTune>>

(***************************************************************************)
(* Parameters.                                                             *)
(***************************************************************************)

\* FEParas: base and generation of the mode; p1 is bandwidth, symbol rate, VSB modulation or
\* the analogue standard, p2 modulation (QAM), layer (ISDBT) or AFC (analogue).
ParasOf(bases) ==
  {[base |-> b, gen |-> g, freq |-> f, p1 |-> x, p2 |-> y, plp |-> l] :
     b \in bases, g \in {0, 1}, f \in TuneFreqs, x \in {1, 2}, y \in {1, 2}, l \in {-1, 1}}
Requests ==
  {p \in ParasOf(TuneBases) :
     (p.gen = 1 => p.base = "OFDM") /\ (p.plp = 1 => p.gen = 1) /\ (p.base = "OFDM" => p.p2 = 1)}

NoParas == [base |-> "none", gen |-> 0, freq |-> -1, p1 |-> -1, p2 |-> -1, plp |-> -1]

\* convertParas: the layer is written under a name that nobody reads, and a PLP never.
ConvertParas(p) ==
  [p EXCEPT !.plp = -1, !.p2 = IF p.base \in {"QAM", "ANALOG"} THEN p.p2 ELSE -1]

\* Mutant of SameParas: the modulation of a cable channel is not compared.
SameParasNoModulation(p, q) ==
  /\ p.base = q.base /\ p.gen = q.gen /\ p.freq = q.freq
  /\ p.gen # 0 => p.plp = q.plp
  /\ p.base # "ISDBT" => p.p1 = q.p1
  /\ p.base \in {"ANALOG", "ISDBT"} => p.p2 = q.p2

\* FEParas::operator==.  Of ISDB-T the bandwidth, which is tuned, is not compared.
SameParas(p, q) ==
  /\ p.base = q.base /\ p.gen = q.gen /\ p.freq = q.freq
  /\ p.gen # 0 => p.plp = q.plp
  /\ p.base # "ISDBT" => p.p1 = q.p1
  /\ p.base \in {"QAM", "ANALOG", "ISDBT"} => p.p2 = q.p2

\* What a device is asked for with p: SetPara and, after it, PLP or layer.
TuningOf(p) ==
  [base |-> p.base, gen |-> p.gen, freq |-> p.freq, p1 |-> p.p1,
   p2 |-> IF p.base \in {"QAM", "ANALOG", "ISDBT"} THEN p.p2 ELSE -1,
   plp |-> IF p.base = "OFDM" /\ p.gen # 0 THEN p.plp ELSE -1]
NotTuned == TuningOf(NoParas)

Device(p) == IF p.base = "ANALOG" THEN "vl" ELSE "fe"

(***************************************************************************)
(* Operations.                                                             *)
(***************************************************************************)

\* FE_AUTO and "no mode yet" are the same number.
FendInit ==
  /\ fend = [feOpen |-> FALSE, vlOpen |-> FALSE, mode |-> "AUTO", vlMode |-> "AUTO",
             paras |-> NoParas, freq |-> -1]
  /\ tuned = [d \in {"fe", "vl"} |-> NotTuned]
  /\ tuneDoubt = {} /\ lastTune = [asked |-> NotTuned, skipped |-> FALSE, doubt |-> {}]

Unquestioned == lastTune' = [asked |-> NotTuned, skipped |-> FALSE, doubt |-> {}]

\* Devices that an operation opened, closed or switched are no longer tuned.
Lose(devices) ==
  /\ tuned' = [d \in {"fe", "vl"} |-> IF d \in devices THEN NotTuned ELSE tuned[d]]
  /\ tuneDoubt' = IF tuned[Device(fend.paras)] # NotTuned /\ Device(fend.paras) \in devices
                  THEN tuneDoubt \cup {"mode"} ELSE tuneDoubt

\* Open(mode): the analogue device for ANALOG and AUTO, the demodulator for all but ANALOG; a
\* device that is open already gets another mode.  ok says which device opens.
Open(mode, ok) ==
  LET opensVl == ~fend.vlOpen /\ mode \in {"ANALOG", "AUTO"}
      vlModed == fend.vlOpen /\ fend.vlMode # mode /\ mode = "ANALOG"
      opensFe == ~fend.feOpen /\ mode # "ANALOG"
      feModed == fend.feOpen /\ fend.mode # mode /\ mode # "ANALOG"
      vlGot == opensVl /\ ok.vl
      feGot == opensFe /\ ok.fe
  IN
  /\ fend' = [fend EXCEPT
       !.vlOpen = @ \/ vlGot, !.vlMode = IF vlGot \/ vlModed THEN mode ELSE @,
       !.feOpen = @ \/ feGot, !.mode = IF feGot \/ feModed THEN mode ELSE @,
       !.freq = IF opensFe /\ ~ok.fe THEN @ ELSE -1]
  /\ Lose({d \in {"fe", "vl"} : IF d = "vl" THEN vlGot \/ vlModed ELSE feGot \/ feModed})
  /\ Unquestioned

CloseFend ==
  /\ fend' = [fend EXCEPT !.feOpen = FALSE, !.vlOpen = FALSE, !.mode = "AUTO", !.vlMode = "AUTO",
                          !.freq = -1, !.paras.freq = -1]
  /\ tuned' = [d \in {"fe", "vl"} |-> NotTuned] /\ tuneDoubt' = {}
  /\ Unquestioned

\* setMode switches both devices, open or not.
SetMode(mode) ==
  /\ IF fend.mode = mode /\ fend.vlMode = mode THEN UNCHANGED <<fend, tuned, tuneDoubt>>
     ELSE /\ fend' = [fend EXCEPT !.mode = mode, !.vlMode = IF mode = "ANALOG" THEN mode ELSE "AUTO"]
          /\ Lose({"fe", "vl"})
  /\ Unquestioned

\* Whether a device is tuned, and takes the second request, which only some parameters make.
HasSecond(p) == p.base = "ISDBT" \/ (p.base = "OFDM" /\ p.gen # 0)
Tunes(p) == {ok \in [tune : BOOLEAN, second : BOOLEAN] : ok.second => ok.tune /\ HasSecond(p)}

\* setPara: the parameters are cached first, then tuned; an analogue channel leaves the
\* demodulator as it is and the reverse.  The PLP or layer is a second request to the device.
SetPara(p, force, ok) ==
  LET d == Device(p)  second == HasSecond(p) IN
  IF SameParas(fend.paras, p) /\ ~force
  THEN /\ lastTune' = [asked |-> TuningOf(p), skipped |-> TRUE, doubt |-> tuneDoubt]
       /\ UNCHANGED <<fend, tuned, tuneDoubt>>
  ELSE /\ fend' = [fend EXCEPT !.paras = p, !.freq = p.freq,
                     !.mode = p.base, !.vlMode = IF p.base = "ANALOG" THEN "ANALOG" ELSE "AUTO"]
       /\ tuned' = [tuned EXCEPT ![d] =
            IF ~ok.tune THEN NotTuned
            ELSE IF second /\ ~ok.second THEN [TuningOf(p) EXCEPT !.p2 = -1, !.plp = -1] ELSE TuningOf(p)]
       /\ tuneDoubt' = IF ok.tune /\ (second => ok.second) THEN {} ELSE {"failed"}
       /\ Unquestioned

(***************************************************************************)
(* CTv's use of it.                                                        *)
(***************************************************************************)

Opens == [fe : BOOLEAN, vl : BOOLEAN]

\* The source switch, operateDeviceForScan and the players open; StopTvLock sets the mode AUTO
\* and closes; setFrontEnd opens, sets the mode and tunes, with parameters as a string; the
\* players and resetFrontEndPara open and tune, with parameters as numbers.  To force a tuning
\* makes a difference only to one that would be skipped.
FendNext ==
  \/ \E mode \in TuneBases \cup {"AUTO"}, ok \in Opens : Open(mode, ok)
  \/ CloseFend
  \/ \E mode \in TuneBases \cup {"AUTO"} : SetMode(mode)
  \/ \E p \in Requests : \E force \in {FALSE, SameParas(fend.paras, p)}, ok \in Tunes(p) : SetPara(p, force, ok)
  \/ \E p \in Requests : \E ok \in Tunes(p) : SetPara(ConvertParas(p), FALSE, ok)

FendSpec == FendInit /\ [][FendNext]_fendVars

(***************************************************************************)
(* Properties.                                                             *)
(***************************************************************************)

Tunings == [base : TuneBases \cup {"none"}, gen : {0, 1}, freq : TuneFreqs \cup {-1},
            p1 : {-1, 1, 2}, p2 : {-1, 1, 2}, plp : {-1, 1}]
FendTypeOK ==
  /\ fend.feOpen \in BOOLEAN /\ fend.vlOpen \in BOOLEAN
  /\ {fend.mode, fend.vlMode} \subseteq TuneBases \cup {"AUTO"}
  /\ {fend.paras, lastTune.asked, tuned.fe, tuned.vl} \subseteq Tunings
  /\ fend.freq \in TuneFreqs \cup {-1}
  /\ tuneDoubt \subseteq {"mode", "failed"} /\ lastTune.skipped \in BOOLEAN

(* A request that setPara skips as "same" asks for what the device is tuned to, but in three     *)
(* cases the code does not look at: the tuning before failed, the mode was changed since, or     *)
(* only the bandwidth of an ISDB-T channel differs (CFrontEnd::setPara, FEParas::operator==).    *)
SkippedIsTuned ==
  lastTune.skipped /\ lastTune.doubt = {} =>
    LET is == tuned[Device(lastTune.asked)] IN
    is = IF is.base = "ISDBT" THEN [lastTune.asked EXCEPT !.p1 = is.p1] ELSE lastTune.asked
=============================================================================
