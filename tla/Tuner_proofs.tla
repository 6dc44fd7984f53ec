---------------------------- MODULE Tuner_proofs ----------------------------
(***************************************************************************)
(* Theorems about the tuner: a skipped tuning was done (FrontEnd); the     *)
(* library scans once at a time, and only a stop that overlaps an unlocked *)
(* call lets it use a destroyed scan (Scanner); the receiver is set up for *)
(* what is scanned (Scanner); the vdin driver does what the source and the *)
(* signal ask for (VdinDevice); an analogue channel is tuned with the      *)
(* standard it was found with (AtvStandard); ratings and alerts reach the  *)
(* clients as they were sent (Psip).                                       *)
(***************************************************************************)
EXTENDS Psip, FrontEnd, Scanner, VdinDevice, AtvStandard, DataLemmas, SequenceTheorems, TLAPS

-----------------------------------------------------------------------------
(* The front end.                                                          *)

(* Unless the cache is in doubt or has no frequency, its device is tuned to it. *)
CacheTold ==
  tuneDoubt = {} /\ fend.paras.freq # -1 => tuned[Device(fend.paras)] = TuningOf(fend.paras)

Devices == {"fe", "vl"}
IsParas(p) ==
  p = [base |-> p.base, gen |-> p.gen, freq |-> p.freq, p1 |-> p.p1, p2 |-> p.p2, plp |-> p.plp]
HasFields(f) ==
  /\ f = [feOpen |-> f.feOpen, vlOpen |-> f.vlOpen, mode |-> f.mode, vlMode |-> f.vlMode,
          paras |-> f.paras, freq |-> f.freq]
  /\ IsParas(f.paras)
FendTypes ==
  /\ HasFields(fend)
  /\ tuned = [d \in Devices |-> tuned[d]]

FendInv == FendTypes /\ CacheTold

LEMMA DeviceOf == \A p : Device(p) \in Devices
  BY DEF Device, Devices

LEMMA NotTunedIs == NotTuned.freq = -1
  BY DEF NotTuned, TuningOf, NoParas

(* What is asked for has a frequency. *)
LEMMA RequestType == \A p \in Requests : IsParas(p) /\ IsParas(ConvertParas(p))
                                         /\ p.freq # -1 /\ ConvertParas(p).freq # -1
<1> SUFFICES ASSUME NEW p \in Requests
             PROVE  IsParas(p) /\ IsParas(ConvertParas(p)) /\ p.freq # -1 /\ ConvertParas(p).freq # -1
  OBVIOUS
<1>1. PICK b \in TuneBases, g \in {0, 1}, f \in TuneFreqs, x \in {1, 2}, y \in {1, 2}, l \in {-1, 1} :
        p = [base |-> b, gen |-> g, freq |-> f, p1 |-> x, p2 |-> y, plp |-> l]
  BY DEF Requests, ParasOf
<1>2. f # -1
  BY FrontEndAssumption DEF FrontEndAssumption
<1>3. IsParas(p) /\ p.freq = f
  BY <1>1 DEF IsParas
<1>4. IsParas(ConvertParas(p)) /\ ConvertParas(p).freq = p.freq
  <2> DEFINE q == [p EXCEPT !.plp = -1]
             c == IF p.base \in {"QAM", "ANALOG"} THEN p.p2 ELSE -1
             r == [q EXCEPT !.p2 = c]
  <2>1. IsParas(q) /\ q.freq = p.freq
    BY <1>3 DEF IsParas
  <2>2. ConvertParas(p) = r
    BY DEF ConvertParas
  <2> HIDE DEF q, c
  <2>3. IsParas(r) /\ r.freq = q.freq
    BY <2>1 DEF IsParas
  <2> HIDE DEF r
  <2> QED BY <2>1, <2>2, <2>3
<1> QED BY <1>2, <1>3, <1>4

LEMMA FendInitInv == FendInit => FendInv /\ SkippedIsTuned
<1> SUFFICES ASSUME FendInit PROVE FendInv /\ SkippedIsTuned
  OBVIOUS
<1>1. fend.paras = NoParas /\ IsParas(NoParas) /\ fend.paras.freq = -1
  BY DEF FendInit, NoParas, IsParas
<1>2. FendTypes
  BY <1>1, NotTunedIs DEF FendInit, HasFields, FendTypes, Devices
<1>3. CacheTold
  BY <1>1 DEF CacheTold
<1>4. SkippedIsTuned
  BY DEF FendInit, SkippedIsTuned
<1> QED BY <1>2, <1>3, <1>4 DEF FendInv

(* Losing devices leaves the cache told, or in doubt. *)
LEMMA LoseKeeps ==
  ASSUME NEW devices, FendInv, Lose(devices), fend'.paras = fend.paras, FendTypes'
  PROVE  CacheTold'
<1>1. CASE tuneDoubt = {} /\ fend.paras.freq # -1
  <2>1. tuned[Device(fend.paras)] = TuningOf(fend.paras)
    BY <1>1 DEF FendInv, CacheTold
  <2>2. TuningOf(fend.paras).freq = fend.paras.freq
    BY DEF TuningOf
  <2>3. tuned[Device(fend.paras)] # NotTuned
    BY <1>1, <2>1, <2>2, NotTunedIs
  <2>4. CASE Device(fend.paras) \in devices
    BY <2>3, <2>4 DEF Lose, CacheTold
  <2>5. CASE Device(fend.paras) \notin devices
    <3>1. tuned'[Device(fend.paras)] = tuned[Device(fend.paras)]
      BY <2>5, DeviceOf DEF Lose, Devices
    <3> QED BY <2>1, <3>1 DEF CacheTold, FendInv
  <2> QED BY <2>4, <2>5
<1>2. CASE tuneDoubt # {}
  BY <1>2 DEF Lose, CacheTold
<1>3. CASE fend.paras.freq = -1
  BY <1>3 DEF CacheTold
<1> QED BY <1>1, <1>2, <1>3

LEMMA LoseType == ASSUME NEW devices, FendInv, Lose(devices) PROVE tuned' = [d \in Devices |-> tuned'[d]]
  BY NotTunedIs DEF Lose, FendInv, FendTypes, Devices

LEMMA UnquestionedOk == Unquestioned => SkippedIsTuned'
  BY DEF Unquestioned, SkippedIsTuned

LEMMA SetParaStep ==
  ASSUME FendInv, NEW p, IsParas(p), p.freq # -1, NEW force, NEW ok,
         SetPara(p, force, ok)
  PROVE  FendInv' /\ SkippedIsTuned'
<1>d. Device(p) \in Devices
  BY DeviceOf
<1>1. CASE SameParas(fend.paras, p) /\ ~force
  <2>1. UNCHANGED <<fend, tuned, tuneDoubt>> /\ lastTune'.asked = TuningOf(p) /\ lastTune'.doubt = tuneDoubt
    BY <1>1 DEF SetPara
  <2>2. FendInv'
    BY <2>1 DEF FendInv, FendTypes, CacheTold
  <2>3. ASSUME tuneDoubt = {} PROVE SkippedIsTuned'
    <3> DEFINE q == fend.paras
    <3>1. q.base = p.base /\ q.gen = p.gen /\ q.freq = p.freq
      BY <1>1 DEF SameParas, FendInv, FendTypes
    <3>2. tuned[Device(q)] = TuningOf(q)
      BY <2>3, <3>1 DEF FendInv, CacheTold
    <3>3. Device(TuningOf(p)) = Device(q)
      BY <3>1 DEF Device, TuningOf
    <3>4. CASE p.base = "ISDBT"
      <4>1. q.p2 = p.p2
        BY <1>1, <3>1, <3>4 DEF SameParas
      <4>2. TuningOf(q) = [TuningOf(p) EXCEPT !.p1 = q.p1]
        BY <3>1, <3>4, <4>1 DEF TuningOf
      <4>3. TuningOf(q).base = "ISDBT" /\ TuningOf(q).p1 = q.p1
        BY <3>1, <3>4 DEF TuningOf
      <4> QED BY <2>1, <3>2, <3>3, <4>2, <4>3 DEF SkippedIsTuned
    <3>5. CASE p.base # "ISDBT"
      <4>1. q.p1 = p.p1 /\ (p.base \in {"QAM", "ANALOG"} => q.p2 = p.p2) /\ (p.gen # 0 => q.plp = p.plp)
        BY <1>1, <3>1, <3>5 DEF SameParas
      <4>2. TuningOf(q) = TuningOf(p)
        BY <3>1, <3>5, <4>1 DEF TuningOf
      <4>3. TuningOf(q).base # "ISDBT"
        BY <3>1, <3>5 DEF TuningOf
      <4> QED BY <2>1, <3>2, <3>3, <4>2, <4>3 DEF SkippedIsTuned
    <3> QED BY <3>4, <3>5
  <2>4. tuneDoubt # {} => SkippedIsTuned'
    BY <2>1 DEF SkippedIsTuned
  <2> QED BY <2>2, <2>3, <2>4
<1>2. CASE ~(SameParas(fend.paras, p) /\ ~force)
  <2> DEFINE second == HasSecond(p)
             good == ok.tune /\ (second => ok.second)
  <2>1. /\ fend' = [fend EXCEPT !.paras = p, !.freq = p.freq,
                     !.mode = p.base, !.vlMode = IF p.base = "ANALOG" THEN "ANALOG" ELSE "AUTO"]
        /\ tuned' = [tuned EXCEPT ![Device(p)] =
            IF ~ok.tune THEN NotTuned
            ELSE IF second /\ ~ok.second THEN [TuningOf(p) EXCEPT !.p2 = -1, !.plp = -1] ELSE TuningOf(p)]
        /\ tuneDoubt' = IF good THEN {} ELSE {"failed"}
        /\ lastTune'.skipped = FALSE
    BY <1>2 DEF SetPara, Unquestioned
  <2>3. tuned' = [d \in Devices |-> tuned'[d]]
    BY <2>1 DEF FendInv, FendTypes
  <2>4. FendTypes'
    BY <2>1, <2>3 DEF FendInv, FendTypes, HasFields
  <2>5. fend'.paras = p
    BY <2>1 DEF FendInv, FendTypes, HasFields
  <2>6. CacheTold'
    <3>1. CASE good
      <4>1. tuned'[Device(p)] = TuningOf(p)
        BY <2>1, <3>1, <1>d DEF FendInv, FendTypes
      <4> QED BY <4>1, <2>5 DEF CacheTold
    <3>2. CASE ~good
      BY <2>1, <3>2 DEF CacheTold
    <3> QED BY <3>1, <3>2
  <2>7. SkippedIsTuned'
    BY <2>1 DEF SkippedIsTuned
  <2> QED BY <2>4, <2>6, <2>7 DEF FendInv
<1> QED BY <1>1, <1>2

LEMMA FendNextInv == FendInv /\ SkippedIsTuned /\ [FendNext]_fendVars => FendInv' /\ SkippedIsTuned'
<1> SUFFICES ASSUME FendInv, SkippedIsTuned, [FendNext]_fendVars PROVE FendInv' /\ SkippedIsTuned'
  OBVIOUS
<1> DEFINE Modes == TuneBases \cup {"AUTO"}
<1>1. ASSUME NEW mode \in Modes, NEW ok \in Opens, Open(mode, ok) PROVE FendInv' /\ SkippedIsTuned'
  <2>2. HasFields(fend') /\ fend'.paras = fend.paras
    BY <1>1 DEF Open, FendInv, FendTypes, HasFields
  <2>3. PICK devices : Lose(devices)
    BY <1>1 DEF Open
  <2>4. FendTypes'
    BY <2>2, <2>3, LoseType DEF FendTypes
  <2>5. CacheTold'
    BY <2>2, <2>3, <2>4, LoseKeeps
  <2>6. SkippedIsTuned'
    BY <1>1, UnquestionedOk DEF Open
  <2> QED BY <2>4, <2>5, <2>6 DEF FendInv
<1>2. CASE CloseFend
  <2>1. HasFields(fend') /\ fend'.paras.freq = -1
    BY <1>2 DEF CloseFend, FendInv, FendTypes, HasFields, IsParas
  <2>2. tuned' = [d \in Devices |-> tuned'[d]]
    BY <1>2, NotTunedIs DEF CloseFend, Devices
  <2>3. SkippedIsTuned'
    BY <1>2, UnquestionedOk DEF CloseFend
  <2> QED BY <2>1, <2>2, <2>3 DEF FendInv, FendTypes, CacheTold
<1>3. ASSUME NEW mode \in Modes, SetMode(mode) PROVE FendInv' /\ SkippedIsTuned'
  <2>s. SkippedIsTuned'
    BY <1>3, UnquestionedOk DEF SetMode
  <2>1. CASE UNCHANGED <<fend, tuned, tuneDoubt>>
    BY <2>1, <2>s DEF FendInv, FendTypes, CacheTold
  <2>2. CASE ~UNCHANGED <<fend, tuned, tuneDoubt>>
    <3>1. fend' = [fend EXCEPT !.mode = mode, !.vlMode = IF mode = "ANALOG" THEN mode ELSE "AUTO"]
          /\ Lose({"fe", "vl"})
      BY <1>3, <2>2 DEF SetMode
    <3>3. HasFields(fend') /\ fend'.paras = fend.paras
      BY <3>1 DEF FendInv, FendTypes, HasFields
    <3>4. FendTypes'
      BY <3>1, <3>3, LoseType DEF FendTypes
    <3>5. CacheTold'
      BY <3>1, <3>3, <3>4, LoseKeeps
    <3> QED BY <3>4, <3>5, <2>s DEF FendInv
  <2> QED BY <2>1, <2>2
<1>4. ASSUME NEW p \in Requests, NEW force \in {FALSE, SameParas(fend.paras, p)}, NEW ok \in Tunes(p), SetPara(p, force, ok)
      PROVE  FendInv' /\ SkippedIsTuned'
  BY <1>4, RequestType, SetParaStep
<1>5. ASSUME NEW p \in Requests, NEW ok \in Tunes(p), SetPara(ConvertParas(p), FALSE, ok)
      PROVE  FendInv' /\ SkippedIsTuned'
  <2>1. IsParas(ConvertParas(p)) /\ ConvertParas(p).freq # -1
    BY RequestType
  <2> QED BY <1>5, <2>1, SetParaStep
<1>6. CASE UNCHANGED fendVars
  BY <1>6 DEF fendVars, FendInv, FendTypes, CacheTold, SkippedIsTuned
<1> QED BY <1>1, <1>2, <1>3, <1>4, <1>5, <1>6 DEF FendNext

(* A request that setPara skips asks for what the device is tuned to, for every set of          *)
(* frequencies and modulations and every sequence of opens, closes, mode changes and failed      *)
(* tunings, but in the cases SkippedIsTuned names.                                               *)
THEOREM SkippedTunings == FendSpec => []SkippedIsTuned
<1>1. FendInv /\ SkippedIsTuned /\ [FendNext]_fendVars => (FendInv /\ SkippedIsTuned)'
  BY FendNextInv
<1> QED BY <1>1, FendInitInv, PTL DEF FendSpec

-----------------------------------------------------------------------------
(* The scanner.                                                            *)

(* A scan that runs is the one stopScan would destroy; where the call under *)
(* mLock is tells whether there is one; an unlocked call that no stop has   *)
(* overlapped still has it.                                                 *)
Runs(h) == lib[h].state = "runs"
Live == Runs(scan.handle) /\ scan.handle \in Handles
NothingRuns == \A h \in Handles : ~Runs(h)
Owned == \A h \in Handles : Runs(h) => h = scan.handle

Positions ==
  /\ scanCall.at \in {"out", "destroy", "clear", "create", "flag"}
  /\ scanCall.at = "out" => (IF scan.start = TRUE THEN Live ELSE NothingRuns)
  /\ scanCall.at = "destroy" => scan.start = TRUE /\ Live
  /\ scanCall.at = "clear" => scan.start = TRUE /\ NothingRuns
  /\ scanCall.at = "create" => scan.start = FALSE /\ NothingRuns
  /\ scanCall.at = "flag" => scan.start = FALSE /\ Live

Unlocked ==
  query.handle # 0 /\ query.overlapped = FALSE =>
    scanCall.at = "out" /\ scan.start = TRUE /\ query.handle = scan.handle

ScanFields(s) ==
  s = [start |-> s.start, handle |-> s.handle, kind |-> s.kind, feType |-> s.feType, vbi |-> s.vbi,
       total |-> s.total, percent |-> s.percent]
LibFields(l) == l = [state |-> l.state, phase |-> l.phase, at |-> l.at, type |-> l.type]
CallFields(c) == c = [at |-> c.at, next |-> c.next]
QueryFields(q) == q = [handle |-> q.handle, met |-> q.met, overlapped |-> q.overlapped]
ScannerTypes ==
  /\ ScanFields(scan) /\ scan.start \in BOOLEAN
  /\ lib = [h \in Handles |-> lib[h]] /\ \A h \in Handles : LibFields(lib[h])
  /\ CallFields(scanCall)
  /\ QueryFields(query) /\ query.overlapped \in BOOLEAN

ScannerInv == ScannerTypes /\ Owned /\ Positions /\ Unlocked

LEMMA ScannerInitInv == ScannerInit => ScannerInv /\ QueryMeetsScan
<1> SUFFICES ASSUME ScannerInit PROVE ScannerInv /\ QueryMeetsScan
  OBVIOUS
<1>1. scan.start = FALSE /\ ScanFields(scan)
  BY DEF ScannerInit, ScanFields
<1>2. /\ lib = [h \in Handles |-> lib[h]]
      /\ \A h \in Handles : LibFields(lib[h]) /\ lib[h].state = "none"
  BY DEF ScannerInit, NoScan, LibFields
<1>3. scanCall.at = "out" /\ CallFields(scanCall)
  BY DEF ScannerInit, CallFields
<1>4. query.handle = 0 /\ query.met = "none" /\ query.overlapped = FALSE /\ QueryFields(query)
  BY DEF ScannerInit, QueryFields
<1>5. ScannerTypes
  BY <1>1, <1>2, <1>3, <1>4 DEF ScannerTypes
<1>6. Owned /\ Positions /\ Unlocked
  BY <1>1, <1>2, <1>3, <1>4 DEF Owned, Positions, Unlocked, NothingRuns, Runs
<1>7. QueryMeetsScan
  BY <1>4 DEF QueryMeetsScan
<1> QED BY <1>5, <1>6, <1>7 DEF ScannerInv

(* Steps that leave the call, the query and which scans run alone. *)
LEMMA Untouched ==
  ASSUME ScannerInv, ScanFields(scan'), scan'.start = scan.start, scan'.handle = scan.handle,
         lib' = [h \in Handles |-> lib'[h]],
         \A h \in Handles : LibFields(lib'[h]) /\ lib'[h].state = lib[h].state,
         scanCall' = scanCall, query' = query
  PROVE  ScannerInv'
<1>1. ScannerTypes'
  BY DEF ScannerInv, ScannerTypes
<1>2. \A h \in Handles : Runs(h)' <=> Runs(h)
  BY DEF Runs
<1>3. scan.handle \in Handles => (Runs(scan.handle)' <=> Runs(scan.handle))
  BY DEF Runs
<1>4. Owned' /\ (Live' <=> Live) /\ (NothingRuns' <=> NothingRuns)
  <2>1. Owned'
    BY <1>2 DEF ScannerInv, Owned
  <2>2. Live' <=> Live
    BY DEF Live, Runs
  <2>3. NothingRuns' <=> NothingRuns
    BY <1>2 DEF NothingRuns
  <2> QED BY <2>1, <2>2, <2>3
<1>5. Positions' /\ Unlocked'
  BY <1>4 DEF ScannerInv, Positions, Unlocked
<1> QED BY <1>1, <1>4, <1>5 DEF ScannerInv

LEMMA BeginStopStep == ASSUME ScannerInv, NEW next, BeginStop(next) PROVE ScannerInv'
<1>1. scanCall.at = "out" /\ lib' = lib
  BY DEF BeginStop
<1>2. scan'.start = scan.start /\ scan'.handle = scan.handle /\ ScanFields(scan')
  BY DEF BeginStop, StopVbi, ScannerInv, ScannerTypes, ScanFields
<1>3. CASE scan.start = TRUE
  <2>1. scanCall' = [at |-> "destroy", next |-> next]
        /\ query' = [query EXCEPT !.overlapped = query.overlapped \/ query.handle # 0]
    BY <1>3 DEF BeginStop
  <2>2. scanCall'.at = "destroy" /\ CallFields(scanCall')
    BY <2>1 DEF CallFields
  <2>3. QueryFields(query') /\ query'.handle = query.handle
    BY <2>1 DEF ScannerInv, ScannerTypes, QueryFields
  <2>4. query'.overlapped = (query.overlapped \/ query.handle # 0)
    BY <2>1 DEF ScannerInv, ScannerTypes, QueryFields
  <2>5. query'.overlapped \in BOOLEAN
    BY <2>4
  <2>6. query'.handle # 0 => query'.overlapped # FALSE
    BY <2>3, <2>4
  <2>7. Live /\ Live'
    BY <1>1, <1>2, <1>3 DEF ScannerInv, Positions, Live, Runs
  <2>8. ScannerTypes'
    BY <1>1, <1>2, <2>2, <2>3, <2>5 DEF ScannerInv, ScannerTypes
  <2>9. Owned' /\ Positions' /\ Unlocked'
    BY <1>1, <1>2, <1>3, <2>2, <2>6, <2>7 DEF ScannerInv, Owned, Positions, Unlocked, Runs
  <2> QED BY <2>8, <2>9 DEF ScannerInv
<1>4. CASE scan.start = FALSE
  <2>1. /\ scanCall' = [at |-> IF next = NoKind THEN "out" ELSE "create", next |-> next]
        /\ scan' = scan /\ query' = query
    BY <1>4 DEF BeginStop
  <2>2. scanCall'.at \in {"out", "create"} /\ CallFields(scanCall')
    BY <2>1 DEF CallFields
  <2>3. NothingRuns /\ NothingRuns'
    BY <1>1, <1>4 DEF ScannerInv, Positions, NothingRuns, Runs
  <2>4. ScannerTypes'
    BY <1>1, <2>1, <2>2 DEF ScannerInv, ScannerTypes
  <2>5. Owned' /\ Positions' /\ Unlocked'
    BY <1>1, <1>4, <2>1, <2>2, <2>3 DEF ScannerInv, Owned, Positions, Unlocked, Runs
  <2> QED BY <2>4, <2>5 DEF ScannerInv
<1> QED BY <1>3, <1>4 DEF ScannerInv, ScannerTypes

LEMMA DestroyScanStep == ASSUME ScannerInv, DestroyScan PROVE ScannerInv'
<1>1. /\ scanCall.at = "destroy" /\ scan' = scan /\ query' = query
      /\ lib' = [lib EXCEPT ![scan.handle] = Gone] /\ scanCall' = [scanCall EXCEPT !.at = "clear"]
  BY DEF DestroyScan
<1>2. scan.start = TRUE /\ Live
  BY <1>1 DEF ScannerInv, Positions
<1>3. scanCall'.at = "clear" /\ CallFields(scanCall')
  BY <1>1 DEF ScannerInv, ScannerTypes, CallFields
<1>4. LibFields(Gone) /\ Gone.state = "gone"
  BY DEF Gone, NoScan, LibFields
<1>5. lib' = [h \in Handles |-> lib'[h]] /\ lib'[scan.handle] = Gone
      /\ \A h \in Handles : h # scan.handle => lib'[h] = lib[h]
  BY <1>1, <1>2 DEF ScannerInv, ScannerTypes, Live
<1>6. ScannerTypes'
  BY <1>1, <1>3, <1>4, <1>5 DEF ScannerInv, ScannerTypes
<1>7. NothingRuns'
  BY <1>4, <1>5 DEF NothingRuns, Runs, ScannerInv, Owned
<1>8. Owned' /\ Positions' /\ Unlocked'
  BY <1>1, <1>2, <1>3, <1>7 DEF ScannerInv, Owned, Positions, Unlocked, NothingRuns
<1> QED BY <1>6, <1>8 DEF ScannerInv

LEMMA ClearStartStep == ASSUME ScannerInv, ClearStart PROVE ScannerInv'
<1>1. /\ scanCall.at = "clear" /\ lib' = lib /\ query' = query
      /\ scan' = [scan EXCEPT !.start = FALSE] /\ scanCall' = [scanCall EXCEPT !.at = AfterStop]
  BY DEF ClearStart
<1>2. scan'.start = FALSE /\ scan'.handle = scan.handle /\ ScanFields(scan')
  BY <1>1 DEF ScannerInv, ScannerTypes, ScanFields
<1>3. scanCall'.at \in {"out", "create"} /\ CallFields(scanCall')
  BY <1>1 DEF ScannerInv, ScannerTypes, CallFields, AfterStop
<1>4. NothingRuns /\ NothingRuns'
  BY <1>1 DEF ScannerInv, Positions, NothingRuns, Runs
<1>5. ScannerTypes'
  BY <1>1, <1>2, <1>3 DEF ScannerInv, ScannerTypes
<1>6. Owned' /\ Positions' /\ Unlocked'
  BY <1>1, <1>2, <1>3, <1>4 DEF ScannerInv, Owned, Positions, Unlocked, NothingRuns
<1> QED BY <1>5, <1>6 DEF ScannerInv

LEMMA NewParasIs ==
  ASSUME ScannerInv, NEW k
  PROVE  ScanFields(NewParas(k)) /\ NewParas(k).start = scan.start
<1> DEFINE s == [scan EXCEPT !.kind = k]
<1>1. ScanFields(s) /\ s.start = scan.start
  BY DEF ScannerInv, ScannerTypes, ScanFields
<1>2. NewParas(k) = [s EXCEPT !.feType = "none"]
  BY DEF NewParas
<1> HIDE DEF s
<1> QED BY <1>1, <1>2 DEF ScanFields

LEMMA CreateScanStep == ASSUME ScannerInv, CreateScan PROVE ScannerInv'
<1>1. scanCall.at = "create" /\ query' = query /\ scan.start = FALSE /\ NothingRuns
  BY DEF CreateScan, ScannerInv, Positions
<1>2. ScanFields(NewParas(scanCall.next)) /\ NewParas(scanCall.next).start = FALSE
  BY <1>1, NewParasIs
<1>3. CASE scan' = NewParas(scanCall.next) /\ scanCall' = [at |-> "out", next |-> NoKind] /\ lib' = lib
  <2>1. scanCall'.at = "out" /\ CallFields(scanCall')
    BY <1>3 DEF CallFields
  <2>2. NothingRuns'
    BY <1>1, <1>3 DEF NothingRuns, Runs
  <2>3. ScannerTypes'
    BY <1>1, <1>2, <1>3, <2>1 DEF ScannerInv, ScannerTypes
  <2>4. Owned' /\ Positions' /\ Unlocked'
    BY <1>1, <1>2, <1>3, <2>1, <2>2 DEF ScannerInv, Owned, Positions, Unlocked, NothingRuns
  <2> QED BY <2>3, <2>4 DEF ScannerInv
<1>4. CASE \E h \in Handles :
             /\ scan' = [NewParas(scanCall.next) EXCEPT !.handle = h]
             /\ \/ lib' = [lib EXCEPT ![h] = Gone] /\ scanCall' = [at |-> "out", next |-> NoKind]
                \/ lib' = [lib EXCEPT ![h] = Begun] /\ scanCall' = [at |-> "flag", next |-> NoKind]
  <2>1. PICK h \in Handles :
             /\ scan' = [NewParas(scanCall.next) EXCEPT !.handle = h]
             /\ \/ lib' = [lib EXCEPT ![h] = Gone] /\ scanCall' = [at |-> "out", next |-> NoKind]
                \/ lib' = [lib EXCEPT ![h] = Begun] /\ scanCall' = [at |-> "flag", next |-> NoKind]
    BY <1>4
  <2>2. scan'.start = FALSE /\ scan'.handle = h /\ ScanFields(scan')
    BY <1>2, <2>1 DEF ScanFields
  <2>3. LibFields(Gone) /\ Gone.state = "gone" /\ LibFields(Begun) /\ Begun.state = "runs"
    BY DEF Gone, Begun, NoScan, LibFields
  <2>4. CASE lib' = [lib EXCEPT ![h] = Gone] /\ scanCall' = [at |-> "out", next |-> NoKind]
    <3>1. lib' = [g \in Handles |-> lib'[g]] /\ lib'[h] = Gone
          /\ \A g \in Handles : g # h => lib'[g] = lib[g]
      BY <2>4 DEF ScannerInv, ScannerTypes
    <3>2. scanCall'.at = "out" /\ CallFields(scanCall')
      BY <2>4 DEF CallFields
    <3>3. NothingRuns'
      BY <1>1, <2>3, <3>1 DEF NothingRuns, Runs
    <3>4. ScannerTypes'
      BY <1>1, <2>2, <2>3, <3>1, <3>2 DEF ScannerInv, ScannerTypes
    <3>5. Owned' /\ Positions' /\ Unlocked'
      BY <1>1, <2>2, <3>2, <3>3 DEF ScannerInv, Owned, Positions, Unlocked, NothingRuns
    <3> QED BY <3>4, <3>5 DEF ScannerInv
  <2>5. CASE lib' = [lib EXCEPT ![h] = Begun] /\ scanCall' = [at |-> "flag", next |-> NoKind]
    <3>1. lib' = [g \in Handles |-> lib'[g]] /\ lib'[h] = Begun
          /\ \A g \in Handles : g # h => lib'[g] = lib[g]
      BY <2>5 DEF ScannerInv, ScannerTypes
    <3>2. scanCall'.at = "flag" /\ CallFields(scanCall')
      BY <2>5 DEF CallFields
    <3>3. Live' /\ Owned'
      BY <1>1, <2>2, <2>3, <3>1 DEF NothingRuns, Runs, Live, Owned
    <3>4. ScannerTypes'
      BY <1>1, <2>2, <2>3, <3>1, <3>2 DEF ScannerInv, ScannerTypes
    <3>5. Positions' /\ Unlocked'
      BY <1>1, <2>2, <3>2, <3>3 DEF ScannerInv, Positions, Unlocked
    <3> QED BY <3>3, <3>4, <3>5 DEF ScannerInv
  <2> QED BY <2>1, <2>4, <2>5
<1> QED BY <1>3, <1>4 DEF CreateScan

LEMMA SetStartStep == ASSUME ScannerInv, SetStart PROVE ScannerInv'
<1>1. /\ scanCall.at = "flag" /\ lib' = lib /\ query' = query
      /\ scan' = [scan EXCEPT !.start = TRUE] /\ scanCall' = [scanCall EXCEPT !.at = "out"]
  BY DEF SetStart
<1>2. scan'.start = TRUE /\ scan'.handle = scan.handle /\ ScanFields(scan')
  BY <1>1 DEF ScannerInv, ScannerTypes, ScanFields
<1>3. scanCall'.at = "out" /\ CallFields(scanCall')
  BY <1>1 DEF ScannerInv, ScannerTypes, CallFields
<1>4. Live'
  BY <1>1, <1>2 DEF ScannerInv, Positions, Live, Runs
<1>5. ScannerTypes'
  BY <1>1, <1>2, <1>3 DEF ScannerInv, ScannerTypes
<1>6. Owned' /\ Positions' /\ Unlocked'
  BY <1>1, <1>2, <1>3, <1>4 DEF ScannerInv, Owned, Positions, Unlocked, Runs
<1> QED BY <1>5, <1>6 DEF ScannerInv

LEMMA TestStartStep == ASSUME ScannerInv, TestStart PROVE ScannerInv' /\ query'.met = "none"
<1>1. UNCHANGED <<scan, lib, scanCall>> /\ scan.start = TRUE
      /\ query' = [handle |-> scan.handle, met |-> "none", overlapped |-> scanCall.at # "out"]
  BY DEF TestStart, ScannerInv, ScannerTypes
<1>2. query'.handle = scan.handle /\ query'.met = "none" /\ QueryFields(query')
  BY <1>1 DEF QueryFields
<1>3. query'.overlapped = (scanCall.at # "out")
  BY <1>1
<1>4. query'.overlapped \in BOOLEAN
  BY <1>3
<1>5. query'.overlapped = FALSE => scanCall.at = "out"
  BY <1>3
<1>6. ScannerTypes'
  BY <1>1, <1>2, <1>4 DEF ScannerInv, ScannerTypes
<1>7. Owned' /\ Positions'
  BY <1>1 DEF ScannerInv, Owned, Positions, Live, NothingRuns, Runs
<1>8. Unlocked'
  BY <1>1, <1>2, <1>5 DEF Unlocked
<1> QED BY <1>2, <1>6, <1>7, <1>8 DEF ScannerInv

LEMMA UseHandleStep == ASSUME ScannerInv, UseHandle PROVE ScannerInv' /\ QueryMeetsScan'
<1>1. UNCHANGED <<scan, lib, scanCall>> /\ query.handle # 0
      /\ query' = [query EXCEPT !.handle = 0, !.met = lib[query.handle].state]
  BY DEF UseHandle
<1>2. /\ query'.handle = 0 /\ query'.met = lib[query.handle].state /\ QueryFields(query')
      /\ query'.overlapped = query.overlapped
  <2> DEFINE q == [query EXCEPT !.handle = 0]
  <2>1. QueryFields(q) /\ q.handle = 0 /\ q.overlapped = query.overlapped
    BY DEF ScannerInv, ScannerTypes, QueryFields
  <2>2. query' = [q EXCEPT !.met = lib[query.handle].state]
    BY <1>1
  <2> HIDE DEF q
  <2> QED BY <2>1, <2>2 DEF QueryFields
<1>3. ScannerTypes'
  BY <1>1, <1>2 DEF ScannerInv, ScannerTypes
<1>4. Owned' /\ Positions' /\ Unlocked'
  BY <1>1, <1>2 DEF ScannerInv, Owned, Positions, Unlocked, Live, NothingRuns, Runs
<1>5. query.overlapped = FALSE => query'.met = "runs"
  BY <1>1, <1>2 DEF ScannerInv, Positions, Unlocked, Live, Runs
<1>6. query.overlapped = TRUE => QueryMeetsScan'
  BY <1>2 DEF QueryMeetsScan
<1>7. query.overlapped = FALSE => QueryMeetsScan'
  BY <1>5 DEF QueryMeetsScan
<1>8. query.overlapped \in BOOLEAN
  BY DEF ScannerInv, ScannerTypes
<1> QED BY <1>3, <1>4, <1>6, <1>7, <1>8 DEF ScannerInv

Kept(s) == ScanFields(s) /\ s.start = scan.start /\ s.handle = scan.handle

LEMMA OneChange ==
  ASSUME ScannerInv, NEW v, NEW w
  PROVE  /\ Kept(scan)
         /\ Kept([scan EXCEPT !.percent = v])
         /\ Kept([scan EXCEPT !.feType = v])
         /\ Kept([scan EXCEPT !.vbi = v])
         /\ Kept([scan EXCEPT !.percent = v, !.total = w])
<1> DEFINE s == [scan EXCEPT !.percent = v]
<1>1. Kept(scan) /\ Kept(s) /\ Kept([scan EXCEPT !.feType = v]) /\ Kept([scan EXCEPT !.vbi = v])
  BY DEF ScannerInv, ScannerTypes, ScanFields, Kept
<1>2. [scan EXCEPT !.percent = v, !.total = w] = [s EXCEPT !.total = w]
  OBVIOUS
<1>3. Kept([s EXCEPT !.total = w])
  <2>1. Kept(s)
    BY <1>1
  <2> HIDE DEF s
  <2> QED BY <2>1 DEF Kept, ScanFields
<1>4. Kept([scan EXCEPT !.percent = v, !.total = w])
  BY <1>2, <1>3
<1>5. Kept([scan EXCEPT !.percent = v])
  BY <1>1
<1> QED BY <1>1, <1>4, <1>5

LEMMA LibChange ==
  ASSUME ScannerInv, NEW h \in Handles, NEW l, LibFields(l), l.state = lib[h].state, LibStep(h, l),
         Kept(scan'), scanCall' = scanCall, query' = query
  PROVE  ScannerInv'
<1>1. lib' = [g \in Handles |-> lib'[g]] /\ lib'[h] = l /\ \A g \in Handles : g # h => lib'[g] = lib[g]
  BY DEF LibStep, ScannerInv, ScannerTypes
<1>2. \A g \in Handles : LibFields(lib'[g]) /\ lib'[g].state = lib[g].state
  BY <1>1 DEF ScannerInv, ScannerTypes
<1> QED BY <1>1, <1>2, Untouched DEF Kept

LEMMA LibFieldsKept ==
  ASSUME ScannerInv, NEW h \in Handles, NEW v
  PROVE  LET ok(l) == LibFields(l) /\ l.state = lib[h].state
         IN ok(lib[h]) /\ ok([lib[h] EXCEPT !.phase = v]) /\ ok([lib[h] EXCEPT !.at = v])
            /\ ok([lib[h] EXCEPT !.type = v])
<1> DEFINE l == lib[h]
<1>1. LibFields(l)
  BY DEF ScannerInv, ScannerTypes
<1> HIDE DEF l
<1>2. LibFields([l EXCEPT !.phase = v]) /\ LibFields([l EXCEPT !.at = v]) /\ LibFields([l EXCEPT !.type = v])
  BY <1>1 DEF LibFields
<1>3. /\ [l EXCEPT !.phase = v].state = l.state /\ [l EXCEPT !.at = v].state = l.state
      /\ [l EXCEPT !.type = v].state = l.state
  BY <1>1 DEF LibFields
<1> QED BY <1>1, <1>2, <1>3 DEF l

LEMMA RunningHandle == \A h : h \in Running => h \in Handles
  BY DEF Running

LEMMA EventStep ==
  ASSUME ScannerInv, NEW h, NEW phase, NEW l, NEW s, Event(h, phase, l, s),
         LibFields(l), l.state = lib[h].state, Kept(s)
  PROVE  ScannerInv'
  BY LibChange, RunningHandle DEF Event

LEMMA BumpKeeps == ASSUME ScannerInv, NEW by PROVE Kept(Bump(scan, by))
<1>1. Kept([scan EXCEPT !.percent = Capped(@ + by, 100)])
  <2> DEFINE v == Capped(scan.percent + by, 100)
  <2> HIDE DEF v
  <2>1. Kept([scan EXCEPT !.percent = v])
    BY OneChange
  <2> QED BY <2>1 DEF v
<1>2. Kept(scan)
  BY OneChange
<1> QED BY <1>1, <1>2 DEF Bump

LEMMA EventsStep ==
  ASSUME ScannerInv, NEW h \in Handles,
         \/ ScanBegins(h) \/ TsBegins(h) \/ MgtDone(h) \/ VctDone(h) \/ ScanEnds(h)
         \/ \E mhz \in 0..scan.kind.width : AtvTuning(h, mhz)
  PROVE  ScannerInv'
<1>1. CASE ScanBegins(h)
  BY <1>1, EventStep, OneChange, LibFieldsKept DEF ScanBegins
<1>2. CASE TsBegins(h)
  <2>1. PICK v, w : Event(h, "ts", [lib[h] EXCEPT !.at = lib[h].at + 1],
                          [scan EXCEPT !.percent = v, !.total = w])
    BY <1>2 DEF TsBegins
  <2>2. Kept([scan EXCEPT !.percent = v, !.total = w])
    BY OneChange
  <2> DEFINE a == lib[h].at + 1
  <2>3. Event(h, "ts", [lib[h] EXCEPT !.at = a], [scan EXCEPT !.percent = v, !.total = w])
    BY <2>1
  <2> HIDE DEF a
  <2>4. LibFields([lib[h] EXCEPT !.at = a]) /\ [lib[h] EXCEPT !.at = a].state = lib[h].state
    BY LibFieldsKept
  <2> QED BY <2>2, <2>3, <2>4, EventStep
<1>3. CASE MgtDone(h)
  BY <1>3, EventStep, BumpKeeps, LibFieldsKept DEF MgtDone
<1>4. CASE VctDone(h)
  BY <1>4, EventStep, BumpKeeps, LibFieldsKept DEF VctDone
<1>5. CASE ScanEnds(h)
  BY <1>5, EventStep, OneChange, LibFieldsKept DEF ScanEnds
<1>6. ASSUME NEW mhz \in 0..scan.kind.width, AtvTuning(h, mhz) PROVE ScannerInv'
  <2>1. PICK v : Event(h, "ts", lib[h], [scan EXCEPT !.percent = v])
    BY <1>6 DEF AtvTuning
  <2> QED BY <2>1, EventStep, OneChange, LibFieldsKept
<1> QED BY <1>1, <1>2, <1>3, <1>4, <1>5, <1>6

LEMMA FeTypeHelperStep ==
  ASSUME ScannerInv, NEW h \in Handles, NEW type, FeTypeHelper(h, type) PROVE ScannerInv'
<1>1. LibStep(h, [lib[h] EXCEPT !.type = type]) /\ scanCall' = scanCall /\ query' = query
  BY DEF FeTypeHelper
<1>2. scan' = scan \/ scan' = [scan EXCEPT !.feType = type]
  BY DEF FeTypeHelper
<1>3. Kept(scan')
  BY <1>2, OneChange
<1> QED BY <1>1, <1>3, LibChange, LibFieldsKept

LEMMA FeTypeStepStep == ASSUME ScannerInv, FeTypeStep PROVE ScannerInv'
<1>1. lib' = lib /\ scanCall' = scanCall /\ query' = query
  BY DEF FeTypeStep
<1>2. scan' = scan \/ \E v : scan' = [scan EXCEPT !.vbi = v]
  BY DEF FeTypeStep, ToAnalog, ToDigital, StopVbi
<1>3. Kept(scan')
  BY <1>2, OneChange
<1> QED BY <1>1, <1>3, Untouched DEF Kept, ScannerInv, ScannerTypes

LEMMA ScannerNextInv ==
  ScannerInv /\ QueryMeetsScan /\ [ScannerNext]_scannerVars => ScannerInv' /\ QueryMeetsScan'
<1> SUFFICES ASSUME ScannerInv, QueryMeetsScan, [ScannerNext]_scannerVars
             PROVE  ScannerInv' /\ QueryMeetsScan'
  OBVIOUS
<1>q. query' = query => QueryMeetsScan'
  BY DEF QueryMeetsScan
<1>1. ASSUME NEW next, BeginStop(next) PROVE ScannerInv' /\ QueryMeetsScan'
  <2>1. query' = query \/ query' = [query EXCEPT !.overlapped = query.overlapped \/ query.handle # 0]
    BY <1>1 DEF BeginStop
  <2>2. ASSUME query' = [query EXCEPT !.overlapped = query.overlapped \/ query.handle # 0]
        PROVE  QueryMeetsScan'
    <3>1. query'.met = query.met /\ query'.overlapped = (query.overlapped \/ query.handle # 0)
      BY <2>2 DEF ScannerInv, ScannerTypes, QueryFields
    <3>2. query.overlapped => query'.overlapped
      BY <3>1
    <3> QED BY <3>1, <3>2 DEF QueryMeetsScan
  <2>3. QueryMeetsScan'
    BY <1>q, <2>1, <2>2
  <2> QED BY <1>1, <2>3, BeginStopStep
<1>2. CASE DestroyScan
  BY <1>2, <1>q, DestroyScanStep DEF DestroyScan
<1>3. CASE ClearStart
  BY <1>3, <1>q, ClearStartStep DEF ClearStart
<1>4. CASE CreateScan
  BY <1>4, <1>q, CreateScanStep DEF CreateScan
<1>5. CASE SetStart
  BY <1>5, <1>q, SetStartStep DEF SetStart
<1>6. CASE TestStart
  BY <1>6, TestStartStep DEF QueryMeetsScan
<1>7. CASE UseHandle
  BY <1>7, UseHandleStep
<1>8. CASE FeTypeStep
  BY <1>8, <1>q, FeTypeStepStep DEF FeTypeStep
<1>9. ASSUME NEW h \in Handles, NEW type, FeTypeHelper(h, type) PROVE ScannerInv' /\ QueryMeetsScan'
  BY <1>9, <1>q, FeTypeHelperStep DEF FeTypeHelper
<1>10. ASSUME NEW h \in Handles,
              \/ ScanBegins(h) \/ TsBegins(h) \/ MgtDone(h) \/ VctDone(h) \/ ScanEnds(h)
              \/ \E mhz \in 0..scan.kind.width : AtvTuning(h, mhz)
       PROVE  ScannerInv' /\ QueryMeetsScan'
  <2>1. query' = query
    BY <1>10 DEF ScanBegins, TsBegins, MgtDone, VctDone, ScanEnds, AtvTuning, Event
  <2> QED BY <1>10, <1>q, <2>1, EventsStep
<1>11. CASE ReceiverUsed
  <2>1. UNCHANGED <<scan, lib, scanCall, query>>
    BY <1>11 DEF ReceiverUsed
  <2>2. Kept(scan)
    BY OneChange
  <2> QED BY <1>q, <2>1, <2>2, Untouched DEF Kept, ScannerInv, ScannerTypes
<1>12. CASE UNCHANGED scannerVars
  <2>1. UNCHANGED <<scan, lib, scanCall, query>>
    BY <1>12 DEF scannerVars
  <2>2. Kept(scan)
    BY OneChange
  <2> QED BY <1>q, <2>1, <2>2, Untouched DEF Kept, ScannerInv, ScannerTypes
<1> QED BY <1>1, <1>2, <1>3, <1>4, <1>5, <1>6, <1>7, <1>8, <1>9, <1>10, <1>11, <1>12 DEF ScannerNext

LEMMA InvOneScan == ScannerInv => OneScan
<1> SUFFICES ASSUME ScannerInv PROVE OneScan
  OBVIOUS
<1>1. Running \subseteq {scan.handle}
  BY DEF Running, ScannerInv, Owned, Runs
<1>2. ASSUME scanCall.at = "out", scan.start = TRUE PROVE scan.start <=> Running # {}
  <2>1. scan.handle \in Running
    BY <1>2 DEF ScannerInv, Positions, Live, Runs, Running
  <2> QED BY <1>2, <2>1
<1>3. ASSUME scanCall.at = "out", scan.start = FALSE PROVE scan.start <=> Running # {}
  <2>1. Running = {}
    BY <1>3 DEF ScannerInv, Positions, NothingRuns, Runs, Running
  <2> QED BY <1>3, <2>1
<1> QED BY <1>1, <1>2, <1>3 DEF OneScan, ScannerInv, ScannerTypes

(* The library never has two scans, nor one that nobody can stop, for any number of scans of any *)
(* kind, refused or failed starts included: Scan, stopScan.                                      *)
THEOREM AtMostOneScan == ScannerSpec => []OneScan
<1>1. ScannerInv /\ QueryMeetsScan /\ [ScannerNext]_scannerVars => (ScannerInv /\ QueryMeetsScan)'
  BY ScannerNextInv
<1> QED BY <1>1, ScannerInitInv, InvOneScan, PTL DEF ScannerSpec

(* pauseScan, resumeScan and getScanStatus use a destroyed scan only if a stop came between their *)
(* test of mbScanStart and the use of the handle, or was under way when they tested it.           *)
THEOREM QueriesMeetTheScan == ScannerSpec => []QueryMeetsScan
<1>1. ScannerInv /\ QueryMeetsScan /\ [ScannerNext]_scannerVars => (ScannerInv /\ QueryMeetsScan)'
  BY ScannerNextInv
<1> QED BY <1>1, ScannerInitInv, PTL DEF ScannerSpec

(* The handle of the scan: one scan at most stands behind it, and who uses it finds that scan,   *)
(* whatever stopScan does meanwhile.                                                             *)
THEOREM HandleIsGood == ScannerSpec => []ScanHandled
<1>1. OneScan /\ QueryMeetsScan => ScanHandled
  BY DEF ScanHandled
<1> QED BY <1>1, AtMostOneScan, QueriesMeetTheScan, PTL

(***************************************************************************)
(* The receiver follows the scan.                                          *)
(***************************************************************************)

(* Whose call back is in which half of FETypeHelperCB; what it has set up of the receiver so    *)
(* far; and where VBI cannot be on, but for the restart that raced with a stop.                  *)
VbiOff == scan.vbi = FALSE \/ vbiRaced = TRUE
Needed == NeedVbiAssist(scan.kind)

CallBackFields(c) == c = [at |-> c.at, type |-> c.type]
ReceiverTypes ==
  /\ CallBackFields(scanCb) /\ scanCb.at \in {"out", "mode", "vbi"}
  /\ scan.feType \in {"none", "analog", "digital"}

CalledBack ==
  scanCb.at # "out" =>
    Live /\ scanCb.type = scan.feType /\ scan.feType \in {"analog", "digital"}

ReceiverSet ==
  Live =>
    /\ lib[scan.handle].type = scan.feType
    /\ scan.feType = "analog" /\ scanCb.at # "mode" => rx = [mode |-> "analog", port |-> TRUE]
    /\ scan.feType = "digital" /\ scanCb.at = "out" => rx = [mode |-> "digital", port |-> FALSE]
    /\ scan.feType = "digital" /\ scanCb.at # "vbi" => VbiOff

VbiStops ==
  /\ ~Needed => VbiOff
  /\ scanCall.at \in {"destroy", "clear", "create"} => VbiOff
  /\ scanCall.at = "out" /\ scan.start = FALSE => VbiOff

ReceiverInv == ReceiverTypes /\ CalledBack /\ ReceiverSet /\ VbiStops

LEMMA ReceiverInitInv == ScannerInit => ReceiverInv
<1> SUFFICES ASSUME ScannerInit PROVE ReceiverInv
  OBVIOUS
<1>1. scan.feType = "none" /\ scan.vbi = FALSE /\ scanCb.at = "out" /\ CallBackFields(scanCb)
  BY DEF ScannerInit, CallBackFields
<1>2. ~Live
  BY DEF ScannerInit, Live, Handles
<1> QED BY <1>1, <1>2 DEF ReceiverInv, ReceiverTypes, CalledBack, ReceiverSet, VbiStops, VbiOff

(* With the scan that is live, its stream type, the call back and the receiver as they were, the *)
(* invariant is a matter of VBI.                                                                 *)
LEMMA ReceiverKept ==
  ASSUME ReceiverInv, scanCb' = scanCb, rx' = rx, scan'.feType = scan.feType,
         Live' <=> Live, Live => lib'[scan'.handle].type = lib[scan.handle].type,
         VbiOff => VbiOff', VbiStops'
  PROVE  ReceiverInv'
<1>1. ReceiverTypes' /\ CalledBack'
  BY DEF ReceiverInv, ReceiverTypes, CalledBack
<1>2. ReceiverSet'
  BY DEF ReceiverInv, ReceiverSet
<1> QED BY <1>1, <1>2 DEF ReceiverInv

(* Where no scan is live, no call back is under way. *)
LEMMA ReceiverIdle ==
  ASSUME ReceiverInv, scanCb' = scanCb, scanCb.at = "out",
         scan'.feType \in {"none", "analog", "digital"}, ~Live', VbiStops'
  PROVE  ReceiverInv'
BY DEF ReceiverInv, ReceiverTypes, CalledBack, ReceiverSet

LEMMA IdleCallBack == ASSUME ScannerInv, ReceiverInv, NothingRuns PROVE scanCb.at = "out" /\ ~Live
BY DEF ReceiverInv, CalledBack, NothingRuns, Live

LEMMA BeginStopReceiver ==
  ASSUME ScannerInv, ReceiverInv, NEW next, BeginStop(next) PROVE ReceiverInv'
<1>1. scanCall.at = "out" /\ lib' = lib /\ scanCb' = scanCb /\ rx' = rx
  BY DEF BeginStop
<1>2. CASE scan.start = TRUE
  <2>1. scanCall'.at = "destroy"
    BY <1>2 DEF BeginStop
  <2>2. CASE Needed
    <3>1. scan' = [scan EXCEPT !.vbi = FALSE]
      BY <1>2, <2>2 DEF BeginStop, StopVbi, Needed
    <3>2. scan'.vbi = FALSE /\ scan'.feType = scan.feType /\ scan'.handle = scan.handle
      BY <3>1 DEF ScannerInv, ScannerTypes, ScanFields
    <3>3. VbiOff' /\ (Live' <=> Live)
      BY <1>1, <3>2 DEF VbiOff, Live, Runs
    <3>4. VbiStops'
      BY <3>3 DEF VbiStops
    <3> QED BY <1>1, <3>2, <3>3, <3>4, ReceiverKept
  <2>3. CASE ~Needed
    <3>1. scan' = scan
      BY <1>2, <2>3 DEF BeginStop, Needed
    <3>2. vbiRaced' = (vbiRaced /\ ~NeedVbiAssist(scan.kind))
      BY <1>2 DEF BeginStop
    <3>3. vbiRaced = TRUE => vbiRaced' = TRUE
      BY <2>3, <3>2 DEF Needed
    <3>4. VbiOff
      BY <2>3 DEF ReceiverInv, VbiStops
    <3>5. VbiOff'
      BY <3>1, <3>3, <3>4 DEF VbiOff
    <3>6. (Live' <=> Live) /\ VbiStops'
      BY <1>1, <3>1, <3>5 DEF Live, Runs, VbiStops
    <3> QED BY <1>1, <3>1, <3>5, <3>6, ReceiverKept
  <2> QED BY <2>2, <2>3
<1>3. CASE scan.start = FALSE
  <2>1. scan' = scan /\ vbiRaced' = vbiRaced
    BY <1>3 DEF BeginStop
  <2>2. VbiOff /\ VbiOff'
    BY <1>1, <1>3, <2>1 DEF ReceiverInv, VbiStops, VbiOff
  <2>3. (Live' <=> Live) /\ VbiStops'
    BY <1>1, <2>1, <2>2 DEF Live, Runs, VbiStops
  <2> QED BY <1>1, <2>1, <2>2, <2>3, ReceiverKept
<1> QED BY <1>2, <1>3 DEF ScannerInv, ScannerTypes

LEMMA CallSteps ==
  ASSUME ScannerInv, ScannerInv', ReceiverInv, DestroyScan \/ ClearStart \/ SetStart
  PROVE  ReceiverInv'
<1>1. UNCHANGED <<scanCb, rx, vbiRaced>>
  BY DEF DestroyScan, ClearStart, SetStart
<1>2. CASE DestroyScan
  <2>1. scanCall.at = "destroy" /\ scanCb.at = "out" /\ scan' = scan /\ scanCall'.at = "clear"
    BY <1>2 DEF DestroyScan, ScannerInv, ScannerTypes, CallFields
  <2>2. ~Live'
    BY <2>1 DEF ScannerInv, Positions, NothingRuns, Live
  <2>3. VbiStops'
    BY <1>1, <2>1 DEF ReceiverInv, VbiStops, VbiOff
  <2> QED BY <1>1, <2>1, <2>2, <2>3, ReceiverIdle DEF ReceiverInv, ReceiverTypes
<1>3. CASE ClearStart
  <2>1. /\ scanCall.at = "clear" /\ lib' = lib /\ scan' = [scan EXCEPT !.start = FALSE]
        /\ scan'.vbi = scan.vbi /\ scan'.feType = scan.feType /\ scan'.handle = scan.handle
    BY <1>3 DEF ClearStart, ScannerInv, ScannerTypes, ScanFields
  <2>2. NothingRuns /\ ~Live'
    BY <2>1 DEF ScannerInv, Positions, NothingRuns, Live, Runs
  <2>3. VbiOff'
    BY <1>1, <2>1 DEF ReceiverInv, VbiStops, VbiOff
  <2>4. VbiStops'
    BY <2>3 DEF VbiStops
  <2> QED BY <1>1, <2>1, <2>2, <2>4, IdleCallBack, ReceiverIdle DEF ReceiverInv, ReceiverTypes
<1>4. CASE SetStart
  <2>1. /\ lib' = lib /\ scan'.vbi = scan.vbi /\ scan'.feType = scan.feType
        /\ scan'.handle = scan.handle /\ scan'.kind = scan.kind /\ scan'.start = TRUE
        /\ scanCall'.at = "out"
    BY <1>4 DEF SetStart, ScannerInv, ScannerTypes, ScanFields, CallFields
  <2>2. (Live' <=> Live) /\ (VbiOff' <=> VbiOff) /\ (Needed' <=> Needed)
    BY <1>1, <2>1 DEF Live, Runs, VbiOff, Needed, NeedVbiAssist
  <2>3. VbiStops'
    BY <2>1, <2>2 DEF ReceiverInv, VbiStops
  <2> QED BY <1>1, <2>1, <2>2, <2>3, ReceiverKept
<1> QED BY <1>2, <1>3, <1>4

LEMMA CreateReceiver ==
  ASSUME ScannerInv, ScannerInv', ReceiverInv, CreateScan PROVE ReceiverInv'
<1>1. /\ scanCall.at = "create" /\ UNCHANGED <<scanCb, rx, vbiRaced>>
  BY DEF CreateScan
<1>2. NothingRuns /\ ~Live /\ scanCb.at = "out" /\ VbiOff
  BY <1>1, IdleCallBack DEF ScannerInv, Positions, ReceiverInv, VbiStops
<1> DEFINE s == NewParas(scanCall.next)
<1>3. ScanFields(s) /\ s.feType = "none" /\ s.vbi = scan.vbi
  <2> DEFINE u == [scan EXCEPT !.kind = scanCall.next]
  <2>1. ScanFields(u) /\ u.vbi = scan.vbi
    BY DEF ScannerInv, ScannerTypes, ScanFields
  <2>2. s = [u EXCEPT !.feType = "none"]
    BY DEF NewParas
  <2> HIDE DEF u, s
  <2> QED BY <2>1, <2>2 DEF ScanFields
<1>4. scan' = s \/ \E h \in Handles : scan' = [s EXCEPT !.handle = h]
  BY DEF CreateScan
<1> HIDE DEF s
<1>5. scan'.feType = "none" /\ scan'.vbi = scan.vbi
  BY <1>3, <1>4 DEF ScanFields
<1>6. VbiOff' /\ VbiStops'
  BY <1>1, <1>2, <1>5 DEF VbiOff, VbiStops
<1>7. Live' => lib'[scan'.handle].type = "none"
  <2>1. CASE UNCHANGED lib
    BY <1>2, <2>1 DEF NothingRuns, Runs, Live
  <2>2. ASSUME NEW h \in Handles, scan' = [NewParas(scanCall.next) EXCEPT !.handle = h],
               \/ lib' = [lib EXCEPT ![h] = Gone]
               \/ lib' = [lib EXCEPT ![h] = Begun]
        PROVE  Live' => lib'[scan'.handle].type = "none"
    <3>1. scan'.handle = h
      BY <1>3, <2>2 DEF ScanFields, s
    <3>2. Gone.type = "none" /\ Begun.type = "none"
      BY DEF Gone, Begun, NoScan
    <3>3. lib'[h] \in {Gone, Begun}
      BY <2>2 DEF ScannerInv, ScannerTypes
    <3> QED BY <3>1, <3>2, <3>3
  <2>3. \/ UNCHANGED lib
        \/ \E h \in Handles :
             /\ scan' = [NewParas(scanCall.next) EXCEPT !.handle = h]
             /\ \/ lib' = [lib EXCEPT ![h] = Gone]
                \/ lib' = [lib EXCEPT ![h] = Begun]
    BY DEF CreateScan
  <2> QED BY <2>1, <2>2, <2>3
<1>8. ReceiverTypes' /\ CalledBack'
  BY <1>1, <1>2, <1>5 DEF ReceiverInv, ReceiverTypes, CalledBack
<1>9. ReceiverSet'
  BY <1>5, <1>7 DEF ReceiverSet
<1> QED BY <1>6, <1>8, <1>9 DEF ReceiverInv

LEMMA FeTypeHelperReceiver ==
  ASSUME ScannerInv, ReceiverInv, NEW h \in Handles, NEW type \in {"analog", "digital"},
         FeTypeHelper(h, type)
  PROVE  ReceiverInv'
<1>1. /\ scanCb.at = "out" /\ h = scan.handle /\ Live
      /\ UNCHANGED <<scanCall, rx, vbiRaced>>
  BY DEF FeTypeHelper, Running, Runs, Live, ScannerInv, Owned
<1>2. lib' = [lib EXCEPT ![h] = [lib[h] EXCEPT !.type = type]]
  BY DEF FeTypeHelper, LibStep
<1>3. lib'[h].type = type
  BY <1>2 DEF ScannerInv, ScannerTypes, LibFields
<1>4. Kept(scan') /\ scan'.kind = scan.kind /\ scan'.vbi = scan.vbi /\ scan'.feType = type
  <2>1. CASE type = scan.feType
    BY <2>1, OneChange DEF FeTypeHelper
  <2>2. CASE type # scan.feType
    <3>1. scan' = [scan EXCEPT !.feType = type]
      BY <2>2 DEF FeTypeHelper
    <3>2. scan'.kind = scan.kind /\ scan'.vbi = scan.vbi /\ scan'.feType = type
      BY <3>1 DEF ScannerInv, ScannerTypes, ScanFields
    <3> QED BY <3>1, <3>2, OneChange
  <2> QED BY <2>1, <2>2
<1>5. ScannerInv'
  BY FeTypeHelperStep
<1>6. (VbiOff' <=> VbiOff) /\ (Needed' <=> Needed)
  BY <1>1, <1>4 DEF VbiOff, Needed, NeedVbiAssist
<1>7. VbiStops'
  BY <1>1, <1>4, <1>6 DEF ReceiverInv, VbiStops, Kept
<1>8. scan'.handle = h
  BY <1>1, <1>4 DEF Kept
<1>9. Live'
  <2>1. lib'[h].state = lib[h].state
    BY <1>2 DEF ScannerInv, ScannerTypes, LibFields
  <2> QED BY <1>1, <1>8, <2>1 DEF Live, Runs
<1>10. CASE type = scan.feType
  <2>1. scanCb' = scanCb
    BY <1>10 DEF FeTypeHelper
  <2>2. lib[scan.handle].type = scan.feType
    BY <1>1 DEF ReceiverInv, ReceiverSet
  <2> QED BY <1>1, <1>3, <1>4, <1>6, <1>7, <1>8, <1>9, <1>10, <2>1, <2>2, ReceiverKept
<1>11. CASE type # scan.feType
  <2>1. scanCb' = [at |-> IF type = "analog" THEN "mode" ELSE "vbi", type |-> type]
    BY <1>11 DEF FeTypeHelper
  <2>2. /\ scanCb'.type = type /\ CallBackFields(scanCb')
        /\ scanCb'.at = IF type = "analog" THEN "mode" ELSE "vbi"
    BY <2>1 DEF CallBackFields
  <2>3. ReceiverTypes' /\ CalledBack'
    BY <1>4, <1>9, <2>2 DEF ReceiverTypes, CalledBack
  <2>4. ReceiverSet'
    BY <1>3, <1>4, <1>8, <2>2 DEF ReceiverSet
  <2> QED BY <1>7, <2>3, <2>4 DEF ReceiverInv
<1> QED BY <1>10, <1>11

LEMMA FeTypeStepReceiver ==
  ASSUME ScannerInv, ReceiverInv, FeTypeStep PROVE ReceiverInv'
<1>1. lib' = lib /\ scanCall' = scanCall
  BY DEF FeTypeStep
<1>2. scanCb.at \in {"mode", "vbi"}
  BY DEF FeTypeStep, ToAnalog, ToDigital
<1>3. /\ Live /\ scanCb.type = scan.feType /\ scan.feType \in {"analog", "digital"}
      /\ lib[scan.handle].type = scan.feType
  BY <1>2 DEF ReceiverInv, CalledBack, ReceiverSet
<1>4. ~NothingRuns
  BY <1>3 DEF Live, NothingRuns
<1>5. scanCall.at \notin {"clear", "create"} /\ (scanCall.at = "out" => scan.start = TRUE)
  BY <1>4 DEF ScannerInv, Positions
<1>6. scan' = scan \/ \E v : scan' = [scan EXCEPT !.vbi = v]
  BY DEF FeTypeStep, ToAnalog, ToDigital, StopVbi
<1>7. /\ Kept(scan') /\ scan'.kind = scan.kind /\ scan'.feType = scan.feType
      /\ (Needed' <=> Needed) /\ Live'
  <2>1. Kept(scan')
    BY <1>6, OneChange
  <2>2. scan'.kind = scan.kind /\ scan'.feType = scan.feType
    BY <1>6 DEF ScannerInv, ScannerTypes, ScanFields
  <2>3. Needed' <=> Needed
    BY <2>2 DEF Needed, NeedVbiAssist
  <2>4. Live'
    BY <1>1, <1>3, <2>1 DEF Kept, Live, Runs
  <2> QED BY <2>1, <2>2, <2>3, <2>4
<1>8. ASSUME NEW at \in {"out", "mode", "vbi"}, scanCb' = [scanCb EXCEPT !.at = at]
      PROVE  scanCb'.at = at /\ scanCb'.type = scanCb.type /\ CallBackFields(scanCb')
  BY <1>8 DEF ReceiverInv, ReceiverTypes, CallBackFields
\* The rest of the invariant, from where the call back comes to, the receiver and VBI.
<1> DEFINE Half(at) ==
      /\ scanCb' = [scanCb EXCEPT !.at = at]
      /\ scan.feType = "analog" /\ at # "mode" => rx' = [mode |-> "analog", port |-> TRUE]
      /\ scan.feType = "digital" /\ at = "out" => rx' = [mode |-> "digital", port |-> FALSE]
      /\ scan.feType = "digital" /\ at # "vbi" => VbiOff'
<1>9. ASSUME NEW at \in {"out", "mode", "vbi"}, Half(at), ~Needed => VbiOff',
             scanCall.at = "destroy" => VbiOff'
      PROVE  ReceiverInv'
  <2>1. scanCb'.at = at /\ scanCb'.type = scanCb.type /\ CallBackFields(scanCb')
    BY <1>8, <1>9
  <2>2. ReceiverTypes' /\ CalledBack'
    BY <1>3, <1>7, <2>1 DEF ReceiverTypes, CalledBack
  <2>3. lib'[scan'.handle].type = scan'.feType
    BY <1>1, <1>3, <1>7 DEF Kept
  <2>4. ReceiverSet'
    BY <1>7, <1>9, <2>1, <2>3 DEF ReceiverSet
  <2>5. VbiStops'
    BY <1>1, <1>5, <1>7, <1>9 DEF VbiStops, Kept
  <2> QED BY <2>2, <2>4, <2>5 DEF ReceiverInv
<1>10. ASSUME scan' = scan, vbiRaced' = vbiRaced
       PROVE  (VbiOff' <=> VbiOff) /\ (~Needed => VbiOff') /\ (scanCall.at = "destroy" => VbiOff')
  BY <1>10 DEF VbiOff, ReceiverInv, VbiStops
<1>11. CASE scan.feType = "analog" /\ scanCb.at = "mode"
  <2>1. /\ rx' = [mode |-> "analog", port |-> TRUE] /\ scanCb' = [scanCb EXCEPT !.at = "vbi"]
        /\ UNCHANGED <<scan, vbiRaced>>
    BY <1>3, <1>11 DEF FeTypeStep, ToAnalog
  <2>2. Half("vbi")
    BY <1>11, <2>1
  <2> QED BY <1>9, <1>10, <2>1, <2>2
<1>12. CASE scan.feType = "analog" /\ scanCb.at = "vbi"
  <2>1. rx' = rx /\ scanCb' = [scanCb EXCEPT !.at = "out"]
    BY <1>3, <1>12 DEF FeTypeStep, ToAnalog
  <2>2. Half("out")
    BY <1>3, <1>12, <2>1 DEF ReceiverInv, ReceiverSet
  <2>3. CASE Needed
    <3>1. PICK ok \in BOOLEAN : /\ scan' = [scan EXCEPT !.vbi = ok]
                                /\ vbiRaced' = (ok /\ scanCall.at = "destroy")
      BY <1>3, <1>12, <2>3 DEF FeTypeStep, ToAnalog, Needed
    <3>2. scan'.vbi = ok
      BY <3>1 DEF ScannerInv, ScannerTypes, ScanFields
    <3>3. ok = FALSE => VbiOff'
      BY <3>2 DEF VbiOff
    <3>4. ok = TRUE /\ scanCall.at = "destroy" => VbiOff'
      BY <3>1 DEF VbiOff
    <3>5. scanCall.at = "destroy" => VbiOff'
      BY <3>3, <3>4
    <3> QED BY <1>9, <2>2, <2>3, <3>5
  <2>4. CASE ~Needed
    <3>1. UNCHANGED <<scan, vbiRaced>>
      BY <1>3, <1>12, <2>4 DEF FeTypeStep, ToAnalog, Needed
    <3> QED BY <1>9, <1>10, <2>2, <3>1
  <2> QED BY <2>3, <2>4
<1>13. CASE scan.feType = "digital" /\ scanCb.at = "vbi"
  <2>1. /\ scanCb' = [scanCb EXCEPT !.at = "mode"] /\ rx' = rx
        /\ scan' = IF Needed THEN [scan EXCEPT !.vbi = FALSE] ELSE scan
        /\ vbiRaced' = (vbiRaced /\ ~Needed)
    BY <1>3, <1>13 DEF FeTypeStep, ToDigital, StopVbi, Needed
  <2>2. VbiOff'
    <3>1. CASE Needed
      <4>1. scan'.vbi = FALSE
        BY <2>1, <3>1 DEF ScannerInv, ScannerTypes, ScanFields
      <4> QED BY <4>1 DEF VbiOff
    <3>2. CASE ~Needed
      <4>1. scan' = scan
        BY <2>1, <3>2
      <4>2. vbiRaced = TRUE => vbiRaced' = TRUE
        BY <2>1, <3>2
      <4>3. VbiOff
        BY <3>2 DEF ReceiverInv, VbiStops
      <4> QED BY <4>1, <4>2, <4>3 DEF VbiOff
    <3> QED BY <3>1, <3>2
  <2>3. Half("mode")
    BY <1>13, <2>1, <2>2
  <2> QED BY <1>9, <2>2, <2>3
<1>14. CASE scan.feType = "digital" /\ scanCb.at = "mode"
  <2>1. /\ rx' = [mode |-> "digital", port |-> FALSE] /\ scanCb' = [scanCb EXCEPT !.at = "out"]
        /\ UNCHANGED <<scan, vbiRaced>>
    BY <1>3, <1>14 DEF FeTypeStep, ToDigital
  <2>2. VbiOff
    BY <1>3, <1>14 DEF ReceiverInv, ReceiverSet
  <2>3. Half("out")
    BY <1>10, <1>14, <2>1, <2>2
  <2> QED BY <1>9, <1>10, <2>1, <2>3
<1> QED BY <1>2, <1>3, <1>11, <1>12, <1>13, <1>14

(* An event of the library's changes no more than how far the scan is. *)
LEMMA EventsReceiver ==
  ASSUME ScannerInv, ReceiverInv, NEW h \in Handles, NEW phase, NEW l, NEW s, Event(h, phase, l, s),
         LibFields(l), l.state = lib[h].state, l.type = lib[h].type,
         Kept(s), s.kind = scan.kind, s.feType = scan.feType, s.vbi = scan.vbi
  PROVE  ReceiverInv'
<1>1. scan' = s /\ UNCHANGED <<scanCall, scanCb, rx, vbiRaced>> /\ lib' = [lib EXCEPT ![h] = l]
  BY DEF Event, LibStep
<1>2. lib'[h] = l /\ \A g \in Handles : g # h => lib'[g] = lib[g]
  BY <1>1 DEF ScannerInv, ScannerTypes
<1>3. scan'.handle = scan.handle /\ scan'.start = scan.start
  BY <1>1 DEF Kept
<1>4. (Live' <=> Live) /\ (Live => lib'[scan'.handle].type = lib[scan.handle].type)
  BY <1>2, <1>3 DEF Live, Runs
<1>5. (VbiOff' <=> VbiOff) /\ (Needed' <=> Needed)
  BY <1>1 DEF VbiOff, Needed, NeedVbiAssist
<1>6. VbiStops'
  BY <1>1, <1>3, <1>5 DEF ReceiverInv, VbiStops
<1> QED BY <1>1, <1>4, <1>5, <1>6, ReceiverKept

Same(s) == Kept(s) /\ s.kind = scan.kind /\ s.feType = scan.feType /\ s.vbi = scan.vbi

LEMMA PercentSame ==
  ASSUME ScannerInv, NEW v, NEW w
  PROVE  Same(scan) /\ Same([scan EXCEPT !.percent = v]) /\ Same([scan EXCEPT !.percent = v, !.total = w])
<1> DEFINE s == [scan EXCEPT !.percent = v]
<1>1. Same(scan) /\ Same(s)
  BY DEF ScannerInv, ScannerTypes, ScanFields, Kept, Same
<1>2. [scan EXCEPT !.percent = v, !.total = w] = [s EXCEPT !.total = w]
  OBVIOUS
<1> HIDE DEF s
<1>3. Same([s EXCEPT !.total = w])
  BY <1>1 DEF Same, Kept, ScanFields
<1> QED BY <1>1, <1>2, <1>3 DEF s

LEMMA BumpSame == ASSUME ScannerInv, NEW by PROVE Same(Bump(scan, by))
<1> DEFINE v == Capped(scan.percent + by, 100)
<1>1. Bump(scan, by) = IF scan.total = 1 THEN [scan EXCEPT !.percent = v] ELSE scan
  BY DEF Bump
<1> HIDE DEF v
<1> QED BY <1>1, PercentSame

SameLib(h, l) == LibFields(l) /\ l.state = lib[h].state /\ l.type = lib[h].type

LEMMA LibSame ==
  ASSUME ScannerInv, NEW h \in Handles, NEW v
  PROVE  SameLib(h, lib[h]) /\ SameLib(h, [lib[h] EXCEPT !.phase = v]) /\ SameLib(h, [lib[h] EXCEPT !.at = v])
<1> DEFINE l == lib[h]
<1>1. LibFields(l)
  BY DEF ScannerInv, ScannerTypes
<1> HIDE DEF l
<1>2. /\ LibFields([l EXCEPT !.phase = v]) /\ LibFields([l EXCEPT !.at = v])
      /\ [l EXCEPT !.phase = v].state = l.state /\ [l EXCEPT !.at = v].state = l.state
      /\ [l EXCEPT !.phase = v].type = l.type /\ [l EXCEPT !.at = v].type = l.type
  BY <1>1 DEF LibFields
<1> QED BY <1>1, <1>2 DEF l, SameLib

LEMMA EventsFollowed ==
  ASSUME ScannerInv, ReceiverInv, NEW h \in Handles,
         \/ ScanBegins(h) \/ TsBegins(h) \/ MgtDone(h) \/ VctDone(h) \/ ScanEnds(h)
         \/ \E mhz \in 0..scan.kind.width : AtvTuning(h, mhz)
  PROVE  ReceiverInv'
<1>0. ASSUME NEW phase, NEW l, NEW s, Event(h, phase, l, s), SameLib(h, l), Same(s) PROVE ReceiverInv'
  BY <1>0, EventsReceiver DEF SameLib, Same
<1>1. CASE ScanBegins(h)
  BY <1>0, <1>1, PercentSame, LibSame DEF ScanBegins
<1>2. CASE TsBegins(h)
  <2>1. PICK v, w : Event(h, "ts", [lib[h] EXCEPT !.at = lib[h].at + 1],
                          [scan EXCEPT !.percent = v, !.total = w])
    BY <1>2 DEF TsBegins
  <2> DEFINE a == lib[h].at + 1
  <2>2. Event(h, "ts", [lib[h] EXCEPT !.at = a], [scan EXCEPT !.percent = v, !.total = w])
    BY <2>1
  <2> HIDE DEF a
  <2> QED BY <1>0, <2>2, PercentSame, LibSame
<1>3. CASE MgtDone(h)
  BY <1>0, <1>3, BumpSame, LibSame DEF MgtDone
<1>4. CASE VctDone(h)
  BY <1>0, <1>4, BumpSame, LibSame DEF VctDone
<1>5. CASE ScanEnds(h)
  BY <1>0, <1>5, PercentSame, LibSame DEF ScanEnds
<1>6. ASSUME NEW mhz \in 0..scan.kind.width, AtvTuning(h, mhz) PROVE ReceiverInv'
  <2>1. PICK v : Event(h, "ts", lib[h], [scan EXCEPT !.percent = v])
    BY <1>6 DEF AtvTuning
  <2> QED BY <1>0, <2>1, PercentSame, LibSame
<1> QED BY <1>1, <1>2, <1>3, <1>4, <1>5, <1>6

(* A step that touches none of scan, lib, the call and the call back. *)
LEMMA IdleStep ==
  ASSUME ScannerInv, ReceiverInv, UNCHANGED <<scan, lib, scanCall, scanCb, vbiRaced>>,
         rx' = rx \/ ~Live
  PROVE  ReceiverInv'
<1>1. (Live' <=> Live) /\ (VbiOff' <=> VbiOff) /\ (Needed' <=> Needed)
  BY DEF Live, Runs, VbiOff, Needed
<1>2. VbiStops' /\ ReceiverTypes' /\ CalledBack'
  BY <1>1 DEF ReceiverInv, VbiStops, ReceiverTypes, CalledBack
<1>3. ReceiverSet'
  BY <1>1 DEF ReceiverInv, ReceiverSet
<1> QED BY <1>2, <1>3 DEF ReceiverInv

LEMMA ReceiverNextInv ==
  ScannerInv /\ QueryMeetsScan /\ ReceiverInv /\ [ScannerNext]_scannerVars => ReceiverInv'
<1> SUFFICES ASSUME ScannerInv, QueryMeetsScan, ReceiverInv, [ScannerNext]_scannerVars
             PROVE  ReceiverInv'
  OBVIOUS
<1>s. ScannerInv'
  BY ScannerNextInv
<1>1. ASSUME NEW next, BeginStop(next) PROVE ReceiverInv'
  BY <1>1, BeginStopReceiver
<1>2. CASE DestroyScan \/ ClearStart \/ SetStart
  BY <1>2, <1>s, CallSteps
<1>3. CASE CreateScan
  BY <1>3, <1>s, CreateReceiver
<1>4. CASE TestStart \/ UseHandle
  BY <1>4, IdleStep DEF TestStart, UseHandle
<1>5. CASE FeTypeStep
  BY <1>5, FeTypeStepReceiver
<1>6. ASSUME NEW h \in Handles, NEW type \in {"analog", "digital"}, FeTypeHelper(h, type)
      PROVE  ReceiverInv'
  BY <1>6, FeTypeHelperReceiver
<1>7. ASSUME NEW h \in Handles,
             \/ ScanBegins(h) \/ TsBegins(h) \/ MgtDone(h) \/ VctDone(h) \/ ScanEnds(h)
             \/ \E mhz \in 0..scan.kind.width : AtvTuning(h, mhz)
      PROVE  ReceiverInv'
  BY <1>7, EventsFollowed
<1>8. CASE ReceiverUsed
  <2>1. scanCall.at = "out" /\ scan.start = FALSE
    BY <1>8 DEF ReceiverUsed, ScannerInv, ScannerTypes
  <2>2. ~Live
    BY <2>1 DEF ScannerInv, Positions, NothingRuns, Live
  <2> QED BY <1>8, <2>2, IdleStep DEF ReceiverUsed
<1>9. CASE UNCHANGED scannerVars
  BY <1>9, IdleStep DEF scannerVars
<1> QED BY <1>1, <1>2, <1>3, <1>4, <1>5, <1>6, <1>7, <1>8, <1>9 DEF ScannerNext

LEMMA InvReceiver == ScannerInv /\ ReceiverInv => ReceiverFollows
<1> SUFFICES ASSUME ScannerInv, ReceiverInv PROVE ReceiverFollows
  OBVIOUS
<1>1. ASSUME NEW h \in Running, scanCb.at = "out", lib[h].type # "none"
      PROVE  /\ rx = [mode |-> lib[h].type, port |-> lib[h].type = "analog"]
             /\ lib[h].type = "digital" => ~scan.vbi \/ vbiRaced
  <2>1. Live /\ h = scan.handle
    BY DEF Running, Runs, Live, ScannerInv, Owned
  <2>2. lib[h].type = scan.feType /\ scan.feType \in {"analog", "digital"}
    BY <1>1, <2>1 DEF ReceiverInv, ReceiverSet, ReceiverTypes
  <2>3. CASE scan.feType = "analog"
    <3>1. rx = [mode |-> "analog", port |-> TRUE]
      BY <1>1, <2>1, <2>3 DEF ReceiverInv, ReceiverSet
    <3> QED BY <2>2, <2>3, <3>1
  <2>4. CASE scan.feType = "digital"
    <3>1. rx = [mode |-> "digital", port |-> FALSE] /\ VbiOff
      BY <1>1, <2>1, <2>4 DEF ReceiverInv, ReceiverSet
    <3>2. (lib[h].type = "analog") = FALSE
      BY <2>2, <2>4
    <3>3. ~scan.vbi \/ vbiRaced
      BY <3>1 DEF VbiOff
    <3> QED BY <2>2, <2>4, <3>1, <3>2, <3>3
  <2> QED BY <2>2, <2>3, <2>4
<1>2. ASSUME scanCall.at = "out", ~scan.start PROVE ~scan.vbi \/ vbiRaced
  <2>1. scan.start = FALSE
    BY <1>2 DEF ScannerInv, ScannerTypes
  <2>2. VbiOff
    BY <1>2, <2>1 DEF ReceiverInv, VbiStops
  <2> QED BY <2>2 DEF VbiOff
<1> QED BY <1>1, <1>2 DEF ReceiverFollows

(* Whatever scans of whatever kinds are made, refused and stopped, and wherever their call backs  *)
(* are, a stream is scanned with the receiver set up for its kind, and VBI is off where it must be *)
(* but for the restart that races with a stop: FETypeHelperCB, Scan, stopScan.                     *)
THEOREM ReceiverIsReady == ScannerSpec => []ReceiverFollows
<1> DEFINE Inv == ScannerInv /\ QueryMeetsScan /\ ReceiverInv
<1>1. ScannerInit => Inv
  BY ScannerInitInv, ReceiverInitInv
<1>2. Inv /\ [ScannerNext]_scannerVars => Inv'
  BY ScannerNextInv, ReceiverNextInv
<1>3. Inv => ReceiverFollows
  BY InvReceiver
<1> QED BY <1>1, <1>2, <1>3, PTL DEF ScannerSpec

-----------------------------------------------------------------------------
(* The vdin driver.  A path is whole on digital TV; the driver shows snow   *)
(* exactly when CTvin asks for it, on analogue TV only; a decoder left      *)
(* running after the signal was lost decodes snow.                          *)

VdinFields(v) ==
  /\ v = [source |-> v.source, first |-> v.first, inVdin |-> v.inVdin, scanning |-> v.scanning,
          decoding |-> v.decoding, info |-> v.info, snow |-> v.snow, sig |-> v.sig]
  /\ v.first \in BOOLEAN /\ v.decoding \in BOOLEAN /\ v.snow \in BOOLEAN
VdinTypes == VdinFields(vdin) /\ vdin.sig \in Signals /\ shown \in BOOLEAN

PathKept ==
  /\ vfm = [p \in {"default", "tvpath"} |-> vfm[p]]
  /\ vdin.first = TRUE => vdin.source = "none"
  /\ DtvFindsPath

SnowKept ==
  "snow" \notin vdinDoubt => shown = vdin.snow /\ (shown = TRUE => vdin.source = "TV")

Lost == {"nosig", "notsup"}
SignalKept ==
  /\ DecodesTheSignal
  /\ vdin.decoding = TRUE /\ vdin.sig \in Lost /\ "refused" \notin vdinDoubt =>
       vdin.source = "TV" /\ vdin.snow = TRUE

VdinInv == VdinTypes /\ PathKept /\ SnowKept /\ SignalKept

LEMMA VdinInitInv == VdinInit => VdinInv
<1> SUFFICES ASSUME VdinInit PROVE VdinInv
  OBVIOUS
<1>1. VdinTypes
  BY DEF VdinInit, VdinTypes, VdinFields, Signals
<1>2. PathKept
  BY DEF VdinInit, PathKept, DtvFindsPath
<1>3. SnowKept /\ SignalKept
  BY DEF VdinInit, SnowKept, SignalKept, DecodesTheSignal, Lost
<1> QED BY <1>1, <1>2, <1>3 DEF VdinInv

(* What CTvin's operations do to its members. *)
SameSource(s, v) == s.source = v.source /\ s.first = v.first /\ s.sig = v.sig
LEMMA StopVdinIs ==
  ASSUME NEW v, VdinFields(v), NEW refused \in BOOLEAN
  PROVE  LET s == StopVdin(v, refused) IN
         /\ VdinFields(s) /\ SameSource(s, v) /\ s.info = v.info /\ s.snow = v.snow
         /\ s.decoding = TRUE => v.decoding = TRUE /\ refused = TRUE
<1> DEFINE d == v.decoding /\ refused
<1>1. StopVdin(v, refused) = [v EXCEPT !.decoding = d]
  BY DEF StopVdin
<1>2. d \in BOOLEAN /\ (d = TRUE => v.decoding = TRUE /\ refused = TRUE)
  OBVIOUS
<1> HIDE DEF d
<1> QED BY <1>1, <1>2 DEF VdinFields, SameSource

LEMMA SnowOnIs ==
  ASSUME NEW v, VdinFields(v), NEW on \in BOOLEAN
  PROVE  LET s == SnowOn(v, on) IN
         VdinFields(s) /\ SameSource(s, v) /\ s.info = v.info /\ s.decoding = v.decoding /\ s.snow = on
BY DEF SnowOn, VdinFields, SameSource

LEMMA StartVdinIs ==
  ASSUME NEW v, VdinFields(v), NEW ok \in BOOLEAN
  PROVE  LET s == StartVdin(v, ok) IN
         /\ VdinFields(s) /\ SameSource(s, v) /\ s.snow = v.snow
         /\ v.decoding = TRUE => s = v
         /\ v.decoding = FALSE => s.info = v.sig
<1>1. CASE v.decoding = TRUE
  BY <1>1 DEF StartVdin, SameSource
<1>2. CASE v.decoding = FALSE
  <2> DEFINE u == [v EXCEPT !.info = v.sig]
  <2>1. VdinFields(u) /\ SameSource(u, v) /\ u.snow = v.snow /\ u.info = v.sig
    BY DEF VdinFields, SameSource
  <2>2. StartVdin(v, ok) = [u EXCEPT !.decoding = ok]
    BY <1>2 DEF StartVdin
  <2> HIDE DEF u
  <2> QED BY <1>2, <2>1, <2>2 DEF VdinFields, SameSource
<1> QED BY <1>1, <1>2 DEF VdinFields

(* Doubts that a step keeps, ends and brings. *)
LEMMA DoubtsOf ==
  ASSUME NEW ended, NEW new, KeepDoubt(ended, new), shown' \in BOOLEAN, vdin'.snow \in BOOLEAN
  PROVE  /\ \A d : d # "snow" => (d \in vdinDoubt' <=> d \in (vdinDoubt \ ended) \cup new)
         /\ "snow" \notin vdinDoubt' => shown' = vdin'.snow
         /\ "snow" \notin vdinDoubt' /\ shown' = TRUE => "snow" \notin (vdinDoubt \ ended) \cup new
BY DEF KeepDoubt, Doubts

(* Snow: the driver shows what is asked for or nothing changes, and who asks is on analogue TV. *)
LEMMA SnowStep ==
  ASSUME VdinInv, VdinFields(vdin'), shown' \in ShownAfter(vdin'), NEW ended, NEW new,
         KeepDoubt(ended, new), "snow" \notin ended,
         "snow" \in new \/ (vdin'.snow = TRUE =>
           vdin'.source = "TV" \/ (vdin.snow = TRUE /\ (vdin.source = "TV" => vdin'.source = "TV")))
  PROVE  SnowKept' /\ shown' \in BOOLEAN
<1>1. shown' \in BOOLEAN /\ vdin'.snow \in BOOLEAN
  BY DEF ShownAfter, VdinFields, VdinInv, VdinTypes
<1>2. ASSUME "snow" \notin vdinDoubt', shown' = TRUE PROVE vdin'.source = "TV"
  <2>1. vdin'.snow = TRUE /\ "snow" \notin vdinDoubt /\ "snow" \notin new
    BY <1>1, <1>2, DoubtsOf
  <2>2. vdin.snow = TRUE => vdin.source = "TV"
    BY <2>1 DEF VdinInv, SnowKept
  <2> QED BY <2>1, <2>2
<1>3. "snow" \notin vdinDoubt' => shown' = vdin'.snow
  BY <1>1, DoubtsOf
<1> QED BY <1>1, <1>2, <1>3 DEF SnowKept

(* The signal: a step that tells none leaves the decoder as it was, or stops it. *)
LEMMA SignalStep ==
  ASSUME VdinInv, VdinFields(vdin'), vdin'.sig = vdin.sig,
         vdinDoubt \cap {"signal", "refused"} \subseteq vdinDoubt',
         vdin'.decoding = TRUE =>
           /\ vdin.decoding = TRUE /\ vdin'.info = vdin.info
           /\ "refused" \in vdinDoubt' \/ (vdin'.source = vdin.source /\ (vdin.snow = TRUE => vdin'.snow = TRUE))
  PROVE  SignalKept' /\ vdin'.sig \in Signals
<1>1. ASSUME vdin'.decoding, vdin'.sig \in StableSignals, vdinDoubt' \cap {"signal", "refused"} = {}
      PROVE  vdin'.info = vdin'.sig
  <2>1. vdin'.decoding = TRUE
    BY <1>1 DEF VdinFields
  <2>2. vdinDoubt \cap {"signal", "refused"} = {}
    BY <1>1
  <2> QED BY <1>1, <2>1, <2>2 DEF VdinInv, SignalKept, DecodesTheSignal
<1>2. ASSUME vdin'.decoding = TRUE, vdin'.sig \in Lost, "refused" \notin vdinDoubt'
      PROVE  vdin'.source = "TV" /\ vdin'.snow = TRUE
  BY <1>2 DEF VdinInv, SignalKept
<1> QED BY <1>1, <1>2 DEF SignalKept, DecodesTheSignal, VdinInv, VdinTypes

(* The path of a step that leaves the map alone. *)
LEMMA PathStep ==
  ASSUME VdinInv, UNCHANGED vfm, vdin'.first = vdin.first, vdin'.source \in {vdin.source, "none"},
         "path" \in vdinDoubt => "path" \in vdinDoubt'
  PROVE  PathKept'
BY DEF VdinInv, PathKept, DtvFindsPath

Like(s, v) ==
  /\ VdinFields(s) /\ s.sig = v.sig /\ s.first = v.first
  /\ s.info = v.info /\ s.snow = v.snow /\ s.decoding = v.decoding

LEMMA MembersOf ==
  ASSUME NEW v, VdinFields(v), NEW x
  PROVE  /\ Like([v EXCEPT !.scanning = x], v) /\ [v EXCEPT !.scanning = x].source = v.source
         /\ Like([v EXCEPT !.inVdin = x], v) /\ [v EXCEPT !.inVdin = x].source = v.source
         /\ Like([v EXCEPT !.source = x], v) /\ [v EXCEPT !.source = x].source = x
BY DEF VdinFields, Like

LEMMA RefusalsAreBoolean == \A refused \in DecoderRefusals : refused \in BOOLEAN
BY DEF DecoderRefusals

LEMMA DoubtIsNew ==
  ASSUME NEW cond, NEW d, cond = TRUE PROVE d \in Doubts(cond, d)
BY DEF Doubts

(* A step after which the members are s: s decodes what was decoded, or stopped.  Two ways to a    *)
(* step that keeps all: the decoder goes on with the source and the snow it had, or only a driver *)
(* that refused to stop keeps it.                                                                  *)
Goes(s) ==
  /\ VdinFields(s) /\ s.sig = vdin.sig /\ s.first = vdin.first /\ s.info = vdin.info
  /\ s.source \in {vdin.source, "none"}
  /\ s.decoding = TRUE => vdin.decoding = TRUE

LEMMA VdinStep ==
  ASSUME VdinInv, Goes(vdin'), shown' \in ShownAfter(vdin'), UNCHANGED vfm,
         NEW new, KeepDoubt({}, new), NEW refused, refused = TRUE => "refused" \in new,
         vdin'.decoding = TRUE =>
           refused = TRUE \/ (vdin'.source = vdin.source /\ (vdin.snow = TRUE => vdin'.snow = TRUE)),
         "snow" \in new \/ (vdin'.snow = TRUE =>
           vdin'.source = "TV" \/ (vdin.snow = TRUE /\ (vdin.source = "TV" => vdin'.source = "TV")))
  PROVE  VdinInv'
<1>1. SnowKept' /\ shown' \in BOOLEAN
  BY SnowStep DEF Goes
<1>2. \A d : d # "snow" => (d \in vdinDoubt' <=> d \in vdinDoubt \cup new)
  <2>1. vdin'.snow \in BOOLEAN
    BY DEF Goes, VdinFields
  <2>2. ASSUME NEW d, d # "snow" PROVE d \in vdinDoubt' <=> d \in vdinDoubt \cup new
    <3>1. d \in vdinDoubt' <=> d \in (vdinDoubt \ {}) \cup new
      BY <1>1, <2>1, <2>2, DoubtsOf
    <3> QED BY <3>1
  <2> QED BY <2>2
<1>3. vdinDoubt \cap {"signal", "refused"} \subseteq vdinDoubt'
  BY <1>2
<1>4. refused = TRUE => "refused" \in vdinDoubt'
  BY <1>2
<1>5. SignalKept' /\ vdin'.sig \in Signals
  BY <1>3, <1>4, SignalStep DEF Goes
<1>6. PathKept'
  BY <1>2, PathStep DEF Goes
<1> QED BY <1>1, <1>5, <1>6 DEF VdinInv, VdinTypes, Goes

LEMMA StopGoes ==
  ASSUME VdinInv, NEW v, VdinFields(v), SameSource(v, vdin), v.info = vdin.info,
         v.decoding = vdin.decoding, NEW refused \in BOOLEAN
  PROVE  /\ VdinFields(StopVdin(v, refused)) /\ Goes(StopVdin(v, refused))
         /\ StopVdin(v, refused).source = vdin.source /\ StopVdin(v, refused).snow = v.snow
         /\ StopVdin(v, refused).decoding = TRUE => refused = TRUE
<1> DEFINE s == StopVdin(v, refused)
<1>1. /\ VdinFields(s) /\ SameSource(s, v) /\ s.info = v.info /\ s.snow = v.snow
      /\ s.decoding = TRUE => v.decoding = TRUE /\ refused = TRUE
  BY StopVdinIs
<1> HIDE DEF s
<1>2. Goes(s) /\ s.source = vdin.source
  BY <1>1 DEF Goes, SameSource
<1> QED BY <1>1, <1>2 DEF s

LEMMA SnowGoes ==
  ASSUME VdinInv, NEW s, Goes(s), NEW on \in BOOLEAN
  PROVE  Goes(SnowOn(s, on)) /\ SnowOn(s, on).snow = on /\ SnowOn(s, on).source = s.source
         /\ SnowOn(s, on).decoding = s.decoding
<1> DEFINE t == SnowOn(s, on)
<1>1. VdinFields(t) /\ SameSource(t, s) /\ t.info = s.info /\ t.decoding = s.decoding /\ t.snow = on
  BY SnowOnIs DEF Goes
<1> HIDE DEF t
<1>2. Goes(t) /\ t.source = s.source
  BY <1>1 DEF Goes, SameSource
<1> QED BY <1>1, <1>2 DEF t

LEMMA ScanningGoes ==
  ASSUME NEW s, Goes(s), NEW x, NEW t, t = [s EXCEPT !.scanning = x]
  PROVE  Goes(t) /\ t.snow = s.snow /\ t.decoding = s.decoding /\ t.source = s.source
<1>1. Like(t, s) /\ t.source = s.source
  BY MembersOf DEF Goes
<1> QED BY <1>1 DEF Goes, Like

LEMMA InVdinGoes ==
  ASSUME NEW s, Goes(s), NEW x, NEW t, t = [s EXCEPT !.inVdin = x]
  PROVE  Goes(t) /\ t.snow = s.snow /\ t.decoding = s.decoding /\ t.source = s.source
<1>1. Like(t, s) /\ t.source = s.source
  BY MembersOf DEF Goes
<1> QED BY <1>1 DEF Goes, Like

LEMMA SourceGoes ==
  ASSUME NEW s, Goes(s), NEW t, t = [s EXCEPT !.source = "none"]
  PROVE  Goes(t) /\ t.snow = s.snow /\ t.decoding = s.decoding /\ t.source = "none"
<1>1. Like(t, s) /\ t.source = "none"
  BY MembersOf DEF Goes
<1> QED BY <1>1 DEF Goes, Like

LEMMA VdinGoes == VdinInv => Goes(vdin) /\ VdinFields(vdin) /\ SameSource(vdin, vdin)
BY DEF VdinInv, VdinTypes, Goes, SameSource

LEMMA ScanVdinStep == ASSUME VdinInv, ScanVdin PROVE VdinInv'
<1> DEFINE v == [vdin EXCEPT !.scanning = TRUE]
           New(kind, refused) ==
             Doubts(kind = "auto" /\ vdin.source # "TV", "snow") \cup Doubts(refused, "refused")
<1>1. Goes(v) /\ v.snow = vdin.snow /\ v.decoding = vdin.decoding /\ v.source = vdin.source
  BY VdinGoes, ScanningGoes
<1>2. VdinFields(v) /\ SameSource(v, vdin) /\ v.info = vdin.info
  BY <1>1 DEF Goes, SameSource
<1>3. PICK kind \in {"auto", "manual", "mixed"}, refused \in DecoderRefusals :
        LET after == CASE kind = "auto" -> SnowOn(v, TRUE)
                       [] kind = "manual" -> v
                       [] kind = "mixed" -> StopVdin(v, refused)
        IN vdin' = after /\ shown' \in ShownAfter(after) /\ KeepDoubt({}, New(kind, refused))
  BY DEF ScanVdin
<1>4. UNCHANGED vfm /\ refused \in BOOLEAN
  BY RefusalsAreBoolean DEF ScanVdin
<1>5. refused = TRUE => "refused" \in New(kind, refused)
  BY DoubtIsNew
<1>6. kind = "auto" /\ vdin.source # "TV" => "snow" \in New(kind, refused)
  BY DEF Doubts
<1> HIDE DEF v, New
<1>7. CASE kind = "auto"
  <2>1. vdin' = SnowOn(v, TRUE) /\ shown' \in ShownAfter(vdin')
    BY <1>3, <1>7
  <2>2. Goes(vdin') /\ vdin'.snow = TRUE /\ vdin'.source = vdin.source /\ vdin'.decoding = vdin.decoding
    BY <1>1, <2>1, SnowGoes
  <2> QED BY <1>3, <1>4, <1>5, <1>6, <1>7, <2>1, <2>2, VdinStep
<1>8. CASE kind = "manual"
  <2>1. vdin' = v /\ shown' \in ShownAfter(vdin')
    BY <1>3, <1>8
  <2> QED BY <1>1, <1>3, <1>4, <1>5, <2>1, VdinStep
<1>9. CASE kind = "mixed"
  <2>1. vdin' = StopVdin(v, refused) /\ shown' \in ShownAfter(vdin')
    BY <1>3, <1>9
  <2>2. Goes(vdin') /\ vdin'.source = vdin.source /\ vdin'.snow = vdin.snow
        /\ (vdin'.decoding = TRUE => refused = TRUE)
    BY <1>1, <1>2, <1>4, <2>1, StopGoes
  <2> QED BY <1>3, <1>4, <1>5, <2>1, <2>2, VdinStep
<1> QED BY <1>7, <1>8, <1>9

LEMMA ScannerTurnsStep == ASSUME VdinInv, ScannerTurns PROVE VdinInv'
<1>1. PICK refused \in DecoderRefusals :
        vdin' = StopVdin(vdin, refused) /\ KeepDoubt({}, Doubts(refused, "refused"))
  BY DEF ScannerTurns
<1>2. UNCHANGED <<vfm, shown>> /\ refused \in BOOLEAN
  BY RefusalsAreBoolean DEF ScannerTurns
<1>3. Goes(vdin') /\ vdin'.source = vdin.source /\ vdin'.snow = vdin.snow
      /\ (vdin'.decoding = TRUE => refused = TRUE)
  BY <1>1, <1>2, VdinGoes, StopGoes
<1>4. shown' \in ShownAfter(vdin')
  BY <1>2 DEF ShownAfter
<1> QED BY <1>1, <1>2, <1>3, <1>4, DoubtIsNew, VdinStep

LEMMA StopScanVdinStep == ASSUME VdinInv, StopScanVdin PROVE VdinInv'
<1> DEFINE v == [vdin EXCEPT !.scanning = FALSE]
<1>1. Goes(v) /\ v.snow = vdin.snow /\ v.decoding = vdin.decoding /\ v.source = vdin.source
  BY VdinGoes, ScanningGoes
<1>2. VdinFields(v) /\ SameSource(v, vdin) /\ v.info = vdin.info
  BY <1>1 DEF Goes, SameSource
<1>3. PICK refused \in DecoderRefusals :
        LET off == IF AnalogSnow THEN SnowOn(StopVdin(v, refused), FALSE) ELSE v
        IN vdin' = off /\ shown' \in ShownAfter(off) /\ KeepDoubt({}, Doubts(refused, "refused"))
  BY DEF StopScanVdin
<1>4. UNCHANGED vfm /\ refused \in BOOLEAN /\ (refused = TRUE => "refused" \in Doubts(refused, "refused"))
  BY RefusalsAreBoolean, DoubtIsNew DEF StopScanVdin
<1> HIDE DEF v
<1>5. CASE AnalogSnow
  <2>1. vdin' = SnowOn(StopVdin(v, refused), FALSE) /\ shown' \in ShownAfter(vdin')
    BY <1>3, <1>5
  <2> DEFINE w == StopVdin(v, refused)
  <2>3. Goes(w) /\ w.source = vdin.source /\ (w.decoding = TRUE => refused = TRUE)
    BY <1>1, <1>2, <1>4, StopGoes
  <2>4. vdin' = SnowOn(w, FALSE)
    BY <2>1
  <2> HIDE DEF w
  <2>2. Goes(vdin') /\ vdin'.snow = FALSE /\ vdin'.source = vdin.source
        /\ (vdin'.decoding = TRUE => refused = TRUE)
    BY <2>3, <2>4, SnowGoes
  <2> QED BY <1>3, <1>4, <2>1, <2>2, VdinStep
<1>6. CASE ~AnalogSnow
  <2>1. vdin' = v /\ shown' \in ShownAfter(vdin')
    BY <1>3, <1>6
  <2> QED BY <1>1, <1>3, <1>4, <2>1, VdinStep
<1> QED BY <1>5, <1>6

LEMMA SetFrontEndStep == ASSUME VdinInv, SetFrontEndVdin PROVE VdinInv'
<1>1. PICK refused \in DecoderRefusals, digital \in BOOLEAN, adtv \in BOOLEAN :
        LET v == StopVdin(vdin, refused)
            after == IF ~digital THEN [v EXCEPT !.inVdin = @ \/ vdin.source = "DTV"]
                     ELSE IF AnalogSnow /\ adtv THEN [SnowOn(v, FALSE) EXCEPT !.inVdin = FALSE] ELSE vdin
        IN vdin' = after /\ shown' \in ShownAfter(after) /\ KeepDoubt({}, Doubts(refused, "refused"))
  BY DEF SetFrontEndVdin
<1> DEFINE v == StopVdin(vdin, refused)
           x == v.inVdin \/ vdin.source = "DTV"
<1>2. UNCHANGED vfm /\ refused \in BOOLEAN /\ (refused = TRUE => "refused" \in Doubts(refused, "refused"))
  BY RefusalsAreBoolean, DoubtIsNew DEF SetFrontEndVdin
<1>3. Goes(v) /\ v.snow = vdin.snow /\ v.source = vdin.source /\ (v.decoding = TRUE => refused = TRUE)
  BY <1>2, VdinGoes, StopGoes
<1>4. vdin' = [v EXCEPT !.inVdin = x] \/ vdin' = [SnowOn(v, FALSE) EXCEPT !.inVdin = FALSE] \/ vdin' = vdin
  BY <1>1
<1>5. shown' \in ShownAfter(vdin') /\ KeepDoubt({}, Doubts(refused, "refused"))
  BY <1>1
<1> HIDE DEF v, x
<1>6. CASE vdin' = [v EXCEPT !.inVdin = x]
  <2>1. Goes(vdin') /\ vdin'.snow = vdin.snow /\ vdin'.source = vdin.source
        /\ (vdin'.decoding = TRUE => refused = TRUE)
    BY <1>3, <1>6, InVdinGoes
  <2> QED BY <1>2, <1>5, <2>1, VdinStep
<1>7. CASE vdin' = [SnowOn(v, FALSE) EXCEPT !.inVdin = FALSE]
  <2> DEFINE w == SnowOn(v, FALSE)
  <2>2. Goes(w) /\ w.snow = FALSE /\ w.source = vdin.source /\ (w.decoding = TRUE => refused = TRUE)
    BY <1>3, SnowGoes
  <2>3. vdin' = [w EXCEPT !.inVdin = FALSE]
    BY <1>7
  <2> HIDE DEF w
  <2>1. Goes(vdin') /\ vdin'.snow = FALSE /\ vdin'.source = vdin.source
        /\ (vdin'.decoding = TRUE => refused = TRUE)
    BY <2>2, <2>3, InVdinGoes
  <2> QED BY <1>2, <1>5, <2>1, VdinStep
<1>8. CASE vdin' = vdin
  BY <1>2, <1>5, <1>8, VdinGoes, VdinStep
<1> QED BY <1>4, <1>6, <1>7, <1>8

LEMMA StopTvStep == ASSUME VdinInv, StopTvVdin PROVE VdinInv'
<1>1. PICK refused \in DecoderRefusals :
        LET v == StopVdin(vdin, refused)
            off == IF AnalogSnow THEN SnowOn(v, FALSE) ELSE v
            after == [off EXCEPT !.source = "none", !.inVdin = FALSE, !.scanning = FALSE]
        IN vdin' = after /\ shown' \in ShownAfter(after) /\ KeepDoubt({}, Doubts(refused, "refused"))
  BY DEF StopTvVdin
<1> DEFINE v == StopVdin(vdin, refused)
           off == IF AnalogSnow THEN SnowOn(v, FALSE) ELSE v
           a == [off EXCEPT !.source = "none"]
           b == [a EXCEPT !.inVdin = FALSE]
<1>2. UNCHANGED vfm /\ refused \in BOOLEAN /\ (refused = TRUE => "refused" \in Doubts(refused, "refused"))
  BY RefusalsAreBoolean, DoubtIsNew DEF StopTvVdin
<1>3. Goes(v) /\ v.snow = vdin.snow /\ v.source = vdin.source /\ (v.decoding = TRUE => refused = TRUE)
  BY <1>2, VdinGoes, StopGoes
<1>4. vdin' = [b EXCEPT !.scanning = FALSE]
  BY <1>1
<1>5. shown' \in ShownAfter(vdin') /\ KeepDoubt({}, Doubts(refused, "refused"))
  BY <1>1
<1>6. /\ Goes(off) /\ (off.decoding = TRUE => refused = TRUE)
      /\ off.snow = TRUE => vdin.snow = TRUE /\ vdin.source # "TV"
  <2>1. CASE AnalogSnow
    <3>1. off = SnowOn(v, FALSE)
      BY <2>1
    <3> HIDE DEF off, v
    <3> QED BY <1>3, <3>1, SnowGoes
  <2>2. CASE ~AnalogSnow
    BY <1>3, <2>2 DEF AnalogSnow
  <2> QED BY <2>1, <2>2
<1> HIDE DEF off
<1>7. Goes(a) /\ a.snow = off.snow /\ a.decoding = off.decoding /\ a.source = "none"
  BY <1>6, SourceGoes
<1> HIDE DEF a
<1>8. Goes(b) /\ b.snow = off.snow /\ b.decoding = off.decoding /\ b.source = "none"
  BY <1>7, InVdinGoes
<1> HIDE DEF b
<1>9. Goes(vdin') /\ vdin'.snow = off.snow /\ vdin'.decoding = off.decoding
  BY <1>4, <1>8, ScanningGoes
<1> QED BY <1>2, <1>5, <1>6, <1>9, VdinStep

LEMMA RebuildIs ==
  ASSUME NEW paths, paths = [p \in {"default", "tvpath"} |-> paths[p]],
         NEW p \in {"default", "tvpath"}, NEW w
  PROVE  /\ RebuildPath(paths, p, w) = [q \in {"default", "tvpath"} |-> RebuildPath(paths, p, w)[q]]
         /\ Wrote(w) => RebuildPath(paths, p, w)[p] = "whole"
BY DEF RebuildPath, Wrote

LEMMA FirstIs ==
  ASSUME NEW v, VdinFields(v), NEW b \in BOOLEAN
  PROVE  LET u == [v EXCEPT !.first = b] IN
         /\ VdinFields(u) /\ u.first = b /\ u.sig = v.sig /\ u.info = v.info
         /\ u.snow = v.snow /\ u.decoding = v.decoding
BY DEF VdinFields

LEMMA SwitchMembers ==
  ASSUME VdinInv, NEW source, NEW refused \in BOOLEAN,
         LET v == [vdin EXCEPT !.first = FALSE, !.source = source] IN
         vdin' = IF source = vdin.source THEN v
                 ELSE IF source = "DTV" THEN StopVdin(v, refused) ELSE SwitchPort(v, refused)
  PROVE  /\ VdinFields(vdin') /\ vdin'.source = source /\ vdin'.first = FALSE
         /\ vdin'.sig = vdin.sig /\ vdin'.info = vdin.info /\ vdin'.snow = vdin.snow
         /\ vdin'.decoding = TRUE => vdin.decoding = TRUE /\ (source = vdin.source \/ refused = TRUE)
<1> DEFINE u == [vdin EXCEPT !.first = FALSE]
           v == [u EXCEPT !.source = source]
           s == StopVdin(v, refused)
           x == s.inVdin \/ ~s.decoding
           t == [s EXCEPT !.inVdin = x]
<1>1. /\ VdinFields(u) /\ u.first = FALSE /\ u.sig = vdin.sig /\ u.info = vdin.info
      /\ u.snow = vdin.snow /\ u.decoding = vdin.decoding
  <2>1. VdinFields(vdin)
    BY DEF VdinInv, VdinTypes
  <2> QED BY <2>1, FirstIs
<1>2. (source = vdin.source /\ vdin' = v) \/ vdin' = s \/ vdin' = t
  <2>1. [vdin EXCEPT !.first = FALSE, !.source = source] = v
    OBVIOUS
  <2> HIDE DEF v
  <2>2. vdin' = IF source = vdin.source THEN v
                ELSE IF source = "DTV" THEN StopVdin(v, refused) ELSE SwitchPort(v, refused)
    BY <2>1
  <2>3. SwitchPort(v, refused) = t
    BY DEF SwitchPort
  <2> HIDE DEF t, s
  <2>4. StopVdin(v, refused) = s
    BY DEF s
  <2> QED BY <2>2, <2>3, <2>4
<1> HIDE DEF u
<1>3. Like(v, u) /\ v.source = source
  BY <1>1 DEF VdinFields, Like
<1> HIDE DEF v
<1>4. /\ VdinFields(s) /\ SameSource(s, v) /\ s.info = v.info /\ s.snow = v.snow
      /\ s.decoding = TRUE => v.decoding = TRUE /\ refused = TRUE
  BY <1>3, StopVdinIs DEF Like
<1> HIDE DEF s, x
<1>6. Like(t, s) /\ t.source = s.source
  BY <1>4 DEF VdinFields, Like
<1> HIDE DEF t
<1> QED BY <1>1, <1>2, <1>3, <1>4, <1>6 DEF Like, SameSource

LEMMA SwitchVdinStep == ASSUME VdinInv, SwitchVdin PROVE VdinInv'
<1>0. PICK source \in VdinSources, refused \in DecoderRefusals, t, d \in Writes :
        LET paths == IF vdin.first THEN RebuildPath(RebuildPath(vfm, "tvpath", t), "default", d) ELSE vfm
            toDtv == source = "DTV" /\ vdin.source # "DTV"
            incomplete == toDtv /\ Incomplete(paths, "default")
            v == [vdin EXCEPT !.first = FALSE, !.source = source]
        IN
        /\ vdin.first \/ (t = d /\ (Wrote(t) \/ incomplete))
        /\ UNCHANGED shown
        /\ vfm' = IF incomplete THEN RebuildPath(paths, "default", d) ELSE paths
        /\ vdin' = IF source = vdin.source THEN v
                   ELSE IF source = "DTV" THEN StopVdin(v, refused) ELSE SwitchPort(v, refused)
        /\ KeepDoubt(Doubts(toDtv, "path"),
                     Doubts(toDtv /\ ~Wrote(d), "path") \cup Doubts(vdin.source = "TV" /\ source # "TV", "snow")
                     \cup Doubts(refused, "refused"))
  BY DEF SwitchVdin
<1> DEFINE paths == IF vdin.first THEN RebuildPath(RebuildPath(vfm, "tvpath", t), "default", d) ELSE vfm
           toDtv == source = "DTV" /\ vdin.source # "DTV"
           rebuilt == RebuildPath(paths, "default", d)
           ended == Doubts(toDtv, "path")
           new == Doubts(toDtv /\ ~Wrote(d), "path")
                  \cup Doubts(vdin.source = "TV" /\ source # "TV", "snow") \cup Doubts(refused, "refused")
<1>1. /\ UNCHANGED shown
      /\ vfm' = IF toDtv /\ Incomplete(paths, "default") THEN rebuilt ELSE paths
      /\ LET v == [vdin EXCEPT !.first = FALSE, !.source = source] IN
         vdin' = IF source = vdin.source THEN v
                 ELSE IF source = "DTV" THEN StopVdin(v, refused) ELSE SwitchPort(v, refused)
      /\ KeepDoubt(ended, new)
  BY <1>0
<1>2. /\ toDtv /\ ~Wrote(d) => "path" \in new
      /\ vdin.source = "TV" /\ source # "TV" => "snow" \in new
      /\ refused = TRUE => "refused" \in new
      /\ ended \subseteq {"path"} /\ (~toDtv => ended = {})
  BY DEF Doubts
<1>3. /\ VdinFields(vdin') /\ vdin'.source = source /\ vdin'.first = FALSE
      /\ vdin'.sig = vdin.sig /\ vdin'.info = vdin.info /\ vdin'.snow = vdin.snow
      /\ vdin'.decoding = TRUE => vdin.decoding = TRUE /\ (source = vdin.source \/ refused = TRUE)
  BY <1>1, RefusalsAreBoolean, SwitchMembers
<1>4. shown' \in ShownAfter(vdin')
  BY <1>1 DEF ShownAfter
<1>5. /\ paths = [p \in {"default", "tvpath"} |-> paths[p]]
      /\ vdin.first = FALSE => paths = vfm
  <2>1. vfm = [p \in {"default", "tvpath"} |-> vfm[p]]
    BY DEF VdinInv, PathKept
  <2> DEFINE a == RebuildPath(vfm, "tvpath", t)
             b == RebuildPath(a, "default", d)
  <2>2. a = [p \in {"default", "tvpath"} |-> a[p]]
    BY <2>1, RebuildIs
  <2>3. paths = IF vdin.first THEN b ELSE vfm
    OBVIOUS
  <2> HIDE DEF a, paths
  <2>4. b = [p \in {"default", "tvpath"} |-> b[p]]
    BY <2>2, RebuildIs
  <2> HIDE DEF b
  <2> QED BY <2>1, <2>3, <2>4
<1> HIDE DEF ended, new, paths
<1>6. /\ vfm' = [p \in {"default", "tvpath"} |-> vfm'[p]]
      /\ toDtv /\ Wrote(d) => vfm'["default"] = "whole"
      /\ ~toDtv => vfm' = paths
  <2>1. rebuilt = [p \in {"default", "tvpath"} |-> rebuilt[p]] /\ (Wrote(d) => rebuilt["default"] = "whole")
    BY <1>5, RebuildIs
  <2>2. ~Incomplete(paths, "default") => paths["default"] = "whole"
    BY DEF Incomplete
  <2> HIDE DEF rebuilt
  <2> QED BY <1>1, <1>5, <2>1, <2>2
<1>7. SnowKept' /\ shown' \in BOOLEAN
  <2>1. "snow" \notin ended
    BY <1>2
  <2>2. "snow" \in new \/ (vdin'.snow = TRUE => vdin.snow = TRUE /\ (vdin.source = "TV" => vdin'.source = "TV"))
    BY <1>2, <1>3
  <2> QED BY <1>1, <1>3, <1>4, <2>1, <2>2, SnowStep
<1>8. \A e : e # "snow" => (e \in vdinDoubt' <=> e \in (vdinDoubt \ ended) \cup new)
  <2>1. vdin'.snow \in BOOLEAN
    BY <1>3 DEF VdinFields
  <2> QED BY <1>1, <1>7, <2>1, DoubtsOf
<1>9. SignalKept' /\ vdin'.sig \in Signals
  <2>1. vdinDoubt \cap {"signal", "refused"} \subseteq vdinDoubt'
    BY <1>2, <1>8
  <2>2. refused = TRUE => "refused" \in vdinDoubt'
    BY <1>2, <1>8
  <2> QED BY <1>3, <2>1, <2>2, SignalStep
<1>10. PathKept'
  <2>1. ASSUME source = "DTV", "path" \notin vdinDoubt' PROVE vfm'["default"] = "whole"
    <3>1. "path" \notin (vdinDoubt \ ended) /\ "path" \notin new
      BY <1>8, <2>1
    <3> HIDE DEF toDtv
    <3>2. CASE toDtv
      BY <1>2, <1>6, <3>1, <3>2
    <3>3. CASE ~toDtv
      <4>1. vdin.source = "DTV" /\ "path" \notin vdinDoubt
        BY <1>2, <2>1, <3>1, <3>3 DEF toDtv
      <4>2. vdin.first = FALSE
        BY <4>1 DEF VdinInv, VdinTypes, VdinFields, PathKept
      <4>3. vfm["default"] = "whole"
        BY <4>1 DEF VdinInv, PathKept, DtvFindsPath
      <4> QED BY <1>5, <1>6, <3>3, <4>2, <4>3
    <3> QED BY <3>2, <3>3
  <2> QED BY <1>3, <1>6, <2>1 DEF PathKept, DtvFindsPath
<1> QED BY <1>3, <1>7, <1>9, <1>10 DEF VdinInv, VdinTypes

LEMMA VdinSignalStep == ASSUME VdinInv, VdinSignal PROVE VdinInv'
<1>0. PICK sig \in Signals, refused \in DecoderRefusals, ok \in StartOutcomes :
       LET v == [vdin EXCEPT !.sig = sig]
           stopped == StableStops(v, refused)
           lost == sig \in {"nosig", "notsup"}
           after == CASE sig \in StableSignals -> StartVdin(stopped, ok)
                      [] lost /\ AnalogSnow -> StartVdin(SnowOn(v, TRUE), ok)
                      [] sig = "none" \/ (sig = "unstable" /\ AnalogSnow) -> v
                      [] OTHER -> StopVdin(v, refused)
       IN
       /\ vdin' = after /\ shown' \in ShownAfter(after)
       /\ KeepDoubt(IF stopped.decoding THEN {} ELSE {"signal", "refused"},
                    Doubts(refused, "refused")
                    \cup Doubts(sig \in StableSignals /\ vdin.decoding
                                /\ vdin.sig \in StableSignals \cup {"unstable", "none"}, "signal"))
  BY DEF VdinSignal
<1> DEFINE v == [vdin EXCEPT !.sig = sig]
           stopped == StableStops(v, refused)
           on == SnowOn(v, TRUE)
           s == StopVdin(v, refused)
           started == StartVdin(stopped, ok)
           snowed == StartVdin(on, ok)
           ended == IF stopped.decoding THEN {} ELSE {"signal", "refused"}
           Again == sig \in StableSignals /\ vdin.decoding
                    /\ vdin.sig \in StableSignals \cup {"unstable", "none"}
           new == Doubts(refused, "refused") \cup Doubts(Again, "signal")
<1>1. /\ vdin' = CASE sig \in StableSignals -> started
                    [] sig \in {"nosig", "notsup"} /\ AnalogSnow -> snowed
                    [] sig = "none" \/ (sig = "unstable" /\ AnalogSnow) -> v
                    [] OTHER -> s
      /\ shown' \in ShownAfter(vdin') /\ KeepDoubt(ended, new)
  BY <1>0
<1>2. UNCHANGED vfm /\ refused \in BOOLEAN /\ ok \in BOOLEAN
  BY RefusalsAreBoolean DEF VdinSignal, StartOutcomes
<1>3. /\ VdinFields(v) /\ v.sig = sig /\ v.source = vdin.source /\ v.first = vdin.first
      /\ v.info = vdin.info /\ v.snow = vdin.snow /\ v.decoding = vdin.decoding
  BY DEF VdinInv, VdinTypes, VdinFields
<1> HIDE DEF v
<1>s. /\ VdinFields(s) /\ SameSource(s, v) /\ s.info = v.info /\ s.snow = v.snow
      /\ s.decoding = TRUE => v.decoding = TRUE /\ refused = TRUE
  BY <1>2, <1>3, StopVdinIs
<1>t. stopped = IF vdin.source = "TV" /\ v.snow THEN SnowOn(s, FALSE) ELSE v
  BY DEF StableStops, AnalogSnow
<1> HIDE DEF stopped, s
<1>4. /\ refused = TRUE => "refused" \in new
      /\ Again => "signal" \in new
      /\ "snow" \notin ended /\ "path" \notin ended
      /\ stopped.decoding = TRUE => ended = {}
  BY DEF Doubts
<1>6b. sig \notin StableSignals =>
        \/ sig \in Lost /\ vdin.source = "TV" /\ vdin' = snowed
        \/ sig \notin Lost /\ vdin' = v
        \/ vdin' = s
  <2> HIDE DEF snowed, started
  <2> QED BY <1>1 DEF AnalogSnow, Lost
<1>5b. sig \in StableSignals => vdin' = started
  <2> HIDE DEF snowed, started
  <2>1. sig \in StableSignals => sig \notin {"none", "nosig", "unstable", "notsup"}
    BY VdinAssumption DEF VdinAssumption
  <2> QED BY <1>1, <2>1
<1>d. \A e : e # "snow" /\ vdin'.snow \in BOOLEAN /\ shown' \in BOOLEAN =>
        (e \in vdinDoubt' <=> e \in (vdinDoubt \ ended) \cup new)
  <2> HIDE DEF ended, new
  <2> QED BY <1>1, DoubtsOf
<1> HIDE DEF ended, new
<1>5. CASE sig \in StableSignals
  <2>1. vdin' = started
    BY <1>5, <1>5b
  <2>2. /\ VdinFields(stopped) /\ SameSource(stopped, v) /\ stopped.info = v.info
        /\ stopped.decoding = TRUE => v.decoding = TRUE
        /\ stopped.snow = TRUE => v.snow = TRUE
        /\ stopped.decoding = TRUE /\ v.source = "TV" /\ v.snow = TRUE => refused = TRUE
    <3> DEFINE n == SnowOn(s, FALSE)
    <3>1. /\ VdinFields(n) /\ SameSource(n, s) /\ n.info = s.info
          /\ n.decoding = s.decoding /\ n.snow = FALSE
      BY <1>s, SnowOnIs
    <3> HIDE DEF n
    <3>2. stopped = IF vdin.source = "TV" /\ v.snow THEN n ELSE v
      BY <1>t DEF n
    <3>3. CASE vdin.source = "TV" /\ v.snow
      BY <1>s, <3>1, <3>2, <3>3 DEF SameSource
    <3>4. CASE ~(vdin.source = "TV" /\ v.snow)
      BY <1>3, <3>2, <3>4 DEF SameSource
    <3> QED BY <3>3, <3>4
  <2>3. /\ VdinFields(vdin') /\ SameSource(vdin', stopped) /\ vdin'.snow = stopped.snow
        /\ stopped.decoding = TRUE => vdin' = stopped
        /\ stopped.decoding = FALSE => vdin'.info = stopped.sig
    BY <1>2, <2>1, <2>2, StartVdinIs
  <2> HIDE DEF started
  <2>4. vdin'.source = vdin.source /\ vdin'.first = vdin.first /\ vdin'.sig = sig
        /\ (vdin'.snow = TRUE => vdin.snow = TRUE)
    BY <1>3, <2>2, <2>3 DEF SameSource
  <2>5. SnowKept' /\ shown' \in BOOLEAN
    BY <1>1, <1>4, <2>3, <2>4, SnowStep
  <2>6. \A e : e # "snow" => (e \in vdinDoubt' <=> e \in (vdinDoubt \ ended) \cup new)
    BY <1>d, <2>3, <2>5 DEF VdinFields
  <2>7. PathKept'
    BY <1>2, <1>4, <2>4, <2>6, PathStep
  <2>8. ASSUME vdinDoubt' \cap {"signal", "refused"} = {} PROVE vdin'.info = vdin'.sig
    <3>1. CASE stopped.decoding = TRUE
      <4>1. vdin.decoding = TRUE /\ ended = {}
        BY <1>3, <1>4, <2>2, <3>1
      <4>2. "signal" \notin new /\ "refused" \notin new /\ "refused" \notin vdinDoubt
        BY <2>6, <2>8, <4>1
      <4>3. vdin.sig \in Lost
        BY <1>4, <1>5, <4>1, <4>2 DEF VdinInv, VdinTypes, Signals, Lost
      <4>4. vdin.source = "TV" /\ vdin.snow = TRUE
        BY <4>1, <4>2, <4>3 DEF VdinInv, SignalKept
      <4>5. refused = TRUE
        BY <1>3, <2>2, <3>1, <4>4
      <4> QED BY <1>4, <4>2, <4>5
    <3>2. CASE stopped.decoding = FALSE
      BY <1>3, <2>2, <2>3, <2>4, <3>2 DEF SameSource
    <3> QED BY <2>2, <3>1, <3>2 DEF VdinFields
  <2>9. vdin'.sig \notin Lost
    BY <1>5, <2>4, VdinAssumption DEF VdinAssumption, Lost
  <2>10. SignalKept'
    BY <2>8, <2>9 DEF SignalKept, DecodesTheSignal
  <2> QED BY <2>3, <2>4, <2>5, <2>7, <2>10 DEF VdinInv, VdinTypes
<1>6. CASE sig \notin StableSignals
  <2>2. VdinFields(on) /\ SameSource(on, v) /\ on.snow = TRUE
    BY <1>3, SnowOnIs
  <2> HIDE DEF on
  <2>4. VdinFields(snowed) /\ SameSource(snowed, on) /\ snowed.snow = on.snow
    BY <1>2, <2>2, StartVdinIs
  <2> HIDE DEF snowed
  <2>5. /\ VdinFields(vdin') /\ SameSource(vdin', v)
        /\ \/ vdin'.snow = v.snow \/ vdin'.source = "TV"
        /\ vdin'.decoding = TRUE /\ sig \in Lost =>
             refused = TRUE \/ (vdin'.source = "TV" /\ vdin'.snow = TRUE)
    <3>1. CASE sig \in Lost /\ vdin.source = "TV" /\ vdin' = snowed
      BY <1>3, <2>2, <2>4, <3>1 DEF SameSource
    <3>2. CASE sig \notin Lost /\ vdin' = v
      BY <1>3, <3>2 DEF SameSource
    <3>3. CASE vdin' = s
      BY <1>s, <3>3 DEF SameSource
    <3> QED BY <1>6, <1>6b, <3>1, <3>2, <3>3
  <2>6. vdin'.source = vdin.source /\ vdin'.first = vdin.first /\ vdin'.sig = sig
    BY <1>3, <2>5 DEF SameSource
  <2>7. SnowKept' /\ shown' \in BOOLEAN
    BY <1>1, <1>3, <1>4, <2>5, <2>6, SnowStep
  <2>8. \A e : e # "snow" => (e \in vdinDoubt' <=> e \in (vdinDoubt \ ended) \cup new)
    BY <1>d, <2>5, <2>7 DEF VdinFields
  <2>9. PathKept'
    BY <1>2, <1>4, <2>6, <2>8, PathStep
  <2>10. SignalKept'
    <3>1. refused = TRUE => "refused" \in vdinDoubt'
      BY <1>4, <2>8
    <3> QED BY <1>6, <2>5, <2>6, <3>1 DEF SignalKept, DecodesTheSignal
  <2> QED BY <2>5, <2>6, <2>7, <2>9, <2>10 DEF VdinInv, VdinTypes
<1> QED BY <1>5, <1>6

LEMMA OthersStep == ASSUME VdinInv, OthersUsePath PROVE VdinInv'
<1>1. /\ UNCHANGED <<vdin, shown>> /\ vdinDoubt' = vdinDoubt \cup {"path"}
      /\ vfm' = [vfm EXCEPT !["default"] = "partial"]
  BY DEF OthersUsePath
<1>2. PathKept'
  BY <1>1 DEF VdinInv, PathKept, DtvFindsPath
<1>3. SnowKept' /\ SignalKept'
  BY <1>1 DEF VdinInv, SnowKept, SignalKept, DecodesTheSignal
<1> QED BY <1>1, <1>2, <1>3 DEF VdinInv, VdinTypes

LEMMA VdinNextInv == VdinInv /\ [VdinNext]_vdinVars => VdinInv'
<1>1. VdinInv /\ UNCHANGED vdinVars => VdinInv'
  <2> SUFFICES ASSUME VdinInv, UNCHANGED vdinVars PROVE VdinInv'
    OBVIOUS
  <2>1. UNCHANGED <<vdin, vfm, shown, vdinDoubt>>
    BY DEF vdinVars
  <2> QED BY <2>1 DEF VdinInv, VdinTypes, PathKept, SnowKept, SignalKept, DtvFindsPath, DecodesTheSignal
<1> QED BY <1>1, SwitchVdinStep, VdinSignalStep, ScanVdinStep, ScannerTurnsStep, StopScanVdinStep,
           SetFrontEndStep, StopTvStep, OthersStep DEF VdinNext

(* What the vdin driver does is what the source and the signal ask for, for every set of formats  *)
(* and every order of switches, scans, stops and signals: on digital TV the decoder's path is     *)
(* whole, snow is shown on analogue TV only, and a decoder does not go on with the format of a    *)
(* signal before, but where the driver refused, the code does not look, or another process came  *)
(* between, as VdinFollows names it (CTv::SetSourceSwitchInputLocked, onVdinSignalChange, CTvin). *)
THEOREM VdinDoesAsAsked == VdinSpec => []VdinFollows
<1>1. VdinInv => VdinFollows
  <2> SUFFICES ASSUME VdinInv PROVE VdinFollows
    OBVIOUS
  <2>1. SnowStaysOnAnalog
    BY DEF VdinInv, VdinTypes, SnowKept, SnowStaysOnAnalog
  <2> QED BY <2>1 DEF VdinInv, PathKept, SignalKept, VdinFollows
<1> QED BY <1>1, VdinInitInv, VdinNextInv, PTL DEF VdinSpec

(***************************************************************************)
(* The analogue standard.                                                  *)
(***************************************************************************)
(* The pairs of numbers that have bits. *)
Coded(v, a) == (v \in {"PAL", "NTSC"} /\ a \in {"DK", "I", "BG", "M"}) \/ (v = "SECAM" /\ a \in AudioStds)

LEMMA CodedIs ==
  \A v \in VideoStds, a \in AudioStds : <<v, a>> \notin Uncoded <=> Coded(v, a)
  BY DEF Coded, VideoStds, AudioStds, Uncoded

LEMMA UncodedIs == \A v, a : Coded(v, a) => <<v, a>> \notin Uncoded
  BY DEF Coded, AudioStds, Uncoded

LEMMA EncodedIs ==
  ASSUME NEW v, NEW a, Coded(v, a)
  PROVE  LET e == EnumToStdAndColor(v, a) IN
         /\ e.colour = {v}
         /\ a = "DK" => e.bits = IF v = "SECAM" THEN SecamDK ELSE PalDK
         /\ a = "I" => e.bits = {"PAL_I"}
         /\ a = "BG" => e.bits = IF v = "SECAM" THEN {"SECAM_B", "SECAM_G"} ELSE PalBG
         /\ a = "M" => e.bits = IF v = "PAL" THEN {"PAL_M"} ELSE {"NTSC_M"}
         /\ a = "L" => e.bits = {"SECAM_L"}
<1> DEFINE e == EnumToStdAndColor(v, a)
<1>1. v \in {"PAL", "NTSC", "SECAM"} /\ a \in AudioStds /\ <<v, a>> \notin Uncoded
  BY UncodedIs DEF Coded, AudioStds
<1>2. e.colour = {v} \ {"AUTO"}
  BY DEF EnumToStdAndColor
<1>3. e.colour = {v}
  BY <1>1, <1>2
<1>4. e.bits =
        CASE a = "DK" -> IF v = "SECAM" THEN SecamDK ELSE PalDK
          [] a = "I"  -> {"PAL_I"}
          [] a = "BG" -> IF v = "SECAM" THEN {"SECAM_B", "SECAM_G"} ELSE PalBG
          [] a = "M"  -> IF v = "PAL" THEN {"PAL_M"} ELSE {"NTSC_M"}
          [] a = "L"  -> {"SECAM_L"}
  BY <1>1 DEF EnumToStdAndColor
<1> HIDE DEF e
<1> QED BY <1>3, <1>4 DEF e

LEMMA VideoBack ==
  ASSUME NEW std, NEW v \in {"PAL", "NTSC", "SECAM"}, std.colour = {v}
  PROVE  StdAndColorToVideoEnum(std) = v
<1>1. CASE v = "PAL"
  BY <1>1 DEF StdAndColorToVideoEnum
<1>2. CASE v = "NTSC"
  BY <1>2 DEF StdAndColorToVideoEnum
<1>3. CASE v = "SECAM"
  BY <1>3 DEF StdAndColorToVideoEnum
<1> QED BY <1>1, <1>2, <1>3

LEMMA AudioBack ==
  ASSUME NEW std
  PROVE  /\ std.bits \in {PalDK, SecamDK} => StdAndColorToAudioEnum(std) = "DK"
         /\ std.bits = {"PAL_I"} => StdAndColorToAudioEnum(std) = "I"
         /\ std.bits \in {PalBG, {"SECAM_B", "SECAM_G"}} => StdAndColorToAudioEnum(std) = "BG"
         /\ std.bits \in {{"PAL_M"}, {"NTSC_M"}} => StdAndColorToAudioEnum(std) = "M"
         /\ std.bits = {"SECAM_L"} => StdAndColorToAudioEnum(std) = "L"
         /\ std.bits \in {{"NTSC_443"}, {"PAL_60"}} => StdAndColorToAudioEnum(std) = "DK"
<1> DEFINE b == std.bits
           isDK == PalDK \subseteq b \/ SecamDK \subseteq b
           isI == "PAL_I" \in b
           isBG == PalBG \subseteq b \/ "SECAM_B" \in b \/ "SECAM_G" \in b
           isM == "PAL_M" \in b \/ "NTSC_M" \in b
           isL == "SECAM_L" \in b
<1>1. StdAndColorToAudioEnum(std) =
        CASE isDK -> "DK" [] isI -> "I" [] isBG -> "BG" [] isM -> "M" [] isL -> "L" [] OTHER -> "DK"
  BY DEF StdAndColorToAudioEnum
<1>2. b = PalDK => isDK /\ ~isI /\ ~isBG /\ ~isM /\ ~isL
  BY DEF PalDK, PalBG, SecamDK
<1>3. b = SecamDK => isDK /\ ~isI /\ ~isBG /\ ~isM /\ ~isL
  BY DEF PalDK, PalBG, SecamDK
<1>4. b = {"PAL_I"} => ~isDK /\ isI /\ ~isBG /\ ~isM /\ ~isL
  BY DEF PalDK, PalBG, SecamDK
<1>5. b = PalBG => ~isDK /\ ~isI /\ isBG /\ ~isM /\ ~isL
  BY DEF PalDK, PalBG, SecamDK
<1>6. b = {"SECAM_B", "SECAM_G"} => ~isDK /\ ~isI /\ isBG /\ ~isM /\ ~isL
  BY DEF PalDK, PalBG, SecamDK
<1>7. b \in {{"PAL_M"}, {"NTSC_M"}} => ~isDK /\ ~isI /\ ~isBG /\ isM /\ ~isL
  BY DEF PalDK, PalBG, SecamDK
<1>8. b = {"SECAM_L"} => ~isDK /\ ~isI /\ ~isBG /\ ~isM /\ isL
  BY DEF PalDK, PalBG, SecamDK
<1>9. b \in {{"NTSC_443"}, {"PAL_60"}} => ~isDK /\ ~isI /\ ~isBG /\ ~isM /\ ~isL
  BY DEF PalDK, PalBG, SecamDK
<1> HIDE DEF isDK, isI, isBG, isM, isL
<1> QED BY <1>1, <1>2, <1>3, <1>4, <1>5, <1>6, <1>7, <1>8, <1>9

LEMMA RoundTrip ==
  ASSUME NEW v, NEW a, Coded(v, a)
  PROVE  /\ StdAndColorToVideoEnum(EnumToStdAndColor(v, a)) = v
         /\ StdAndColorToAudioEnum(EnumToStdAndColor(v, a)) = a
<1> DEFINE e == EnumToStdAndColor(v, a)
<1>1. v \in {"PAL", "NTSC", "SECAM"} /\ a \in {"DK", "I", "BG", "M", "L"}
  BY DEF Coded, AudioStds
<1>2. /\ e.colour = {v}
      /\ a = "DK" => e.bits \in {PalDK, SecamDK}
      /\ a = "I" => e.bits = {"PAL_I"}
      /\ a = "BG" => e.bits \in {PalBG, {"SECAM_B", "SECAM_G"}}
      /\ a = "M" => e.bits \in {{"PAL_M"}, {"NTSC_M"}}
      /\ a = "L" => e.bits = {"SECAM_L"}
  BY EncodedIs
<1> HIDE DEF e
<1>3. StdAndColorToVideoEnum(e) = v
  BY <1>1, <1>2, VideoBack
<1>4. StdAndColorToAudioEnum(e) = a
  BY <1>1, <1>2, AudioBack
<1> QED BY <1>3, <1>4 DEF e

LEMMA CvbsColour ==
  ASSUME NEW std, StdEnumToCvbsFmt(std) # "NULL"
  PROVE  \E v \in {"PAL", "NTSC", "SECAM"} :
           std.colour = {v} /\ ColourOfFmt(StdEnumToCvbsFmt(std)) = v
<1> DEFINE fmt == StdEnumToCvbsFmt(std)
<1>1. CASE std.colour = {"NTSC"}
  <2>1. fmt \in {"NTSC_M", "NTSC_443"}
    BY <1>1 DEF StdEnumToCvbsFmt
  <2> QED BY <1>1, <2>1 DEF ColourOfFmt
<1>2. CASE std.colour = {"PAL"}
  <2>1. fmt = CASE std.bits = {"PAL_M"} -> "PAL_M" [] std.bits = {"PAL_60"} -> "PAL_60"
                [] std.bits = {"PAL_Nc"} -> "PAL_CN" [] OTHER -> "PAL_I"
    BY <1>2 DEF StdEnumToCvbsFmt
  <2>2. fmt \in {"PAL_I", "PAL_M", "PAL_60", "PAL_CN"}
    BY <2>1
  <2> QED BY <1>2, <2>2 DEF ColourOfFmt
<1>3. CASE std.colour = {"SECAM"}
  <2>1. fmt = "SECAM"
    BY <1>3 DEF StdEnumToCvbsFmt
  <2> QED BY <1>3, <2>1 DEF ColourOfFmt
<1>4. CASE std.colour \notin {{"NTSC"}, {"PAL"}, {"SECAM"}}
  BY <1>4 DEF StdEnumToCvbsFmt
<1> QED BY <1>1, <1>2, <1>3, <1>4

(* A station whose numbers have bits: those of the standard that was heard, if it has a code, and *)
(* of the colour system of the decoder's format.                                                  *)
GoodStation(s) ==
  /\ s = [freq |-> s.freq, video |-> s.video, audio |-> s.audio, vfmt |-> s.vfmt]
  /\ Coded(s.video, s.audio)
  /\ \A v, a : Coded(v, a) /\ s.vfmt = EnumToStdAndColor(v, a) =>
       EnumToStdAndColor(s.video, s.audio) = s.vfmt
  /\ StdEnumToCvbsFmt(s.vfmt) # "NULL" => s.video = ColourOfFmt(StdEnumToCvbsFmt(s.vfmt))

LEMMA HeardIs ==
  ASSUME NEW std \in Heard
  PROVE  Coded(StdAndColorToVideoEnum(std), StdAndColorToAudioEnum(std))
<1>1. CASE \E p \in VideoStds \X AudioStds \ Uncoded : std = EnumToStdAndColor(p[1], p[2])
  <2>1. PICK p \in VideoStds \X AudioStds \ Uncoded : std = EnumToStdAndColor(p[1], p[2])
    BY <1>1
  <2>2. p[1] \in VideoStds /\ p[2] \in AudioStds /\ <<p[1], p[2]>> \notin Uncoded
    BY <2>1
  <2>3. Coded(p[1], p[2])
    BY <2>2, CodedIs
  <2> QED BY <2>1, <2>3, RoundTrip
<1>2. CASE std = [colour |-> {"NTSC"}, bits |-> {"NTSC_443"}]
  <2>1. std.colour = {"NTSC"} /\ std.bits = {"NTSC_443"}
    BY <1>2
  <2> QED BY <2>1, VideoBack, AudioBack DEF Coded
<1>3. CASE std = [colour |-> {"PAL"}, bits |-> {"PAL_60"}]
  <2>1. std.colour = {"PAL"} /\ std.bits = {"PAL_60"}
    BY <1>3
  <2> QED BY <2>1, VideoBack, AudioBack DEF Coded
<1>4. CASE std = [colour |-> {"PAL", "AUTO"}, bits |-> PalDK]
  <2>1. std.colour = {"PAL", "AUTO"} /\ std.bits = PalDK
    BY <1>4
  <2>2. StdAndColorToVideoEnum(std) = "PAL"
    BY <2>1 DEF StdAndColorToVideoEnum
  <2>3. StdAndColorToAudioEnum(std) = "DK"
    BY <2>1, AudioBack
  <2> QED BY <2>2, <2>3 DEF Coded
<1> QED BY <1>1, <1>2, <1>3, <1>4 DEF Heard

LEMMA StationIsGood == ASSUME NEW f, NEW std \in Heard PROVE GoodStation(Station(f, std))
<1> DEFINE s == Station(f, std)
<1>1. /\ s.video = StdAndColorToVideoEnum(std) /\ s.audio = StdAndColorToAudioEnum(std) /\ s.vfmt = std
      /\ s = [freq |-> s.freq, video |-> s.video, audio |-> s.audio, vfmt |-> s.vfmt]
  BY DEF Station
<1> HIDE DEF s
<1>2. Coded(s.video, s.audio)
  BY <1>1, HeardIs
<1>3. ASSUME NEW v, NEW a, Coded(v, a), s.vfmt = EnumToStdAndColor(v, a)
      PROVE  EnumToStdAndColor(s.video, s.audio) = s.vfmt
  <2>1. s.video = v /\ s.audio = a
    BY <1>1, <1>3, RoundTrip
  <2> QED BY <1>3, <2>1
<1>4. ASSUME StdEnumToCvbsFmt(s.vfmt) # "NULL" PROVE s.video = ColourOfFmt(StdEnumToCvbsFmt(s.vfmt))
  <2>1. PICK v \in {"PAL", "NTSC", "SECAM"} :
          std.colour = {v} /\ ColourOfFmt(StdEnumToCvbsFmt(std)) = v
    BY <1>1, <1>4, CvbsColour
  <2> QED BY <1>1, <2>1, VideoBack
<1> QED BY <1>1, <1>2, <1>3, <1>4 DEF GoodStation, s

(* convertParas gives a good station's numbers back. *)
LEMMA ConvertIs == ASSUME NEW s, GoodStation(s) PROVE ConvertAtv(s) = Paras(s, FALSE)
<1> DEFINE std == EnumToStdAndColor(s.video, s.audio)
           v == StdAndColorToVideoEnum(std)
           a == StdAndColorToAudioEnum(std)
<1>1. v = s.video /\ a = s.audio
  BY RoundTrip DEF GoodStation
<1>2. ConvertAtv(s) = Paras([s EXCEPT !.video = v, !.audio = a], FALSE)
  BY DEF ConvertAtv
<1> HIDE DEF std, v, a
<1>3. [s EXCEPT !.video = v, !.audio = a] = s
  <2>1. [s EXCEPT !.video = s.video, !.audio = s.audio] = s
    BY DEF GoodStation
  <2> QED BY <1>1, <2>1
<1> QED BY <1>2, <1>3

-----------------------------------------------------------------------------
AtvTypes ==
  /\ tuner = [freq |-> tuner.freq, std |-> tuner.std, afc |-> tuner.afc, fine |-> tuner.fine]
  /\ cached = [paras |-> cached.paras, fine |-> cached.fine]
  /\ wish.asked \in BOOLEAN
  /\ \A s \in stations : GoodStation(s)

TunedTo(s) == tuner.freq = s.freq /\ tuner.std = EnumToStdAndColor(s.video, s.audio)

AtvInv ==
  /\ AtvTypes
  /\ wish.asked = TRUE => GoodStation(wish.station) /\ cvbs = StdEnumToCvbsFmt(wish.station.vfmt)
  /\ "failed" \notin atvDoubt =>
       /\ \A s, afc : cached.paras = Paras(s, afc) => TunedTo(s)
       /\ wish.asked = TRUE => TunedTo(wish.station)

LEMMA DigitalIsNone == \A s, afc : NotAnalog # Paras(s, afc)
  BY DEF NotAnalog, Paras

LEMMA AtvInitInv == AtvInit => AtvInv /\ FineFollows
<1> SUFFICES ASSUME AtvInit PROVE AtvInv /\ FineFollows
  OBVIOUS
<1>1. AtvTypes /\ wish.asked = FALSE /\ cached.paras = NotAnalog
  BY DEF AtvInit, AtvTypes, NotTunedAtv
<1> QED BY <1>1, DigitalIsNone DEF AtvInv, FineFollows

(* A channel is tuned: what setPara and fineTune leave. *)
SetFields(r) ==
  /\ r = [cached |-> r.cached, tuner |-> r.tuner, skipped |-> r.skipped]
  /\ r.cached = [paras |-> r.cached.paras, fine |-> r.cached.fine]
  /\ r.tuner = [freq |-> r.tuner.freq, std |-> r.tuner.std, afc |-> r.tuner.afc, fine |-> r.tuner.fine]
  /\ r.skipped \in BOOLEAN

LEMMA SetIs ==
  ASSUME AtvInv, NEW s, NEW afc, NEW force \in BOOLEAN, NEW ok \in BOOLEAN
  PROVE  LET r == SetAtvPara(Paras(s, afc), force, ok) IN
         /\ SetFields(r) /\ r.cached.paras = Paras(s, afc)
         /\ r.skipped = TRUE => force = FALSE /\ r.cached = cached /\ r.tuner = tuner
         /\ r.skipped = FALSE /\ ok = TRUE =>
              r.tuner.freq = s.freq /\ r.tuner.std = EnumToStdAndColor(s.video, s.audio) /\ r.tuner.fine = 0
<1> DEFINE p == Paras(s, afc)
           r == SetAtvPara(p, force, ok)
<1>1. p.station = s
  BY DEF Paras
<1>2. cached = [paras |-> cached.paras, fine |-> cached.fine]
      /\ tuner = [freq |-> tuner.freq, std |-> tuner.std, afc |-> tuner.afc, fine |-> tuner.fine]
  BY DEF AtvInv, AtvTypes
<1>3. CASE p = cached.paras /\ ~force
  <2>1. r = [cached |-> cached, tuner |-> tuner, skipped |-> TRUE]
    BY <1>3 DEF SetAtvPara
  <2> HIDE DEF r, p
  <2>2. r.cached = cached /\ r.tuner = tuner /\ r.skipped = TRUE /\ force = FALSE
    BY <1>3, <2>1
  <2> QED BY <1>2, <1>3, <2>1, <2>2 DEF SetFields, r, p
<1>4. CASE ~(p = cached.paras /\ ~force)
  <2> DEFINE c == [cached EXCEPT !.paras = p]
             t == IF ok THEN [freq |-> p.station.freq, afc |-> p.afc, fine |-> 0,
                              std |-> EnumToStdAndColor(p.station.video, p.station.audio)]
                  ELSE NotTunedAtv
  <2>1. r = [cached |-> c, skipped |-> FALSE, tuner |-> t]
    BY <1>4 DEF SetAtvPara
  <2> HIDE DEF r, p
  <2>2. c = [paras |-> c.paras, fine |-> c.fine] /\ c.paras = p
    BY <1>2
  <2>3. /\ t = [freq |-> t.freq, std |-> t.std, afc |-> t.afc, fine |-> t.fine]
        /\ ok = TRUE => t.freq = s.freq /\ t.std = EnumToStdAndColor(s.video, s.audio) /\ t.fine = 0
    BY <1>1 DEF NotTunedAtv
  <2> HIDE DEF c, t
  <2>4. r.cached = c /\ r.tuner = t /\ r.skipped = FALSE
    BY <2>1
  <2>5. SetFields(r)
    BY <2>1, <2>2, <2>3, <2>4 DEF SetFields
  <2> QED BY <2>2, <2>3, <2>4, <2>5 DEF r, p
<1> QED BY <1>3, <1>4

Fined(f, r, khz, force, ok) ==
  /\ SetFields(f) /\ f.cached.paras = r.cached.paras
  /\ f.tuner.freq = r.tuner.freq /\ f.tuner.std = r.tuner.std
  /\ \/ ok = TRUE /\ f.tuner.fine = khz
     \/ ok = FALSE
     \/ force = FALSE /\ f.skipped = TRUE
     \/ force = FALSE /\ f.skipped = FALSE /\ khz = 0 /\ r.skipped = FALSE /\ f.tuner = r.tuner

LEMMA FineIs ==
  ASSUME NEW r, SetFields(r), NEW khz \in Int, NEW force \in BOOLEAN, NEW ok \in BOOLEAN,
         NEW f, f = FineTune(r, khz, force, ok)
  PROVE  Fined(f, r, khz, force, ok)
<1>1. CASE r.cached.fine = khz /\ ~force
  <2> DEFINE b == r.skipped \/ khz # 0
  <2>1. f = [r EXCEPT !.skipped = b]
    BY <1>1 DEF FineTune
  <2>2. b \in BOOLEAN /\ (b = FALSE => r.skipped = FALSE /\ khz = 0)
    BY DEF SetFields
  <2> HIDE DEF b
  <2>3. /\ f = [cached |-> f.cached, tuner |-> f.tuner, skipped |-> f.skipped]
        /\ f.cached = r.cached /\ f.tuner = r.tuner /\ f.skipped = b
    BY <2>1 DEF SetFields
  <2>4. SetFields(f)
    BY <2>2, <2>3 DEF SetFields
  <2>5. b = TRUE \/ b = FALSE
    BY <2>2
  <2> QED BY <1>1, <2>2, <2>3, <2>4, <2>5 DEF Fined
<1>2. CASE ~(r.cached.fine = khz /\ ~force)
  <2> DEFINE x == IF ok THEN khz ELSE r.tuner.fine
             c == [r.cached EXCEPT !.fine = khz]
             t == [r.tuner EXCEPT !.fine = x]
  <2>1. f = [cached |-> c, tuner |-> t, skipped |-> FALSE]
    <3>1. f = [r EXCEPT !.cached.fine = khz, !.tuner.fine = IF ok THEN khz ELSE @, !.skipped = FALSE]
      BY <1>2 DEF FineTune
    <3> QED BY <3>1 DEF SetFields
  <2>2. c = [paras |-> c.paras, fine |-> c.fine] /\ c.paras = r.cached.paras
    BY DEF SetFields
  <2> HIDE DEF x
  <2>3. /\ t = [freq |-> t.freq, std |-> t.std, afc |-> t.afc, fine |-> t.fine]
        /\ t.freq = r.tuner.freq /\ t.std = r.tuner.std /\ t.fine = x
    BY DEF SetFields
  <2> HIDE DEF c, t
  <2>4. f.cached = c /\ f.tuner = t /\ f.skipped = FALSE
    BY <2>1
  <2>5. SetFields(f)
    BY <2>1, <2>2, <2>3, <2>4 DEF SetFields
  <2>6. ok = FALSE \/ (ok = TRUE /\ f.tuner.fine = khz)
    BY <2>3, <2>4 DEF x
  <2> QED BY <2>2, <2>3, <2>4, <2>5, <2>6 DEF Fined
<1> QED BY <1>1, <1>2

LEMMA KHzIs == \A hz \in Int : KHz(hz) \in Int /\ (hz = 0 => KHz(hz) = 0)
  BY DEF KHz

LEMMA TuneStep ==
  ASSUME AtvInv, NEW s \in stations, NEW afc, NEW hz \in Int, NEW force \in BOOLEAN, NEW ok \in AtvTunes,
         Tune(s, Paras(s, afc), hz, force, ok)
  PROVE  AtvInv' /\ FineFollows'
<1> DEFINE was == SetAtvPara(Paras(s, afc), force, ok.tune)
           khz == KHz(hz)
           fine == FineTune(was, khz, force, ok.fine)
           done == IF hz = 0 THEN was ELSE fine
           kept == IF was.skipped THEN atvDoubt \cap {"failed"} ELSE {}
           new == {d \in {"skipped", "failed"} :
                     IF d = "skipped" THEN done.skipped ELSE ~(ok.tune /\ ok.fine)}
<1>1. /\ cvbs' = StdEnumToCvbsFmt(s.vfmt) /\ cached' = done.cached /\ tuner' = done.tuner
      /\ wish' = [asked |-> TRUE, station |-> s, khz |-> khz, force |-> force]
      /\ atvDoubt' = kept \cup new /\ UNCHANGED stations
  BY DEF Tune
<1>2. ok.tune \in BOOLEAN /\ ok.fine \in BOOLEAN /\ khz \in Int /\ (hz = 0 => khz = 0) /\ GoodStation(s)
  BY KHzIs DEF AtvTunes, AtvInv, AtvTypes
<1>3. /\ SetFields(was) /\ was.cached.paras = Paras(s, afc)
      /\ was.skipped = TRUE => force = FALSE /\ was.cached = cached /\ was.tuner = tuner
      /\ was.skipped = FALSE /\ ok.tune = TRUE =>
           /\ was.tuner.freq = s.freq /\ was.tuner.std = EnumToStdAndColor(s.video, s.audio)
           /\ was.tuner.fine = 0
  BY <1>2, SetIs
<1> HIDE DEF was, khz
<1>4. /\ SetFields(fine) /\ fine.cached.paras = was.cached.paras
      /\ fine.tuner.freq = was.tuner.freq /\ fine.tuner.std = was.tuner.std
      /\ \/ ok.fine = TRUE /\ fine.tuner.fine = khz
         \/ ok.fine = FALSE
         \/ force = FALSE /\ fine.skipped = TRUE
         \/ /\ force = FALSE /\ fine.skipped = FALSE /\ khz = 0 /\ was.skipped = FALSE
            /\ fine.tuner = was.tuner
  <2> DEFINE y == ok.fine
  <2>1. y \in BOOLEAN /\ khz \in Int /\ SetFields(was) /\ force \in BOOLEAN
    BY <1>2, <1>3
  <2>2. fine = FineTune(was, khz, force, y)
    OBVIOUS
  <2> HIDE DEF fine
  <2> HIDE DEF y
  <2>3. Fined(fine, was, khz, force, y)
    BY <2>1, <2>2, FineIs
  <2> QED BY <2>3 DEF y, Fined
<1> HIDE DEF fine
<1>5. /\ SetFields(done) /\ done.cached.paras = Paras(s, afc)
      /\ done.tuner.freq = was.tuner.freq /\ done.tuner.std = was.tuner.std
  BY <1>3, <1>4
<1>6. ASSUME "failed" \notin atvDoubt' PROVE ok.tune = TRUE /\ ok.fine = TRUE
  <2>1. "failed" \notin new
    BY <1>1, <1>6
  <2>2. ok.tune /\ ok.fine
    BY <2>1
  <2> QED BY <1>2, <2>2
<1>7. ASSUME "failed" \notin atvDoubt', was.skipped = TRUE PROVE "failed" \notin atvDoubt
  BY <1>1, <1>7
<1>8. ASSUME "failed" \notin atvDoubt'
      PROVE  tuner'.freq = s.freq /\ tuner'.std = EnumToStdAndColor(s.video, s.audio)
  <2>1. CASE was.skipped = TRUE
    <3>1. cached.paras = Paras(s, afc)
      BY <1>3, <2>1
    <3>2. TunedTo(s)
      BY <1>7, <1>8, <2>1, <3>1 DEF AtvInv
    <3> QED BY <1>1, <1>3, <1>5, <2>1, <3>2 DEF TunedTo
  <2>2. CASE was.skipped = FALSE
    BY <1>1, <1>3, <1>5, <1>6, <1>8, <2>2
  <2> QED BY <1>3, <2>1, <2>2 DEF SetFields
<1>9. "skipped" \in atvDoubt' <=> done.skipped
  BY <1>1
<1>10. ASSUME "failed" \notin atvDoubt', force = TRUE \/ "skipped" \notin atvDoubt'
       PROVE  tuner'.fine = khz
  <2>1. ok.tune = TRUE /\ ok.fine = TRUE
    BY <1>6, <1>10
  <2>2. done.skipped = TRUE => force = TRUE
    BY <1>9, <1>10
  <2> HIDE DEF kept, new
  <2>3. CASE hz = 0
    <3>1. done = was
      BY <2>3
    <3>2. was.skipped = FALSE
      BY <1>3, <2>2, <3>1 DEF SetFields
    <3> QED BY <1>1, <1>2, <1>3, <2>1, <2>3, <3>1, <3>2
  <2>4. CASE hz # 0
    <3>1. done = fine
      BY <2>4
    <3>2. fine.skipped = TRUE => force = TRUE
      BY <2>2, <3>1
    <3>3. fine.tuner.fine = khz
      BY <1>3, <1>4, <2>1, <3>2
    <3> QED BY <1>1, <3>1, <3>3
  <2> QED BY <2>3, <2>4
<1>11. wish'.asked = TRUE /\ wish'.station = s /\ wish'.khz = khz /\ wish'.force = force
  BY <1>1
<1>12. cached' = done.cached /\ tuner' = done.tuner /\ cvbs' = StdEnumToCvbsFmt(s.vfmt) /\ stations' = stations
  BY <1>1
<1> HIDE DEF done, kept, new
<1>13. AtvTypes'
  BY <1>5, <1>11, <1>12 DEF AtvTypes, SetFields, AtvInv
<1>14. AtvInv'
  <2>1. ASSUME "failed" \notin atvDoubt', NEW u, NEW f, cached'.paras = Paras(u, f) PROVE TunedTo(u)'
    <3>1. Paras(u, f) = Paras(s, afc)
      BY <1>5, <1>12, <2>1
    <3>2. u = s
      BY <3>1 DEF Paras
    <3> QED BY <1>8, <2>1, <3>2 DEF TunedTo
  <2>2. "failed" \notin atvDoubt' => TunedTo(wish.station)'
    BY <1>8, <1>11 DEF TunedTo
  <2> QED BY <1>2, <1>11, <1>12, <1>13, <2>1, <2>2 DEF AtvInv
<1>15. FineFollows'
  BY <1>10, <1>11 DEF FineFollows
<1> QED BY <1>14, <1>15

LEMMA AtvNextInv == AtvInv /\ FineFollows /\ [AtvNext]_atvVars => AtvInv' /\ FineFollows'
<1> SUFFICES ASSUME AtvInv, FineFollows, [AtvNext]_atvVars PROVE AtvInv' /\ FineFollows'
  OBVIOUS
<1>0. ASSUME wish'.asked = FALSE, tuner' = NotTunedAtv, cached' = [cached EXCEPT !.paras = NotAnalog],
             \A s \in stations' : GoodStation(s)
      PROVE  AtvInv' /\ FineFollows'
  <2>1. cached'.paras = NotAnalog /\ cached' = [paras |-> cached'.paras, fine |-> cached'.fine]
    BY <1>0 DEF AtvInv, AtvTypes
  <2>2. AtvTypes'
    BY <1>0, <2>1 DEF AtvTypes, NotTunedAtv
  <2> QED BY <1>0, <2>1, <2>2, DigitalIsNone DEF AtvInv, FineFollows
<1>1. CASE LeaveAnalog
  BY <1>0, <1>1 DEF LeaveAnalog, AtvInv, AtvTypes
<1>2. CASE FindStation
  <2>1. PICK f \in AtvFreqs, std \in Heard : stations' = {Station(f, std)}
    BY <1>2 DEF FindStation
  <2>2. \A s \in stations' : GoodStation(s)
    BY <2>1, StationIsGood
  <2> QED BY <1>0, <1>2, <2>2 DEF FindStation
<1>3. ASSUME NEW s \in stations, NEW hz \in Int, NEW ok \in AtvTunes, Tune(s, ConvertAtv(s), hz, FALSE, ok)
      PROVE  AtvInv' /\ FineFollows'
  <2>1. GoodStation(s)
    BY DEF AtvInv, AtvTypes
  <2>2. Tune(s, Paras(s, FALSE), hz, FALSE, ok)
    BY <1>3, <2>1, ConvertIs
  <2> QED BY <2>2, TuneStep
<1>4. CASE PlayAtv
  <2>1. PICK s \in stations, ok \in AtvTunes : Tune(s, ConvertAtv(s), 0, FALSE, ok)
    BY <1>4 DEF PlayAtv
  <2> DEFINE hz == 0
  <2>2. hz \in Int
    OBVIOUS
  <2>3. Tune(s, ConvertAtv(s), hz, FALSE, ok)
    BY <2>1, Zenon
  <2> HIDE DEF hz
  <2> QED BY <1>3, <2>1, <2>2, <2>3
<1>5. CASE ResetFrontEndPara
  BY <1>3, <1>5, AtvAssumption DEF ResetFrontEndPara, AtvAssumption
<1>6. CASE SetAtvFrontEnd
  BY <1>6, TuneStep, AtvAssumption DEF SetAtvFrontEnd, AtvAssumption
<1>7. CASE UNCHANGED atvVars
  BY <1>7 DEF atvVars, AtvInv, AtvTypes, TunedTo, FineFollows
<1> QED BY <1>1, <1>2, <1>4, <1>5, <1>6, <1>7 DEF AtvNext

LEMMA StandardOfInv == AtvInv => StandardSurvives
<1> SUFFICES ASSUME AtvInv, wish.asked, "failed" \notin atvDoubt
             PROVE  /\ tuner.freq = wish.station.freq
                    /\ wish.station.vfmt \in {EnumToStdAndColor(p[1], p[2]) :
                                                p \in VideoStds \X AudioStds \ Uncoded} =>
                         tuner.std = wish.station.vfmt
                    /\ cvbs # "NULL" => tuner.std.colour = {ColourOfFmt(cvbs)}
  BY DEF StandardSurvives
<1> DEFINE s == wish.station
<1>1. wish.asked = TRUE
  BY DEF AtvInv, AtvTypes
<1>2. GoodStation(s) /\ cvbs = StdEnumToCvbsFmt(s.vfmt) /\ TunedTo(s)
  BY <1>1 DEF AtvInv
<1> HIDE DEF s
<1>3. ASSUME NEW p \in VideoStds \X AudioStds \ Uncoded, s.vfmt = EnumToStdAndColor(p[1], p[2])
      PROVE  tuner.std = s.vfmt
  <2>1. p[1] \in VideoStds /\ p[2] \in AudioStds /\ <<p[1], p[2]>> \notin Uncoded
    OBVIOUS
  <2>2. Coded(p[1], p[2])
    BY <2>1, CodedIs
  <2> QED BY <1>2, <1>3, <2>2 DEF GoodStation, TunedTo
<1>4. ASSUME cvbs # "NULL" PROVE tuner.std.colour = {ColourOfFmt(cvbs)}
  <2>1. s.video = ColourOfFmt(cvbs) /\ Coded(s.video, s.audio)
    BY <1>2, <1>4 DEF GoodStation
  <2>2. EnumToStdAndColor(s.video, s.audio).colour = {s.video}
    BY <2>1, EncodedIs
  <2> QED BY <1>2, <2>1, <2>2 DEF TunedTo
<1> QED BY <1>2, <1>3, <1>4 DEF TunedTo, s

(* For every set of frequencies and offsets and every order of scans, tunings, skipped and failed *)
(* ones: the tuner has the standard the scan heard, at the channel's frequency, the CVBS decoder  *)
(* a format of its colour system, and the tuner the offset asked for, but in the cases that       *)
(* FineFollows names (CFrontEnd::setPara, fineTune, enumToStdAndColor, convertParas).             *)
THEOREM TunerStandsAsAsked == AtvSpec => []TunedAsAsked
<1>1. AtvInv /\ FineFollows => TunedAsAsked
  BY StandardOfInv DEF TunedAsAsked
<1>2. AtvInv /\ FineFollows /\ [AtvNext]_atvVars => (AtvInv /\ FineFollows)'
  BY AtvNextInv
<1> QED BY <1>1, <1>2, AtvInitInv, PTL DEF AtvSpec

-----------------------------------------------------------------------------
(* Rating tables and alerts (Psip): what a table says.                     *)

\* What is to be looked up of a value.
InfoOf(t, i, d, v) ==
  [region |-> t[i].region, dim |-> d - 1, id |-> v, name |-> t[i].name, dimName |-> t[i].dims[d].name,
   text |-> t[i].dims[d].values[v + 1]]
DimOf(t, i, d) ==
  [region |-> t[i].region, country |-> t[i].name, dim |-> d - 1, name |-> t[i].dims[d].name,
   values |-> t[i].dims[d].values]
IsDim(t, x) == \E i \in 1 .. Len(t) : \E d \in 1 .. Len(t[i].dims) : x = DimOf(t, i, d)
IsInfo(t, x) ==
  \E i \in 1 .. Len(t) : \E d \in 1 .. Len(t[i].dims) : \E v \in 1 .. (Len(t[i].dims[d].values) - 1) : x = InfoOf(t, i, d, v)

LEMMA CarriedLast ==
  ASSUME NEW k \in Nat, NEW texts, DOMAIN texts = 1 .. k, k # 0, texts[k] # NoText
  PROVE  Carried(texts) = texts[k]
<1> DEFINE present == {j \in DOMAIN texts : texts[j] # NoText}
<1>1. k \in present /\ \A j \in present : j <= k
  OBVIOUS
<1>2. \A x \in present : (\A y \in present : x >= y) => x = k
  <2> TAKE x \in present
  <2>1. x \in 1 .. k
    OBVIOUS
  <2> QED BY <1>1, <2>1
<1>3. k \in present /\ \A y \in present : k >= y
  <2>1. \A y \in present : y \in 1 .. k
    OBVIOUS
  <2> QED BY <1>1, <2>1
<1> HIDE DEF present
<1>4. Max(present) = k
  BY <1>2, <1>3 DEF Max
<1>5. present # {}
  BY <1>1
<1> QED BY <1>4, <1>5 DEF Carried, present

\* A table of which nothing is missing.
Whole(t) ==
  /\ Len(t) \in Nat
  /\ \A i \in 1 .. Len(t) :
       /\ t[i].name # NoText /\ t[i].name \in STRING /\ t[i].region \in Int /\ Len(t[i].dims) \in Nat
       /\ \A d \in 1 .. Len(t[i].dims) :
            /\ t[i].dims[d].name # NoText /\ t[i].dims[d].name \in STRING /\ Len(t[i].dims[d].values) \in Nat
            /\ \A v \in 1 .. Len(t[i].dims[d].values) :
                 t[i].dims[d].values[v] # NoText /\ t[i].dims[d].values[v] \in STRING
  /\ \A i, j \in 1 .. Len(t) : i # j => t[i].region # t[j].region /\ t[i].name # t[j].name

LEMMA TableWhole ==
  ASSUME NEW t \in Tables, Complete(t)
  PROVE  Whole(t)
<1> DEFINE D == [name : STRING, values : Seq(STRING)]
           R == [region : Int, name : STRING, dims : Seq(D)]
<1>1. /\ t \in Seq(R)
      /\ \A i, j \in DOMAIN t : i # j => t[i].region # t[j].region /\ (t[i].name # t[j].name \/ t[i].name = NoText)
  BY BroadcastAssumption
<1>2. Len(t) \in Nat /\ DOMAIN t = 1 .. Len(t) /\ \A i \in 1 .. Len(t) : t[i] \in R
  BY <1>1, LenProperties, ElementOfSeq
<1>3. ASSUME NEW i \in 1 .. Len(t)
      PROVE  /\ t[i].name # NoText /\ t[i].name \in STRING /\ t[i].region \in Int /\ Len(t[i].dims) \in Nat
             /\ \A d \in 1 .. Len(t[i].dims) :
                  /\ t[i].dims[d].name # NoText /\ t[i].dims[d].name \in STRING /\ Len(t[i].dims[d].values) \in Nat
                  /\ \A v \in 1 .. Len(t[i].dims[d].values) :
                       t[i].dims[d].values[v] # NoText /\ t[i].dims[d].values[v] \in STRING
  <2>1. t[i].name \in STRING /\ t[i].region \in Int /\ t[i].dims \in Seq(D)
    BY <1>2
  <2> DEFINE ds == t[i].dims
  <2>2. Len(ds) \in Nat /\ DOMAIN ds = 1 .. Len(ds) /\ \A d \in 1 .. Len(ds) : ds[d] \in D
    BY <2>1, LenProperties, ElementOfSeq
  <2>3. t[i].name # NoText
    BY <1>2 DEF Complete
  <2>4. ASSUME NEW d \in 1 .. Len(ds)
        PROVE  /\ ds[d].name # NoText /\ ds[d].name \in STRING /\ Len(ds[d].values) \in Nat
               /\ \A v \in 1 .. Len(ds[d].values) : ds[d].values[v] # NoText /\ ds[d].values[v] \in STRING
    <3> DEFINE vs == ds[d].values
    <3>1. ds[d].name \in STRING /\ vs \in Seq(STRING)
      BY <2>2
    <3>2. Len(vs) \in Nat /\ DOMAIN vs = 1 .. Len(vs) /\ \A v \in 1 .. Len(vs) : vs[v] \in STRING
      BY <3>1, LenProperties, ElementOfSeq
    <3>3. ds[d].name # NoText /\ \A v \in DOMAIN vs : vs[v] # NoText
      BY <1>2, <2>2 DEF Complete
    <3> QED BY <3>1, <3>2, <3>3
  <2> QED BY <2>1, <2>2, <2>3, <2>4
<1>4. \A i, j \in 1 .. Len(t) : i # j => t[i].region # t[j].region /\ t[i].name # t[j].name
  BY <1>1, <1>2, <1>3
<1> QED BY <1>2, <1>3, <1>4 DEF Whole

\* The dimensions of all sections, each with its region's name.
LEMMA DimsOfTable ==
  ASSUME NEW t, Whole(t)
  PROVE  /\ Len(RatingDims(t)) \in Nat
         /\ \A k \in 1 .. Len(RatingDims(t)) : IsDim(t, RatingDims(t)[k])
         /\ \A i \in 1 .. Len(t) : \A d \in 1 .. Len(t[i].dims) : \E k \in 1 .. Len(RatingDims(t)) : RatingDims(t)[k] = DimOf(t, i, d)
<1> DEFINE S == {x \in UNION {{DimOf(t, i, d) : d \in 1 .. Len(t[i].dims)} : i \in 1 .. Len(t)} : TRUE}
           row(i) == [d \in 1 .. Len(t[i].dims) |->
                        [region |-> t[i].region, country |-> Carried([k \in 1 .. i |-> t[k].name]), dim |-> d - 1,
                         name |-> t[i].dims[d].name, values |-> t[i].dims[d].values]]
           ss == [i \in 1 .. Len(t) |-> row(i)]
<1>1. Len(t) \in Nat /\ \A i \in 1 .. Len(t) : Len(t[i].dims) \in Nat /\ t[i].name # NoText
  BY DEF Whole
<1>2. RatingDims(t) = FlattenSeq(ss)
  BY DEF RatingDims
<1>3. ASSUME NEW i \in 1 .. Len(t)
      PROVE  row(i) \in Seq(S) /\ Len(row(i)) = Len(t[i].dims) /\ \A d \in 1 .. Len(t[i].dims) : row(i)[d] = DimOf(t, i, d)
  <2> DEFINE names == [k \in 1 .. i |-> t[k].name]
             n == Len(t[i].dims)
             r == row(i)
  <2>1. Carried(names) = t[i].name
    <3>1. DOMAIN names = 1 .. i /\ i \in Nat /\ i # 0 /\ names[i] = t[i].name
      BY <1>1
    <3>2. names[i] # NoText
      BY <1>1, <3>1
    <3> HIDE DEF names
    <3> QED BY <3>1, <3>2, CarriedLast
  <2> HIDE DEF names
  <2>2. \A d \in 1 .. n : r[d] = DimOf(t, i, d)
    BY <2>1 DEF DimOf, names
  <2>3. \A d \in 1 .. n : DimOf(t, i, d) \in S
    OBVIOUS
  <2>4. DOMAIN r = 1 .. n /\ r = [d \in 1 .. n |-> r[d]]
    OBVIOUS
  <2> HIDE DEF r, S
  <2>5. r \in [1 .. n -> S]
    BY <2>2, <2>3, <2>4
  <2>6. n \in Nat
    BY <1>1
  <2> HIDE DEF n
  <2>7. r \in Seq(S) /\ Len(r) = n
    BY <2>5, <2>6, LenProperties
  <2> QED BY <2>2, <2>7 DEF r, n
<1> HIDE DEF row, S
<1>4. ss \in Seq(Seq(S)) /\ Len(ss) = Len(t) /\ \A i \in 1 .. Len(t) : ss[i] = row(i)
  <2> DEFINE n == Len(t)
  <2>1. ss \in [1 .. n -> Seq(S)] /\ \A i \in 1 .. n : ss[i] = row(i)
    BY <1>3
  <2>2. n \in Nat
    BY <1>1
  <2> HIDE DEF ss, n
  <2>3. ss \in Seq(Seq(S)) /\ Len(ss) = n
    BY <2>1, <2>2, LenProperties
  <2> QED BY <2>1, <2>3 DEF n
<1> HIDE DEF ss
<1> DEFINE F == FlattenSeq(ss)
<1>5. F \in Seq(S) /\ Elements(F) = UNION {Elements(ss[i]) : i \in 1 .. Len(ss)}
  BY <1>4, FlattenHolds
<1> HIDE DEF F
<1>6. Len(F) \in Nat
  BY <1>5, LenProperties
<1>7. ASSUME NEW k \in 1 .. Len(F) PROVE IsDim(t, F[k])
  <2>1. F[k] \in Elements(F)
    BY DEF Elements
  <2>2. PICK i \in 1 .. Len(ss) : F[k] \in Elements(ss[i])
    BY <1>5, <2>1
  <2>3. i \in 1 .. Len(t) /\ F[k] \in Elements(row(i))
    BY <1>4, <2>2
  <2>4. PICK d \in 1 .. Len(row(i)) : F[k] = row(i)[d]
    BY <2>3 DEF Elements
  <2>5. d \in 1 .. Len(t[i].dims) /\ F[k] = DimOf(t, i, d)
    BY <1>3, <2>3, <2>4
  <2> QED BY <2>3, <2>5 DEF IsDim
<1>8. ASSUME NEW i \in 1 .. Len(t), NEW d \in 1 .. Len(t[i].dims)
      PROVE  \E k \in 1 .. Len(F) : F[k] = DimOf(t, i, d)
  <2>1. row(i)[d] = DimOf(t, i, d) /\ d \in 1 .. Len(row(i))
    BY <1>3
  <2>2. DimOf(t, i, d) \in Elements(ss[i])
    BY <1>4, <2>1 DEF Elements
  <2>3. DimOf(t, i, d) \in Elements(F)
    BY <1>4, <1>5, <2>2
  <2> QED BY <2>3 DEF Elements
<1> QED BY <1>2, <1>6, <1>7, <1>8 DEF F

\* A sequence made of a function on its numbers, also of none.
LEMMA Listed ==
  ASSUME NEW n \in Int, n >= -1, NEW S, NEW r, r \in [1 .. n -> S]
  PROVE  r \in Seq(S) /\ Len(r) = IF n = -1 THEN 0 ELSE n
<1>1. CASE n # -1
  <2>1. n \in Nat
    BY <1>1
  <2> QED BY <1>1, <2>1, LenProperties
<1>2. CASE n = -1
  <2>1. 1 .. n = 1 .. 0
    BY <1>2
  <2>2. r \in [1 .. 0 -> S]
    BY <2>1
  <2>3. 0 \in Nat
    OBVIOUS
  <2>4. r \in Seq(S) /\ Len(r) = 0
    BY <2>2, <2>3, LenProperties
  <2> QED BY <1>2, <2>4
<1> QED BY <1>1, <1>2

\* The values of all dimensions, each with its dimension's name.
LEMMA ValuesOfTable ==
  ASSUME NEW t, Whole(t)
  PROVE  LET F == RatingValues(RatingDims(t)) IN
         /\ Len(F) \in Nat
         /\ \A k \in 1 .. Len(F) : IsInfo(t, F[k])
         /\ \A i \in 1 .. Len(t) : \A d \in 1 .. Len(t[i].dims) : \A v \in 1 .. (Len(t[i].dims[d].values) - 1) :
              \E k \in 1 .. Len(F) : F[k] = InfoOf(t, i, d, v)
<1> DEFINE dims == RatingDims(t)
           row(k) == [v \in 1 .. (Len(dims[k].values) - 1) |->
                        [region |-> dims[k].region, dim |-> dims[k].dim, id |-> v, name |-> dims[k].country,
                         dimName |-> Carried([x \in 1 .. k |-> dims[x].name]), text |-> dims[k].values[v + 1]]]
           ss == [k \in 1 .. Len(dims) |-> row(k)]
           S == UNION {{row(k)[v] : v \in 1 .. (Len(dims[k].values) - 1)} : k \in 1 .. Len(dims)}
<1>1. /\ Len(dims) \in Nat /\ \A k \in 1 .. Len(dims) : IsDim(t, dims[k])
      /\ \A i \in 1 .. Len(t) : \A d \in 1 .. Len(t[i].dims) : \E k \in 1 .. Len(dims) : dims[k] = DimOf(t, i, d)
  BY DimsOfTable
<1>2. RatingValues(dims) = FlattenSeq(ss)
  BY DEF RatingValues
<1> HIDE DEF dims
<1>3. ASSUME NEW k \in 1 .. Len(dims), NEW i \in 1 .. Len(t), NEW d \in 1 .. Len(t[i].dims), dims[k] = DimOf(t, i, d)
      PROVE  /\ Len(dims[k].values) \in Nat /\ Len(dims[k].values) = Len(t[i].dims[d].values)
             /\ \A v \in 1 .. (Len(dims[k].values) - 1) : row(k)[v] = InfoOf(t, i, d, v)
  <2> DEFINE names == [x \in 1 .. k |-> dims[x].name]
             n == Len(dims[k].values) - 1
             r == row(k)
  <2>1. /\ dims[k].region = t[i].region /\ dims[k].country = t[i].name /\ dims[k].dim = d - 1
        /\ dims[k].name = t[i].dims[d].name /\ dims[k].values = t[i].dims[d].values
    BY <1>3 DEF DimOf
  <2>2. Carried(names) = t[i].dims[d].name
    <3>1. DOMAIN names = 1 .. k /\ k \in Nat /\ k # 0 /\ names[k] = dims[k].name
      BY <1>1
    <3>2. names[k] # NoText
      BY <2>1, <3>1 DEF Whole
    <3> HIDE DEF names
    <3> QED BY <2>1, <3>1, <3>2, CarriedLast
  <2> HIDE DEF names
  <2>3. \A v \in 1 .. n : r[v] = InfoOf(t, i, d, v)
    BY <2>1, <2>2 DEF InfoOf, names
  <2>4. Len(dims[k].values) \in Nat
    BY <2>1 DEF Whole
  <2> QED BY <2>1, <2>3, <2>4
<1>4. ASSUME NEW k \in 1 .. Len(dims)
      PROVE  \E i \in 1 .. Len(t) : \E d \in 1 .. Len(t[i].dims) : dims[k] = DimOf(t, i, d)
  BY <1>1 DEF IsDim
<1>5. ASSUME NEW k \in 1 .. Len(dims)
      PROVE  row(k) \in Seq(S) /\ Len(row(k)) = IF Len(dims[k].values) = 0 THEN 0 ELSE Len(dims[k].values) - 1
  <2> DEFINE n == Len(dims[k].values) - 1
             r == row(k)
  <2>1. Len(dims[k].values) \in Nat
    BY <1>3, <1>4
  <2>2. \A v \in 1 .. n : r[v] \in S
    <3> HIDE DEF row
    <3> QED OBVIOUS
  <2>3. r = [v \in 1 .. n |-> r[v]]
    OBVIOUS
  <2>4. n \in Int /\ n >= -1 /\ n = Len(dims[k].values) - 1
    BY <2>1
  <2> HIDE DEF r, S, n
  <2>5. r \in [1 .. n -> S]
    BY <2>2, <2>3
  <2>6. r \in Seq(S) /\ Len(r) = IF n = -1 THEN 0 ELSE n
    BY <2>4, <2>5, Listed
  <2>7. Len(r) = IF Len(dims[k].values) = 0 THEN 0 ELSE Len(dims[k].values) - 1
    BY <2>1, <2>4, <2>6
  <2> HIDE DEF row
  <2> QED BY <2>6, <2>7 DEF r
<1> HIDE DEF row, S
<1>6. ss \in Seq(Seq(S)) /\ Len(ss) = Len(dims) /\ \A k \in 1 .. Len(dims) : ss[k] = row(k)
  <2> DEFINE n == Len(dims)
  <2>1. ss \in [1 .. n -> Seq(S)] /\ \A k \in 1 .. n : ss[k] = row(k)
    BY <1>5
  <2>2. n \in Nat
    BY <1>1
  <2> HIDE DEF ss, n
  <2>3. ss \in Seq(Seq(S)) /\ Len(ss) = n
    BY <2>1, <2>2, LenProperties
  <2> QED BY <2>1, <2>3 DEF n
<1> HIDE DEF ss
<1> DEFINE F == FlattenSeq(ss)
<1>7. F \in Seq(S) /\ Elements(F) = UNION {Elements(ss[i]) : i \in 1 .. Len(ss)}
  BY <1>6, FlattenHolds
<1> HIDE DEF F
<1>8. Len(F) \in Nat
  BY <1>7, LenProperties
<1>9. ASSUME NEW j \in 1 .. Len(F) PROVE IsInfo(t, F[j])
  <2>1. F[j] \in Elements(F)
    BY DEF Elements
  <2>2. PICK k \in 1 .. Len(ss) : F[j] \in Elements(ss[k])
    BY <1>7, <2>1
  <2>3. k \in 1 .. Len(dims) /\ F[j] \in Elements(row(k))
    BY <1>6, <2>2
  <2>4. PICK v \in 1 .. Len(row(k)) : F[j] = row(k)[v]
    BY <2>3 DEF Elements
  <2>5. PICK i \in 1 .. Len(t) : \E d \in 1 .. Len(t[i].dims) : dims[k] = DimOf(t, i, d)
    BY <1>4, <2>3
  <2>6. PICK d \in 1 .. Len(t[i].dims) : dims[k] = DimOf(t, i, d)
    BY <2>5
  <2>7. /\ Len(dims[k].values) \in Nat /\ Len(dims[k].values) = Len(t[i].dims[d].values)
        /\ \A x \in 1 .. (Len(dims[k].values) - 1) : row(k)[x] = InfoOf(t, i, d, x)
    BY <1>3, <2>3, <2>6
  <2>7a. Len(row(k)) = IF Len(dims[k].values) = 0 THEN 0 ELSE Len(dims[k].values) - 1
    BY <1>5, <2>3
  <2>8. v \in 1 .. (Len(dims[k].values) - 1)
    BY <2>7, <2>7a
  <2> QED BY <2>4, <2>7, <2>8 DEF IsInfo
<1>10. ASSUME NEW i \in 1 .. Len(t), NEW d \in 1 .. Len(t[i].dims), NEW v \in 1 .. (Len(t[i].dims[d].values) - 1)
       PROVE  \E j \in 1 .. Len(F) : F[j] = InfoOf(t, i, d, v)
  <2>1. PICK k \in 1 .. Len(dims) : dims[k] = DimOf(t, i, d)
    BY <1>1
  <2>2. /\ Len(dims[k].values) \in Nat /\ Len(dims[k].values) = Len(t[i].dims[d].values)
        /\ \A x \in 1 .. (Len(dims[k].values) - 1) : row(k)[x] = InfoOf(t, i, d, x)
    BY <1>3, <2>1
  <2>3. v \in 1 .. (Len(dims[k].values) - 1)
    BY <2>2
  <2>3a. Len(row(k)) = IF Len(dims[k].values) = 0 THEN 0 ELSE Len(dims[k].values) - 1
    BY <1>5
  <2>3b. v \in 1 .. Len(row(k))
    BY <2>2, <2>3, <2>3a
  <2>4. v \in 1 .. Len(row(k)) /\ row(k)[v] = InfoOf(t, i, d, v)
    BY <2>2, <2>3, <2>3b
  <2>5. InfoOf(t, i, d, v) \in Elements(ss[k])
    BY <1>6, <2>4 DEF Elements
  <2>6. InfoOf(t, i, d, v) \in Elements(F)
    BY <1>6, <1>7, <2>5
  <2> QED BY <2>6 DEF Elements
<1> QED BY <1>2, <1>8, <1>9, <1>10 DEF F, dims

Infos == [region : Int, dim : Int, id : Int, name : STRING, dimName : STRING, text : STRING]

LEMMA InfoTyped ==
  ASSUME NEW t, Whole(t), NEW x, IsInfo(t, x)
  PROVE  x \in Infos /\ x.text # NoText
<1>1. PICK i \in 1 .. Len(t) :
        \E d \in 1 .. Len(t[i].dims) : \E v \in 1 .. (Len(t[i].dims[d].values) - 1) : x = InfoOf(t, i, d, v)
  BY DEF IsInfo
<1>2. PICK d \in 1 .. Len(t[i].dims) : \E v \in 1 .. (Len(t[i].dims[d].values) - 1) : x = InfoOf(t, i, d, v)
  BY <1>1
<1>3. PICK v \in 1 .. (Len(t[i].dims[d].values) - 1) : x = InfoOf(t, i, d, v)
  BY <1>2
<1>4a. t[i].region \in Int /\ t[i].name \in STRING /\ Len(t[i].dims) \in Nat
  BY DEF Whole
<1>4b. t[i].dims[d].name \in STRING /\ Len(t[i].dims[d].values) \in Nat
  BY DEF Whole
<1>4. t[i].region \in Int /\ t[i].name \in STRING /\ t[i].dims[d].name \in STRING /\ d \in Int /\ Len(t[i].dims[d].values) \in Nat
  BY <1>4a, <1>4b
<1>5. v + 1 \in 1 .. Len(t[i].dims[d].values) /\ v \in Int
  BY <1>4
<1>6. t[i].dims[d].values[v + 1] \in STRING /\ t[i].dims[d].values[v + 1] # NoText
  BY <1>5 DEF Whole
<1> QED BY <1>3, <1>4, <1>5, <1>6 DEF InfoOf, Infos

\* Of a table of which nothing is missing, every value is handed on as it was sent.
LEMMA InfosOfTable ==
  ASSUME NEW t, Whole(t)
  PROVE  /\ RrtInfos(t) \in Seq(Infos)
         /\ \A k \in 1 .. Len(RrtInfos(t)) : IsInfo(t, RrtInfos(t)[k])
         /\ \A i \in 1 .. Len(t) : \A d \in 1 .. Len(t[i].dims) : \A v \in 1 .. (Len(t[i].dims[d].values) - 1) :
              InfoOf(t, i, d, v) \in Elements(RrtInfos(t))
<1> DEFINE F == RatingValues(RatingDims(t))
           n == Len(F)
           r == RrtInfos(t)
<1>1. /\ n \in Nat
      /\ \A k \in 1 .. n : IsInfo(t, F[k])
      /\ \A i \in 1 .. Len(t) : \A d \in 1 .. Len(t[i].dims) : \A v \in 1 .. (Len(t[i].dims[d].values) - 1) :
              \E k \in 1 .. n : F[k] = InfoOf(t, i, d, v)
  BY ValuesOfTable
<1>2. r = [k \in 1 .. n |-> [F[k] EXCEPT !.text = Carried([x \in 1 .. k |-> F[x].text])]]
  BY DEF RrtInfos
<1> HIDE DEF F, n, r
<1>3. ASSUME NEW k \in 1 .. n PROVE r[k] = F[k] /\ r[k] \in Infos
  <2> DEFINE texts == [x \in 1 .. k |-> F[x].text]
             f == F[k]
             c == Carried(texts)
  <2>1. f \in Infos /\ f.text # NoText
    BY <1>1, InfoTyped
  <2>2. c = f.text
    <3>1. DOMAIN texts = 1 .. k /\ k \in Nat /\ k # 0 /\ texts[k] = f.text
      BY <1>1
    <3> HIDE DEF texts, f
    <3> QED BY <2>1, <3>1, CarriedLast
  <2>3. r[k] = [f EXCEPT !.text = c]
    BY <1>2
  <2> HIDE DEF f, c
  <2>4. [f EXCEPT !.text = f.text] = f
    BY <2>1 DEF Infos
  <2> QED BY <2>1, <2>2, <2>3, <2>4 DEF f
<1>4. DOMAIN r = 1 .. n /\ r = [k \in 1 .. n |-> r[k]]
  BY <1>2
<1>5. r \in Seq(Infos) /\ Len(r) = n
  <2>1. r \in [1 .. n -> Infos]
    BY <1>3, <1>4
  <2> QED BY <1>1, <2>1, LenProperties
<1>6. ASSUME NEW i \in 1 .. Len(t), NEW d \in 1 .. Len(t[i].dims), NEW v \in 1 .. (Len(t[i].dims[d].values) - 1)
      PROVE  InfoOf(t, i, d, v) \in Elements(r)
  <2>1. PICK k \in 1 .. n : F[k] = InfoOf(t, i, d, v)
    BY <1>1
  <2>2. r[k] = InfoOf(t, i, d, v)
    BY <1>3, <2>1
  <2> QED BY <1>5, <2>2 DEF Elements
<1>7. \A k \in 1 .. n : IsInfo(t, r[k])
  BY <1>1, <1>3
<1> QED BY <1>5, <1>6, <1>7 DEF r

\* The region is known by its name, and a text by region, dimension and number.
LEMMA OneText ==
  ASSUME NEW t, Whole(t), NEW x, NEW y, IsInfo(t, x), IsInfo(t, y)
  PROVE  /\ x.name = y.name => x.region = y.region
         /\ x.region = y.region /\ x.dim = y.dim /\ x.id = y.id => x.text = y.text
<1>1. PICK i \in 1 .. Len(t) :
        \E d \in 1 .. Len(t[i].dims) : \E v \in 1 .. (Len(t[i].dims[d].values) - 1) : x = InfoOf(t, i, d, v)
  BY DEF IsInfo
<1>1a. PICK d \in 1 .. Len(t[i].dims) : \E v \in 1 .. (Len(t[i].dims[d].values) - 1) : x = InfoOf(t, i, d, v)
  BY <1>1
<1>2. PICK v \in 1 .. (Len(t[i].dims[d].values) - 1) : x = InfoOf(t, i, d, v)
  BY <1>1a
<1>3. PICK j \in 1 .. Len(t) :
        \E e \in 1 .. Len(t[j].dims) : \E u \in 1 .. (Len(t[j].dims[e].values) - 1) : y = InfoOf(t, j, e, u)
  BY DEF IsInfo
<1>3a. PICK e \in 1 .. Len(t[j].dims) : \E u \in 1 .. (Len(t[j].dims[e].values) - 1) : y = InfoOf(t, j, e, u)
  BY <1>3
<1>4. PICK u \in 1 .. (Len(t[j].dims[e].values) - 1) : y = InfoOf(t, j, e, u)
  BY <1>3a
<1>5. i # j => t[i].region # t[j].region /\ t[i].name # t[j].name
  BY DEF Whole
<1>6. /\ x.name = t[i].name /\ x.region = t[i].region /\ x.dim = d - 1 /\ x.id = v
      /\ x.text = t[i].dims[d].values[v + 1]
      /\ y.name = t[j].name /\ y.region = t[j].region /\ y.dim = e - 1 /\ y.id = u
      /\ y.text = t[j].dims[e].values[u + 1]
  BY <1>2, <1>4 DEF InfoOf
<1>7. x.name = y.name => x.region = y.region
  BY <1>5, <1>6
<1>8. ASSUME x.region = y.region, x.dim = y.dim, x.id = y.id PROVE x.text = y.text
  <2>1. i = j
    BY <1>5, <1>6, <1>8
  <2>2. d \in Int /\ e \in Int
    OBVIOUS
  <2>3. d = e /\ v = u
    BY <1>6, <1>8, <2>2
  <2> QED BY <1>6, <2>1, <2>3
<1> QED BY <1>7, <1>8

(* The document. *)

Entry(x) == [id |-> x.id, title |-> x.text]
Systems == [name : STRING, region : Int, country : STRING, dim : Int, values : Seq([id : Int, title : STRING])]
Belongs(t, s, x) == IsInfo(t, x) /\ s.region = x.region /\ s.dim = x.dim /\ s.country = x.name
\* A rating system is of one dimension of one region, and so is all in it.
Drawn(t, s) ==
  /\ \E x \in Infos : Belongs(t, s, x)
  /\ \A k \in 1 .. Len(s.values) : \E x \in Infos : Belongs(t, s, x) /\ s.values[k] = Entry(x)
Told(s, x) == s.region = x.region /\ s.dim = x.dim /\ \E k \in 1 .. Len(s.values) : s.values[k] = Entry(x)
Shown(doc, x) == \E i \in 1 .. Len(doc) : Told(doc[i], x)
\* What of the table's values is not in the document is still to come.
Gathered(t, doc, rest) ==
  /\ doc \in Seq(Systems) /\ \A i \in 1 .. Len(doc) : Drawn(t, doc[i])
  /\ rest \in Seq(Infos) /\ \A k \in 1 .. Len(rest) : IsInfo(t, rest[k])
  /\ \A x \in Infos : IsInfo(t, x) => Shown(doc, x) \/ x \in Elements(rest)

LEMMA SystemBegun ==
  ASSUME NEW t, NEW x \in Infos, IsInfo(t, x)
  PROVE  System(x) \in Systems /\ Drawn(t, System(x)) /\ Told(System(x), x)
<1> DEFINE s == System(x)
<1>1. /\ s.region = x.region /\ s.dim = x.dim /\ s.country = x.name
      /\ s.values = <<Entry(x)>>
  BY DEF System, Entry
<1>2. Entry(x) \in [id : Int, title : STRING]
  BY DEF Entry, Infos
<1>3. s.values \in Seq([id : Int, title : STRING]) /\ Len(s.values) = 1 /\ s.values[1] = Entry(x)
  BY <1>1, <1>2
<1>4. s \in Systems
  <2>1. s = [name |-> x.dimName, region |-> x.region, country |-> x.name, dim |-> x.dim, values |-> s.values]
    BY DEF System
  <2>2. x.dimName \in STRING /\ x.region \in Int /\ x.name \in STRING /\ x.dim \in Int
    BY DEF Infos
  <2> HIDE DEF s
  <2> QED BY <1>3, <2>1, <2>2 DEF Systems
<1> HIDE DEF s
<1>5. Belongs(t, s, x)
  BY <1>1 DEF Belongs
<1>6. Drawn(t, s)
  BY <1>3, <1>5 DEF Drawn
<1>7. Told(s, x)
  BY <1>1, <1>3 DEF Told
<1> QED BY <1>4, <1>6, <1>7 DEF s

Extends(t, s, x, r) == r \in Systems /\ Drawn(t, r) /\ Told(r, x) /\ \A y : Told(s, y) => Told(r, y)
LEMMA SystemJoined ==
  ASSUME NEW t, NEW x \in Infos, NEW s \in Systems, Drawn(t, s), Belongs(t, s, x)
  PROVE  Extends(t, s, x, [s EXCEPT !.values = Append(s.values, Entry(x))])
<1> DEFINE r == [s EXCEPT !.values = Append(s.values, Entry(x))]
           V == [id : Int, title : STRING]
           vs == s.values
           ws == Append(vs, Entry(x))
           n == Len(vs)
<1>1. Entry(x) \in V /\ vs \in Seq(V)
  BY DEF Entry, Infos, Systems
<1> HIDE DEF V
<1>2. n \in Nat /\ ws \in Seq(V) /\ Len(ws) = n + 1 /\ ws[n + 1] = Entry(x) /\ \A k \in 1 .. n : ws[k] = vs[k]
  <2> HIDE DEF vs
  <2> QED BY <1>1
<1>3. /\ r.region = s.region /\ r.dim = s.dim /\ r.country = s.country /\ r.name = s.name /\ r.values = ws
      /\ r = [name |-> s.name, region |-> s.region, country |-> s.country, dim |-> s.dim, values |-> ws]
  <2> HIDE DEF ws
  <2>1. r = [s EXCEPT !.values = ws]
    BY DEF ws
  <2> HIDE DEF r
  <2> QED BY <2>1 DEF Systems
<1>3a. Extends(t, s, x, r) => Extends(t, s, x, [s EXCEPT !.values = Append(s.values, Entry(x))])
  OBVIOUS
<1> HIDE DEF r
<1>4. r \in Systems
  <2>1. s.name \in STRING /\ s.region \in Int /\ s.country \in STRING /\ s.dim \in Int
    BY DEF Systems
  <2> HIDE DEF ws
  <2> QED BY <1>2, <1>3, <2>1 DEF Systems, V
<1>5. \A y : Belongs(t, s, y) => Belongs(t, r, y)
  BY <1>3 DEF Belongs
<1> HIDE DEF ws, n, vs
<1>6. ASSUME NEW k \in 1 .. Len(r.values) PROVE \E y \in Infos : Belongs(t, r, y) /\ r.values[k] = Entry(y)
  <2>1. CASE k = n + 1
    BY <1>2, <1>3, <1>5, <2>1
  <2>2. CASE k # n + 1
    <3>1. k \in 1 .. n
      BY <1>2, <1>3, <2>2
    <3>2. PICK y \in Infos : Belongs(t, s, y) /\ s.values[k] = Entry(y)
      BY <3>1 DEF Drawn, n, vs
    <3>3. r.values[k] = Entry(y)
      BY <1>2, <1>3, <3>1, <3>2 DEF vs
    <3> QED BY <1>5, <3>2, <3>3
  <2> QED BY <2>1, <2>2
<1>7. Drawn(t, r)
  BY <1>5, <1>6 DEF Drawn
<1>8. Told(r, x)
  <2>1. n + 1 \in 1 .. Len(r.values) /\ r.values[n + 1] = Entry(x)
    BY <1>2, <1>3
  <2> QED BY <1>3, <2>1 DEF Told, Belongs
<1>9. ASSUME NEW y, Told(s, y) PROVE Told(r, y)
  <2>1. PICK k \in 1 .. Len(s.values) : s.values[k] = Entry(y)
    BY <1>9 DEF Told
  <2>2. k \in 1 .. Len(r.values) /\ r.values[k] = Entry(y)
    BY <1>2, <1>3, <2>1 DEF n, vs
  <2> QED BY <1>3, <1>9, <2>2 DEF Told
<1> QED BY <1>3a, <1>4, <1>7, <1>8, <1>9 DEF Extends

\* A value saved joins its dimension's system or begins one.
LEMMA SaveGathers ==
  ASSUME NEW t, Whole(t), NEW doc, NEW rest, Gathered(t, doc, rest), rest # <<>>
  PROVE  Gathered(t, SaveDataToXml(doc, Head(rest)), Tail(rest))
<1> DEFINE x == Head(rest)
           new == SaveDataToXml(doc, x)
           n == Len(doc)
<1>1. x \in Infos /\ IsInfo(t, x) /\ x = rest[1] /\ Len(rest) \in Nat /\ Len(rest) # 0
  BY DEF Gathered
<1>2. Tail(rest) \in Seq(Infos) /\ Len(Tail(rest)) = Len(rest) - 1 /\ \A k \in 1 .. (Len(rest) - 1) : Tail(rest)[k] = rest[k + 1]
  BY DEF Gathered
<1>3. doc \in Seq(Systems) /\ n \in Nat /\ \A i \in 1 .. n : doc[i] \in Systems /\ Drawn(t, doc[i])
  BY DEF Gathered
<1> DEFINE Good == /\ new \in Seq(Systems) /\ \A i \in 1 .. Len(new) : Drawn(t, new[i])
                   /\ Shown(new, x) /\ \A y : Shown(doc, y) => Shown(new, y)
<1>4. ASSUME doc # <<>> /\ SameSystem(Last(doc), x) PROVE Good
  <2> DEFINE s == doc[n]
             r == [s EXCEPT !.values = Append(s.values, Entry(x))]
  <2>1. n \in 1 .. n /\ Last(doc) = s /\ s \in Systems /\ Drawn(t, s)
    BY <1>3, <1>4 DEF Last
  <2>2. new = [doc EXCEPT ![n] = r]
    BY <1>3, <1>4, <2>1 DEF SaveDataToXml, Entry
  <2>3. Belongs(t, s, x)
    <3>1. s.country = x.name /\ s.dim = x.dim
      BY <1>4, <2>1 DEF SameSystem
    <3>2. PICK y \in Infos : Belongs(t, s, y)
      BY <2>1 DEF Drawn
    <3>3. x.region = y.region
      BY <1>1, <3>1, <3>2, OneText DEF Belongs
    <3> QED BY <1>1, <3>1, <3>2, <3>3 DEF Belongs
  <2>4. r \in Systems /\ Drawn(t, r) /\ Told(r, x) /\ \A y : Told(s, y) => Told(r, y)
    <3> HIDE DEF x, s
    <3>1. Extends(t, s, x, r)
      BY <1>1, <2>1, <2>3, SystemJoined
    <3> HIDE DEF r
    <3> QED BY <3>1 DEF Extends
  <2> HIDE DEF r, new, s, x
  <2>5. new \in Seq(Systems) /\ Len(new) = n /\ new[n] = r /\ \A i \in 1 .. n : i # n => new[i] = doc[i]
    BY <1>3, <2>1, <2>2, <2>4
  <2>6. \A i \in 1 .. Len(new) : Drawn(t, new[i])
    BY <1>3, <2>4, <2>5
  <2>7. Shown(new, x)
    BY <2>1, <2>4, <2>5 DEF Shown
  <2>8. ASSUME NEW y, Shown(doc, y) PROVE Shown(new, y)
    <3>1. PICK i \in 1 .. n : Told(doc[i], y)
      BY <2>8 DEF Shown
    <3>2. Told(new[i], y)
      BY <2>4, <2>5, <3>1 DEF s
    <3> QED BY <2>5, <3>2 DEF Shown
  <2> QED BY <2>5, <2>6, <2>7, <2>8
<1>5. ASSUME ~(doc # <<>> /\ SameSystem(Last(doc), x)) PROVE Good
  <2> DEFINE s == System(x)
  <2>1. new = Append(doc, s)
    BY <1>5 DEF SaveDataToXml
  <2>2. s \in Systems /\ Drawn(t, s) /\ Told(s, x)
    BY <1>1, SystemBegun
  <2> HIDE DEF s, new, x
  <2>3. new \in Seq(Systems) /\ Len(new) = n + 1 /\ new[n + 1] = s /\ \A i \in 1 .. n : new[i] = doc[i]
    BY <1>3, <2>1, <2>2
  <2>4. \A i \in 1 .. Len(new) : Drawn(t, new[i])
    BY <1>3, <2>2, <2>3
  <2>5. Shown(new, x)
    BY <1>3, <2>2, <2>3 DEF Shown
  <2>6. ASSUME NEW y, Shown(doc, y) PROVE Shown(new, y)
    <3>1. PICK i \in 1 .. n : Told(doc[i], y)
      BY <2>6 DEF Shown
    <3> QED BY <1>3, <2>3, <3>1 DEF Shown
  <2> QED BY <2>3, <2>4, <2>5, <2>6
<1>6. Good
  BY <1>4, <1>5
<1> HIDE DEF new, x
<1>7. ASSUME NEW y \in Infos, IsInfo(t, y) PROVE Shown(new, y) \/ y \in Elements(Tail(rest))
  <2>1. CASE Shown(doc, y)
    BY <1>6, <2>1
  <2>2. CASE y \in Elements(rest)
    <3>1. PICK k \in 1 .. Len(rest) : y = rest[k]
      BY <2>2 DEF Elements
    <3>2. CASE k = 1
      BY <1>1, <1>6, <3>1, <3>2
    <3>3. CASE k # 1
      <4>1. k - 1 \in 1 .. Len(Tail(rest)) /\ Tail(rest)[k - 1] = y
        BY <1>1, <1>2, <3>1, <3>3
      <4> QED BY <4>1 DEF Elements
    <3> QED BY <3>2, <3>3
  <2> QED BY <1>7, <2>1, <2>2 DEF Gathered
<1>8. \A k \in 1 .. Len(Tail(rest)) : IsInfo(t, Tail(rest)[k])
  <2> TAKE k \in 1 .. Len(Tail(rest))
  <2>1. k + 1 \in 1 .. Len(rest) /\ Tail(rest)[k] = rest[k + 1]
    BY <1>1, <1>2
  <2> QED BY <2>1 DEF Gathered
<1>9. Gathered(t, new, Tail(rest))
  BY <1>2, <1>6, <1>7, <1>8 DEF Gathered
<1> QED BY <1>9 DEF new, x

\* A value that is in the document is found, and none other in its place.
LEMMA LookUp ==
  ASSUME NEW t, Whole(t), NEW doc \in Seq(Systems), \A i \in 1 .. Len(doc) : Drawn(t, doc[i]),
         NEW x \in Infos, IsInfo(t, x), Shown(doc, x)
  PROVE  GetRRTRating(doc, x.region, x.dim, x.id) = x.text
<1> DEFINE V == [id : Int, title : STRING]
           n == Len(doc)
           ss == [i \in 1 .. n |-> IF doc[i].region = x.region /\ doc[i].dim = x.dim THEN doc[i].values ELSE <<>>]
           values == FlattenSeq(ss)
           hits == {k \in 1 .. Len(values) : values[k].id = x.id}
<1>1. n \in Nat /\ \A i \in 1 .. n : doc[i] \in Systems /\ doc[i].values \in Seq(V)
  <2>1. n \in Nat /\ \A i \in 1 .. n : doc[i] \in Systems
    BY LenProperties, ElementOfSeq
  <2>2. \A s \in Systems : s.values \in Seq(V)
    BY DEF Systems
  <2> QED BY <2>1, <2>2
<1> HIDE DEF V
<1>2. ss \in Seq(Seq(V)) /\ Len(ss) = n
  <2>1. <<>> \in Seq(V)
    OBVIOUS
  <2>2. ss \in [1 .. n -> Seq(V)]
    BY <1>1, <2>1
  <2> HIDE DEF ss, n
  <2> QED BY <1>1, <2>2, LenProperties
<1>3. ASSUME NEW i \in 1 .. n
      PROVE  ss[i] = IF doc[i].region = x.region /\ doc[i].dim = x.dim THEN doc[i].values ELSE <<>>
  OBVIOUS
<1> HIDE DEF ss, n
<1>4. values \in Seq(V) /\ Elements(values) = UNION {Elements(ss[i]) : i \in 1 .. Len(ss)}
  BY <1>2, FlattenHolds
<1> HIDE DEF values
<1>5. ASSUME NEW k \in hits PROVE values[k].title = x.text
  <2>1. k \in 1 .. Len(values) /\ values[k].id = x.id /\ values[k] \in Elements(values)
    BY DEF Elements
  <2>2. PICK i \in 1 .. n : values[k] \in Elements(ss[i])
    BY <1>2, <1>4, <2>1
  <2>3. Elements(<<>>) = {}
    BY DEF Elements
  <2>4. doc[i].region = x.region /\ doc[i].dim = x.dim /\ ss[i] = doc[i].values
    BY <1>3, <2>2, <2>3
  <2>5. PICK j \in 1 .. Len(doc[i].values) : values[k] = doc[i].values[j]
    BY <2>2, <2>4 DEF Elements
  <2>6. PICK y \in Infos : Belongs(t, doc[i], y) /\ values[k] = Entry(y)
    BY <2>5 DEF Drawn, n
  <2>7. IsInfo(t, y) /\ y.region = x.region /\ y.dim = x.dim
    BY <2>4, <2>6 DEF Belongs
  <2>8. y.id = x.id /\ values[k].title = y.text
    BY <2>1, <2>6 DEF Entry
  <2>9. y.text = x.text
    BY <2>7, <2>8, OneText
  <2> QED BY <2>8, <2>9
<1>6. hits # {}
  <2>1. PICK i \in 1 .. n : Told(doc[i], x)
    BY DEF Shown, n
  <2>2. ss[i] = doc[i].values
    BY <1>3, <2>1 DEF Told
  <2>3. PICK k \in 1 .. Len(doc[i].values) : doc[i].values[k] = Entry(x)
    BY <2>1 DEF Told
  <2>4. Entry(x) \in Elements(ss[i])
    BY <2>2, <2>3 DEF Elements
  <2>5. Entry(x) \in Elements(values)
    BY <1>2, <1>4, <2>4
  <2>6. PICK j \in 1 .. Len(values) : values[j] = Entry(x)
    BY <2>5 DEF Elements
  <2>7. values[j].id = x.id
    BY <2>6 DEF Entry
  <2> QED BY <2>7
<1>7. hits \subseteq Nat
  OBVIOUS
<1> HIDE DEF hits
<1>8. \E k \in hits : \A j \in hits : k <= j
  BY <1>6, <1>7, LeastOf
<1>9. Min(hits) \in hits
  BY <1>8 DEF Min
<1>10. GetRRTRating(doc, x.region, x.dim, x.id) = IF hits = {} THEN NoText ELSE values[Min(hits)].title
  BY DEF GetRRTRating, hits, values, ss, n
<1> QED BY <1>5, <1>6, <1>9, <1>10

(* The updates and the alerts. *)

RrtInv ==
  /\ told \in {"none", "START", "END"}
  /\ told # "START" => unsaved = <<>>
  /\ told # "none" => table \in Tables
  /\ told # "none" /\ Complete(table) => Gathered(table, xmlDoc, unsaved)
  /\ ~saveFailed => xmlDoc = <<>> \/ xmlFile = xmlDoc

EasInv == DOMAIN slot.memory = 1 .. 4 * EasInts /\ AlertToldAsSent

PsipInv == RrtInv /\ EasInv

\* A new document holds nothing of the table.
LEMMA GatheringBegins ==
  ASSUME NEW t \in Tables, Complete(t)
  PROVE  Gathered(t, <<>>, RrtInfos(t))
<1>1. Whole(t)
  BY TableWhole
<1>2. /\ RrtInfos(t) \in Seq(Infos)
      /\ \A k \in 1 .. Len(RrtInfos(t)) : IsInfo(t, RrtInfos(t)[k])
      /\ \A i \in 1 .. Len(t) : \A d \in 1 .. Len(t[i].dims) : \A v \in 1 .. (Len(t[i].dims[d].values) - 1) :
            InfoOf(t, i, d, v) \in Elements(RrtInfos(t))
  BY <1>1, InfosOfTable
<1> DEFINE r == RrtInfos(t)
<1> HIDE DEF r
<1>3. ASSUME NEW x \in Infos, IsInfo(t, x) PROVE x \in Elements(r)
  <2>1. PICK i \in 1 .. Len(t) :
          \E d \in 1 .. Len(t[i].dims) : \E v \in 1 .. (Len(t[i].dims[d].values) - 1) : x = InfoOf(t, i, d, v)
    BY <1>3 DEF IsInfo
  <2>2. PICK d \in 1 .. Len(t[i].dims) : \E v \in 1 .. (Len(t[i].dims[d].values) - 1) : x = InfoOf(t, i, d, v)
    BY <2>1
  <2>3. PICK v \in 1 .. (Len(t[i].dims[d].values) - 1) : x = InfoOf(t, i, d, v)
    BY <2>2
  <2> QED BY <1>2, <2>3 DEF r
<1>4. <<>> \in Seq(Systems) /\ Len(<<>>) = 0 /\ 1 .. Len(<<>>) = {}
  OBVIOUS
<1>5. r \in Seq(Infos) /\ \A k \in 1 .. Len(r) : IsInfo(t, r[k])
  BY <1>2 DEF r
<1>6. Gathered(t, <<>>, r)
  BY <1>3, <1>4, <1>5 DEF Gathered
<1> QED BY <1>6 DEF r

\* A byte's place among the ints it is told in.
LEMMA PlaceOfByte ==
  ASSUME NEW k \in Nat \ {0}
  PROVE  /\ 1 + ((k - 1) \div 4) \in 1 .. k /\ 1 + ((k - 1) % 4) \in 1 .. 4
         /\ 4 * ((1 + ((k - 1) \div 4)) - 1) + (1 + ((k - 1) % 4)) = k
OBVIOUS

\* A sequence of one item at most.
LEMMA SingleItem ==
  ASSUME NEW S, NEW s \in Seq(S), Len(s) = 1
  PROVE  s = <<s[1]>>
OBVIOUS

LEMMA AtMostOne ==
  ASSUME NEW S, NEW s \in Seq(S), Len(s) <= 1
  PROVE  \/ s = <<>> /\ Len(s) = 0 /\ DOMAIN s = {}
         \/ s = <<s[1]>> /\ s # <<>> /\ Len(s) = 1 /\ DOMAIN s = {1} /\ Last(s) = s[1] /\ s[1] \in S
<1>1. Len(s) \in Nat /\ DOMAIN s = 1 .. Len(s)
  BY LenProperties
<1>2. CASE Len(s) = 0
  <2>1. s = <<>> /\ DOMAIN s = {}
    BY <1>1, <1>2
  <2> QED BY <1>2, <2>1
<1>3. CASE Len(s) = 1
  <2>1. s = <<s[1]>>
    BY <1>3, SingleItem
  <2>2. s[1] \in S
    BY <1>1, <1>3
  <2>3. s # <<>>
    BY <1>3
  <2>4. DOMAIN s = {1}
    BY <1>1, <1>3
  <2>5. Last(s) = s[1]
    BY <1>3 DEF Last
  <2> QED BY <1>3, <2>1, <2>2, <2>3, <2>4, <2>5, Zenon
<1> QED BY <1>1, <1>2, <1>3

\* What a descriptor put over anything is told as, has its length and its bytes.
LEMMA DescriptorTold ==
  ASSUME NEW memory, DOMAIN memory = 1 .. 4 * EasInts,
         NEW sent \in Seq(EasBytes), Len(sent) <= EasInts
  PROVE  /\ Len(Ints(Overwritten(memory, <<sent>>), Len(sent))) = Len(sent)
         /\ \A k \in DOMAIN sent : ByteOf(Ints(Overwritten(memory, <<sent>>), Len(sent)), k) = sent[k]
<1> DEFINE n == Len(sent)
           over == Overwritten(memory, <<sent>>)
           ints == Ints(over, n)
<1>1. n \in Nat /\ DOMAIN sent = 1 .. n /\ n <= EasInts
  BY LenProperties
<1>2. \A k \in 1 .. n : over[k] = sent[k]
  <2> TAKE k \in 1 .. n
  <2> DEFINE last == {i \in DOMAIN <<sent>> : Len(<<sent>>[i]) >= k}
  <2>1. last = {1} /\ k \in DOMAIN memory
    BY <1>1, PsipAssumption
  <2>2. Max(last) = 1
    BY <2>1 DEF Max
  <2> HIDE DEF n
  <2> QED BY <2>1, <2>2 DEF Overwritten
<1> HIDE DEF over
<1>3. ints = [w \in 1 .. n |-> [b \in 1 .. 4 |-> over[4 * (w - 1) + b]]]
  BY DEF Ints
<1> HIDE DEF n, ints
<1>4. Len(ints) = n
  BY <1>1, <1>3
<1>5. ASSUME NEW k \in 1 .. n PROVE ByteOf(ints, k) = sent[k]
  <2> DEFINE w == 1 + ((k - 1) \div 4)
             b == 1 + ((k - 1) % 4)
  <2>1. ByteOf(ints, k) = ints[w][b]
    BY DEF ByteOf
  <2>2. k \in Nat \ {0}
    BY <1>1
  <2> HIDE DEF w, b
  <2>3. w \in 1 .. k /\ b \in 1 .. 4 /\ 4 * (w - 1) + b = k
    BY <2>2, PlaceOfByte DEF w, b
  <2>4. w \in 1 .. n
    BY <1>1, <2>3
  <2>5. ints[w] = [c \in 1 .. 4 |-> over[4 * (w - 1) + c]]
    BY <1>3, <2>4
  <2>6. ints[w][b] = over[k]
    BY <2>3, <2>5
  <2> QED BY <1>2, <2>1, <2>6
<1> QED BY <1>1, <1>4, <1>5 DEF n, over, ints

LEMMA PsipStarts == PsipInit => PsipInv
<1> SUFFICES ASSUME PsipInit PROVE PsipInv
  OBVIOUS
<1>1. RrtInv
  BY DEF PsipInit, RrtInit, RrtInv
<1>2. DOMAIN slot.memory = 1 .. 4 * EasInts
  BY DEF PsipInit, EasInit
<1>3. AlertToldAsSent
  BY DEF PsipInit, EasInit, NoAlert, AlertToldAsSent
<1> QED BY <1>1, <1>2, <1>3 DEF PsipInv, EasInv

LEMMA RrtStep == RrtInv /\ RrtNext => RrtInv'
<1> SUFFICES ASSUME RrtInv, RrtNext PROVE RrtInv'
  OBVIOUS
<1>1. CASE UNCHANGED updateVars
  BY <1>1 DEF updateVars, RrtInv
<1>2. CASE TableArrives
  <2>1. PICK t \in Tables : table' = t /\ unsaved' = RrtInfos(t)
    BY <1>2 DEF TableArrives
  <2>2. xmlDoc' = <<>> /\ told' = "START"
    BY <1>2 DEF TableArrives
  <2>3. Complete(t) => Gathered(t, <<>>, RrtInfos(t))
    BY GatheringBegins
  <2>4. Complete(table') => Gathered(table', xmlDoc', unsaved')
    BY <2>1, <2>2, <2>3
  <2> QED BY <2>1, <2>2, <2>4 DEF RrtInv
<1>3. CASE ValueSaved
  <2>1. /\ unsaved # <<>> /\ xmlDoc' = SaveDataToXml(xmlDoc, Head(unsaved)) /\ unsaved' = Tail(unsaved)
        /\ table' = table /\ told' = told /\ (saveFailed' \/ xmlFile' = xmlDoc')
    BY <1>3 DEF ValueSaved
  <2>2. told = "START" /\ table \in Tables
    BY <2>1 DEF RrtInv
  <2>3. ASSUME Complete(table) PROVE Gathered(table, xmlDoc', unsaved')
    <3>1. Whole(table) /\ Gathered(table, xmlDoc, unsaved)
      BY <2>2, <2>3, TableWhole DEF RrtInv
    <3> QED BY <2>1, <3>1, SaveGathers
  <2>4. Complete(table') => Gathered(table', xmlDoc', unsaved')
    BY <2>1, <2>3
  <2> QED BY <2>1, <2>2, <2>4 DEF RrtInv
<1>4. CASE TableEnds
  <2>1. /\ told = "START" /\ unsaved = <<>> /\ told' = "END" /\ unsaved' = unsaved /\ xmlDoc' = xmlDoc
        /\ xmlFile' = xmlFile /\ table' = table /\ saveFailed' = saveFailed
    BY <1>4 DEF TableEnds
  <2> QED BY <2>1 DEF RrtInv
<1>5. ASSUME NEW c \in Searchers, StopRrtUpdate(c) \/ \E manual \in BOOLEAN : StartRrtUpdate(c, manual)
      PROVE  UNCHANGED updateVars
  BY <1>5 DEF StopRrtUpdate, StartRrtUpdate
<1> QED BY <1>1, <1>2, <1>3, <1>4, <1>5 DEF RrtNext, SearchEnds, NoTable

LEMMA EasStep == EasInv /\ EasNext => EasInv'
<1> SUFFICES ASSUME EasInv, EasNext PROVE EasInv'
  OBVIOUS
<1>1. CASE EasUpdate
  <2>1. slot' = slot /\ alert' = alert /\ easTold' = easTold
    BY <1>1 DEF EasUpdate
  <2> QED BY <2>1 DEF EasInv, AlertToldAsSent
<1>2. CASE EasEvtCallback
  <2>1. PICK a \in Alerts :
          LET descriptors == IF a.texts = <<>> THEN <<>> ELSE a.descriptors
          IN /\ alert' = a
             /\ slot' = [text |-> IF a.texts = <<>> THEN slot.text ELSE Last(a.texts),
                         memory |-> Overwritten(slot.memory, descriptors)]
             /\ easTold' =
                  [texts |-> [i \in 1 .. Len(a.texts) |-> IF i = 1 THEN slot'.text ELSE NoText],
                   descriptors |-> [i \in 1 .. Len(descriptors) |->
                      IF i = 1 THEN Ints(slot'.memory, Len(Last(descriptors))) ELSE <<>>]]
    BY <1>2 DEF EasEvtCallback
  <2> DEFINE ds == IF a.texts = <<>> THEN <<>> ELSE a.descriptors
  <2>2. /\ a.texts \in Seq(STRING) /\ a.descriptors \in Seq(Seq(EasBytes))
        /\ \A i \in DOMAIN a.descriptors : Len(a.descriptors[i]) <= EasInts
    BY BroadcastAssumption
  <2>3. /\ alert' = a /\ slot'.memory = Overwritten(slot.memory, ds)
        /\ slot'.text = IF a.texts = <<>> THEN slot.text ELSE Last(a.texts)
        /\ easTold'.texts = [i \in 1 .. Len(a.texts) |-> IF i = 1 THEN slot'.text ELSE NoText]
        /\ easTold'.descriptors = [i \in 1 .. Len(ds) |->
                                     IF i = 1 THEN Ints(slot'.memory, Len(Last(ds))) ELSE <<>>]
    BY <2>1
  <2>4. DOMAIN slot'.memory = 1 .. 4 * EasInts
    BY <2>3 DEF EasInv, Overwritten
  <2>5. Len(a.descriptors) \in Nat /\ Len(a.texts) \in Nat
    BY <2>2, LenProperties
  <2>6. ASSUME Len(a.texts) <= 1, Len(a.descriptors) <= Len(a.texts)
        PROVE  /\ easTold'.texts = a.texts
               /\ Len(easTold'.descriptors) = Len(a.descriptors)
               /\ \A i \in DOMAIN a.descriptors :
                    LET sent == a.descriptors[i]
                        ints == easTold'.descriptors[i]
                    IN Len(ints) = Len(sent) /\ \A k \in DOMAIN sent : ByteOf(ints, k) = sent[k]
    <3>1. easTold'.texts = a.texts
      <4> HIDE DEF ds
      <4>1. CASE a.texts = <<>> /\ Len(a.texts) = 0
        BY <2>3, <4>1
      <4>2. CASE /\ a.texts = <<a.texts[1]>> /\ a.texts # <<>> /\ Len(a.texts) = 1
                 /\ Last(a.texts) = a.texts[1]
        BY <2>3, <4>2
      <4> QED BY <2>2, <2>6, <4>1, <4>2, AtMostOne
    <3>2. ds = a.descriptors
      <4>1. CASE a.texts = <<>>
        <5>1. Len(a.descriptors) = 0
          BY <2>6, <2>5, <4>1
        <5> QED BY <2>2, <4>1, <5>1
      <4> QED BY <4>1
    <3> HIDE DEF ds
    <3>3. Len(easTold'.descriptors) = Len(a.descriptors)
      BY <2>3, <2>5, <3>2
    <3>4. ASSUME NEW i \in DOMAIN a.descriptors
          PROVE  /\ Len(easTold'.descriptors[i]) = Len(a.descriptors[i])
                 /\ \A k \in DOMAIN a.descriptors[i] :
                      ByteOf(easTold'.descriptors[i], k) = a.descriptors[i][k]
      <4>0. Len(a.descriptors) <= 1
        BY <2>5, <2>6
      <4>1. /\ Len(a.descriptors) = 1 /\ i = 1 /\ a.descriptors = <<a.descriptors[1]>>
            /\ Last(a.descriptors) = a.descriptors[1] /\ a.descriptors[1] \in Seq(EasBytes)
        BY <2>2, <4>0, AtMostOne
      <4> DEFINE sent == a.descriptors[1]
      <4>2. sent \in Seq(EasBytes) /\ Len(sent) <= EasInts
        BY <2>2, <4>1
      <4>3. ds = <<sent>> /\ Last(ds) = sent
        BY <3>2, <4>1
      <4>4. easTold'.descriptors[1] = Ints(Overwritten(slot.memory, <<sent>>), Len(sent))
        <5> HIDE DEF sent
        <5>1. Len(ds) = 1
          BY <4>3
        <5> QED BY <2>3, <4>3, <5>1
      <4> HIDE DEF sent
      <4>5. /\ Len(easTold'.descriptors[1]) = Len(sent)
            /\ \A k \in DOMAIN sent : ByteOf(easTold'.descriptors[1], k) = sent[k]
        BY <4>2, <4>4, DescriptorTold DEF EasInv
      <4> QED BY <4>1, <4>5 DEF sent
    <3> QED BY <3>1, <3>3, <3>4
  <2>7. AlertToldAsSent'
    BY <2>3, <2>6 DEF AlertToldAsSent
  <2> QED BY <2>4, <2>7 DEF EasInv
<1> QED BY <1>1, <1>2 DEF EasNext

\* What is told of a table from the broadcaster's first value to the last is what was sent, and so are
\* an alert's text and, four to an int, its descriptor's bytes, whatever tables, alerts and refused
\* saves came before.
THEOREM RatingsAndAlertsTold == PsipSpec => []PsipToldAsSent
<1>1. PsipInv /\ [PsipNext]_psipVars => PsipInv'
  <2> SUFFICES ASSUME PsipInv, [PsipNext]_psipVars PROVE PsipInv'
    OBVIOUS
  <2>1. ASSUME UNCHANGED rrtVars PROVE RrtInv'
    BY <2>1 DEF rrtVars, RrtInv, PsipInv
  <2>2. ASSUME UNCHANGED easVars PROVE EasInv'
    BY <2>2 DEF easVars, EasInv, PsipInv, AlertToldAsSent
  <2>3. CASE RrtNext /\ UNCHANGED easVars
    BY <2>2, <2>3, RrtStep DEF PsipInv
  <2>4. CASE EasNext /\ UNCHANGED rrtVars
    BY <2>1, <2>4, EasStep DEF PsipInv
  <2>5. CASE UNCHANGED psipVars
    BY <2>1, <2>2, <2>5 DEF psipVars, PsipInv
  <2> QED BY <2>3, <2>4, <2>5 DEF PsipNext
<1>2. PsipInv => PsipToldAsSent
  <2> SUFFICES ASSUME PsipInv PROVE RatingFound
    BY DEF PsipInv, EasInv, PsipToldAsSent
  <2> SUFFICES ASSUME told = "END", ~saveFailed, Complete(table),
                      NEW i \in DOMAIN table, NEW d \in DOMAIN table[i].dims,
                      NEW v \in 2 .. Len(table[i].dims[d].values)
               PROVE  GetRRTRating(xmlFile, table[i].region, d - 1, v - 1) = table[i].dims[d].values[v]
    BY DEF RatingFound
  <2>1. /\ table \in Tables /\ unsaved = <<>> /\ Gathered(table, xmlDoc, unsaved)
        /\ (xmlDoc = <<>> \/ xmlFile = xmlDoc)
    BY DEF PsipInv, RrtInv
  <2>2. Whole(table)
    BY <2>1, TableWhole
  <2>3. i \in 1 .. Len(table) /\ d \in 1 .. Len(table[i].dims) /\ Len(table[i].dims[d].values) \in Nat
    <3> DEFINE D == [name : STRING, values : Seq(STRING)]
               R == [region : Int, name : STRING, dims : Seq(D)]
    <3>1. table \in Seq(R)
      BY <2>1, BroadcastAssumption
    <3>2. i \in 1 .. Len(table) /\ table[i] \in R
      BY <3>1, LenProperties, ElementOfSeq
    <3>3. table[i].dims \in Seq(D)
      BY <3>2
    <3>4. d \in 1 .. Len(table[i].dims)
      BY <3>3, LenProperties
    <3>5. Len(table[i].dims[d].values) \in Nat
      BY <2>2, <3>2, <3>4 DEF Whole
    <3> QED BY <3>2, <3>4, <3>5
  <2> DEFINE x == InfoOf(table, i, d, v - 1)
  <2>4. v - 1 \in 1 .. (Len(table[i].dims[d].values) - 1) /\ (v - 1) + 1 = v
    BY <2>3
  <2>5. IsInfo(table, x)
    BY <2>3, <2>4 DEF IsInfo
  <2>6. x \in Infos
    BY <2>2, <2>5, InfoTyped
  <2>7. /\ x.region = table[i].region /\ x.dim = d - 1 /\ x.id = v - 1
        /\ x.text = table[i].dims[d].values[v]
    BY <2>4 DEF InfoOf
  <2> HIDE DEF x
  <2>8. Shown(xmlDoc, x)
    <3>1. Elements(<<>>) = {}
      BY DEF Elements
    <3> QED BY <2>1, <2>5, <2>6, <3>1 DEF Gathered
  <2>9. xmlDoc # <<>>
    <3>1. ~Shown(<<>>, x)
      BY DEF Shown
    <3> QED BY <2>8, <3>1
  <2>10. GetRRTRating(xmlDoc, x.region, x.dim, x.id) = x.text
    BY <2>1, <2>2, <2>5, <2>6, <2>8, LookUp DEF Gathered
  <2> QED BY <2>1, <2>7, <2>9, <2>10
<1> QED BY <1>1, <1>2, PsipStarts, PTL DEF PsipSpec
=============================================================================
