----------------------------- MODULE Tv_proofs -----------------------------
(***************************************************************************)
(* Proofs about Tv, for every set of sources, with and without snow.  The  *)
(* ownership of playback and of the scanner (Sound) holds even when the    *)
(* vdin driver refuses to stop its decoder; what is said of the decoder    *)
(* itself needs a driver that obeys (Obeys).                               *)
(***************************************************************************)
EXTENDS Tv, TLAPS

-----------------------------------------------------------------------------
(* The inductive invariant.  Most of it speaks of the members alone. *)

Sound(s) ==
    /\ s \in TvState
    /\ s.ts => Live(s) /\ s.player = "dtv"
    /\ s.shift => s.player = "dtv"
    /\ Has(s, "PLAYING") => s.player # "none"
    /\ s.scanner # "off" => Has(s, "SCANNING")

\* Half way through a switch nothing plays; a start under way has its player
\* registered, and knows that it is on the source it plays from.
BusyInv ==
    /\ busy.op = "switch" => ~tv.ts
    /\ busy.op \in {"switch", "play"} /\ busy.then \in {"live", "shift"} =>
          /\ tv.player = "dtv"
          /\ IF busy.op = "switch" THEN busy.to = "DTV" ELSE tv.src = "DTV"
    /\ busy.op \in {"switch", "play"} /\ busy.then = "atv" =>
          tv.player = "atv"

IInv == TypeOK /\ Sound(tv) /\ BusyInv

\* The driver always stops the decoder.
Obeys == Refusals \subseteq {FALSE}

DecoderInv(s) ==
    /\ s.decoder => Has(s, "IN_VDIN")
    /\ s.scanner = "unified" => ~s.decoder

-----------------------------------------------------------------------------
(* Lemmas about the operators the calls are built from. *)

\* stopPlaying ends the playback, whichever source it was on, and keeps the
\* rest.
LEMMA StopPlayingSound ==
    ASSUME NEW s, Sound(s)
    PROVE  /\ Sound(StopPlaying(s))
           /\ ~StopPlaying(s).ts
           /\ ~Has(StopPlaying(s), "PLAYING")
           /\ StopPlaying(s).player = s.player
           /\ StopPlaying(s).src = s.src
BY ZenonT(60) DEF Sound, StopPlaying, TvState, Has, Clear, Live, Actions, Players

\* Releasing the player leaves nothing playing.
LEMMA ReleasePlayerSound ==
    ASSUME NEW s, Sound(s)
    PROVE  /\ Sound(ReleasePlayer(s))
           /\ ReleasePlayer(s).player = "none"
           /\ ~ReleasePlayer(s).ts /\ ~ReleasePlayer(s).shift
           /\ ReleasePlayer(s).src = s.src
<1> DEFINE p == StopPlaying(s)
           f == p.shift /\ s.player # "dtv"
<1>1. CASE s.player = "none"
  BY <1>1 DEF ReleasePlayer, Sound
<1>2. CASE s.player # "none"
  <2>1. /\ Sound(p) /\ ~p.ts /\ ~Has(p, "PLAYING")
        /\ p.player = s.player /\ p.src = s.src
    BY StopPlayingSound
  <2>2. ReleasePlayer(s) = [p EXCEPT !.player = "none", !.shift = f]
    BY <1>2 DEF ReleasePlayer
  <2> HIDE DEF p
  <2>3. p \in TvState /\ ~f
    BY <2>1 DEF Sound
  <2>4. /\ f \in BOOLEAN /\ "none" \in Players
    BY <2>3 DEF Players
  <2> HIDE DEF f
  <2> DEFINE q == [p EXCEPT !.player = "none", !.shift = f]
  <2>5. /\ q \in TvState /\ q.player = "none" /\ q.shift = f
        /\ q.ts = p.ts /\ q.src = p.src /\ q.action = p.action
        /\ q.scanner = p.scanner
    BY <2>3, <2>4 DEF TvState
  <2> HIDE DEF q
  <2>6. Sound(q)
    BY <2>1, <2>3, <2>5 DEF Sound, Has
  <2> QED
    BY <2>1, <2>2, <2>3, <2>5, <2>6 DEF q
<1> QED
  BY <1>1, <1>2

\* Stopping the decoder touches nothing else.
LEMMA StopDecoderSound ==
    ASSUME NEW s, Sound(s), NEW r \in BOOLEAN
    PROVE  /\ Sound(StopDecoder(s, r))
           /\ StopDecoder(s, r) = [s EXCEPT !.decoder = StopDecoder(s, r).decoder]
           /\ ~r => ~StopDecoder(s, r).decoder
BY DEF Sound, StopDecoder, TvState, Has, Live

\* stopScan ends the scan, and the flag goes with it.
LEMMA StopScanSound ==
    ASSUME NEW s, Sound(s), NEW r \in BOOLEAN
    PROVE  /\ Sound(StopScan(s, r))
           /\ ~Has(StopScan(s, r), "SCANNING")
           /\ StopScan(s, r).scanner = "off"
           /\ StopScan(s, r).player = s.player
           /\ StopScan(s, r).src = s.src
           /\ StopScan(s, r).port = s.port
           /\ StopScan(s, r).ts = s.ts
           /\ StopScan(s, r).action = s.action \ {"SCANNING"}
           /\ StopScan(s, r).decoder => s.decoder
<1> DEFINE d == IF s.src = "TV" /\ DisplaySnow THEN StopDecoder(s, r) ELSE s
<1>1. /\ Sound(d)
      /\ d = [s EXCEPT !.decoder = d.decoder]
      /\ d.decoder => s.decoder
  BY StopDecoderSound DEF StopDecoder, Sound, TvState
<1>2. CASE ~Has(s, "SCANNING")
  BY <1>2 DEF StopScan, Sound, Has, TvState
<1>3. CASE Has(s, "SCANNING")
  <2>1. StopScan(s, r) =
          [Clear(d, "SCANNING") EXCEPT !.scanner = "off", !.fe = FALSE]
    BY <1>3 DEF StopScan
  <2>2. /\ d.player = s.player /\ d.src = s.src /\ d.port = s.port
        /\ d.ts = s.ts /\ d.action = s.action
    BY <1>1 DEF Sound, TvState
  <2> HIDE DEF d
  <2>3. StopScan(s, r) = [d EXCEPT !.action = d.action \ {"SCANNING"},
                                   !.scanner = "off", !.fe = FALSE]
    BY <1>1, <2>1 DEF Clear, Sound, TvState
  <2>4. /\ StopScan(s, r) \in TvState
        /\ StopScan(s, r).action = s.action \ {"SCANNING"}
        /\ StopScan(s, r).scanner = "off"
        /\ StopScan(s, r).decoder = d.decoder
        /\ StopScan(s, r).src = s.src /\ StopScan(s, r).player = s.player
        /\ StopScan(s, r).ts = s.ts /\ StopScan(s, r).shift = d.shift
        /\ StopScan(s, r).port = s.port
    BY ZenonT(60), <1>1, <2>2, <2>3 DEF Sound, TvState, Scans
  <2> QED
    BY <1>1, <2>2, <2>4 DEF Sound, Has, Live
<1> QED
  BY <1>2, <1>3

\* Leaving a source stops the playback.
LEMMA LeaveSourceSound ==
    ASSUME NEW s, Sound(s), NEW to
    PROVE  /\ Sound(LeaveSource(s, to))
           /\ ~LeaveSource(s, to).ts
           /\ LeaveSource(s, to).player = s.player
<1> DEFINE p == StopPlaying(s)
           on == to \in {"TV", "DTV"}
<1>1. Sound(p) /\ ~p.ts /\ p.player = s.player
  BY StopPlayingSound
<1>2. LeaveSource(s, to) = [p EXCEPT !.fe = on] /\ on \in BOOLEAN
  BY DEF LeaveSource
<1> HIDE DEF p, on
<1> QED
  BY <1>1, <1>2 DEF Sound, TvState, Has, Live

\* Entering a source, once nothing plays, leaves the player alone.
LEMMA EnterSourceSound ==
    ASSUME NEW s, Sound(s), ~s.ts, NEW to \in RealSources \cup {"INVALID"},
           NEW r \in BOOLEAN
    PROVE  /\ Sound(EnterSource(s, to, r))
           /\ ~EnterSource(s, to, r).ts
           /\ EnterSource(s, to, r).player = s.player
           /\ EnterSource(s, to, r).src = to
<1> DEFINE d == StopDecoder([s EXCEPT !.src = to], r)
<1>1. Sound([s EXCEPT !.src = to])
  BY DEF Sound, TvState, Has, Live
<1>2. Sound(d) /\ ~d.ts /\ d.player = s.player /\ d.src = to
  BY <1>1, StopDecoderSound DEF Sound, TvState
<1> HIDE DEF d
<1>3. Sound([d EXCEPT !.port = FALSE])
  BY <1>2 DEF Sound, TvState, Has, Live
<1>4. Sound([Set(d, "IN_VDIN") EXCEPT !.port = TRUE])
  BY <1>2 DEF Sound, TvState, Has, Live, Set, Actions
<1>5. EnterSource(s, to, r) =
        IF to = "DTV" THEN [d EXCEPT !.port = FALSE]
        ELSE IF d.decoder THEN d
        ELSE [Set(d, "IN_VDIN") EXCEPT !.port = TRUE]
  BY DEF d, EnterSource
<1> QED
  BY <1>2, <1>3, <1>4, <1>5 DEF Sound, TvState, Set

\* A start registers its player on members where nothing plays.
LEMMA GetPlayerSound ==
    ASSUME NEW s, Sound(s), NEW p \in Players
    PROVE  /\ Sound(GetPlayer(s, p))
           /\ GetPlayer(s, p).player = p
           /\ ~GetPlayer(s, p).ts /\ ~GetPlayer(s, p).shift
<1>1. /\ Sound(ReleasePlayer(s))
      /\ ReleasePlayer(s).player = "none"
      /\ ~ReleasePlayer(s).ts /\ ~ReleasePlayer(s).shift
  BY ReleasePlayerSound
<1> QED
  BY <1>1 DEF GetPlayer, Sound, TvState, Has, Live

-----------------------------------------------------------------------------
(* IInv is inductive.  First the part of a step that switches the source. *)

\* A switch that has just taken its parameters is one the invariant admits.
LEMMA BeginSwitchSound ==
    ASSUME NEW s, Sound(s), NEW to \in RealSources, NEW then \in Starts,
           then \in {"live", "shift"} => s.player = "dtv" /\ to = "DTV",
           then = "atv" => s.player = "atv",
           BeginSwitch(s, to, then)
    PROVE  Sound(tv') /\ busy' \in Busy /\ BusyInv'
<1>1. CASE to = s.src
  <2>1. tv' = s /\ busy' \in Busy
    BY <1>1 DEF BeginSwitch, Busy, Free, Steps, Starts
  <2>2. /\ busy'.op # "switch"
        /\ busy'.op = "play" => busy'.then = then
    BY <1>1 DEF BeginSwitch, Free
  <2> QED
    BY <1>1, <2>1, <2>2 DEF BusyInv
<1>2. CASE to # s.src
  <2>1. tv' = LeaveSource(s, to) /\ busy' = [op |-> "switch", to |-> to,
                                             then |-> then]
    BY <1>2 DEF BeginSwitch
  <2> QED
    BY <2>1, LeaveSourceSound DEF BusyInv, Busy, Steps
<1> QED
  BY <1>1, <1>2

\* The TV object as constructed is in the invariant.
LEMMA InitIInv == Init => IInv
BY SourcesAssumption
DEF Init, IInv, TypeOK, Sound, BusyInv, TvState, Busy, Free, Message, Idle,
    Steps, Starts, Kinds, Actions, Players, Scans, Has, Live, RealSources

\* While mLock is free BusyInv asks nothing.
LEMMA FreeStep ==
    ASSUME IInv, busy = Free, UNCHANGED <<busy, queue, handler>>, Sound(tv')
    PROVE  IInv'
BY DEF IInv, TypeOK, Sound, BusyInv, Free

\* Each step of a source switch keeps the invariant.
LEMMA SwitchIInv ==
    ASSUME IInv
    PROVE  /\ \A to \in Sources : SetSourceSwitchInput(to) => IInv'
           /\ SetSourceAdtv => IInv'
           /\ \A v \in BOOLEAN, to \in Sources :
                 SetSourceSwitchInputExt(v, to) => IInv'
           /\ FinishSwitch => IInv'
<1>0. Sound(tv)
  BY DEF IInv
<1>1. ASSUME NEW to \in Sources, SetSourceSwitchInput(to) PROVE IInv'
  <2> DEFINE s == ReleaseOnEnter(tv, to \in {"TV", "DTV"})
             t == [s EXCEPT !.adtv = FALSE]
  <2>1. Sound(s)
    BY <1>0, ReleasePlayerSound DEF ReleaseOnEnter
  <2>2. BeginSwitch(t, to, "return")
    BY <1>1 DEF SetSourceSwitchInput
  <2> HIDE DEF s
  <2>3. Sound(t)
    BY <2>1 DEF Sound, TvState, Has, Live
  <2> HIDE DEF t
  <2> QED
    BY <1>1, <2>2, <2>3, BeginSwitchSound, SourcesAssumption
    DEF SetSourceSwitchInput, IInv, TypeOK, Starts, Sound
<1>2. ASSUME SetSourceAdtv PROVE IInv'
  <2>1. Sound([tv EXCEPT !.adtv = TRUE])
    BY <1>0 DEF Sound, TvState, Has, Live
  <2> QED
    BY <1>2, <2>1, FreeStep DEF SetSourceAdtv
<1>3. ASSUME NEW v \in BOOLEAN, NEW to \in Sources,
             SetSourceSwitchInputExt(v, to)
      PROVE IInv'
  <2> DEFINE t == [tv EXCEPT !.adtv = v]
  <2>1. Sound(t)
    BY <1>0 DEF Sound, TvState, Has, Live
  <2>2. BeginSwitch(t, to, "return")
    BY <1>3 DEF SetSourceSwitchInputExt
  <2> HIDE DEF t
  <2> QED
    BY <1>3, <2>1, <2>2, BeginSwitchSound, SourcesAssumption
    DEF SetSourceSwitchInputExt, IInv, TypeOK, Starts, Sound
<1>4. ASSUME FinishSwitch PROVE IInv'
  <2>1. PICK r \in Refusals : tv' = EnterSource(tv, busy.to, r)
    BY <1>4 DEF FinishSwitch
  <2>2. /\ Sound(tv') /\ ~tv'.ts /\ tv'.player = tv.player
        /\ tv'.src = busy.to
    BY <1>0, <1>4, <2>1, EnterSourceSound, RefusalsAssumption
    DEF IInv, TypeOK, BusyInv, Busy, FinishSwitch
  <2>3. busy' \in Busy /\ busy'.op # "switch"
        /\ (busy'.op = "play" => busy'.then = busy.then)
    BY <1>4 DEF FinishSwitch, IInv, TypeOK, Busy, Free, Steps, Starts
  <2> QED
    BY <1>4, <2>2, <2>3 DEF FinishSwitch, IInv, TypeOK, BusyInv, Sound
<1> QED
  BY <1>1, <1>2, <1>3, <1>4

\* The starts and stops of the players.
LEMMA PlayIInv ==
    ASSUME IInv
    PROVE  /\ StartRefused => IInv'
           /\ \A then \in {"live", "shift"} : StartDtv(then) => IInv'
           /\ \A ok \in BOOLEAN : StartRecord(ok) => IInv'
           /\ StartAtv => IInv'
           /\ \A ok \in BOOLEAN : PlayLive(ok) => IInv'
           /\ \A ok \in BOOLEAN : PlayShift(ok) => IInv'
           /\ PlayAtv => IInv'
           /\ PausePlay => IInv'
           /\ StopPlay => IInv'
<1>0. Sound(tv)
  BY DEF IInv
<1>d. /\ Sound(GetPlayer(tv, "dtv"))
      /\ GetPlayer(tv, "dtv").player = "dtv"
  BY <1>0, GetPlayerSound DEF Players
<1>a. /\ Sound(GetPlayer(tv, "atv"))
      /\ GetPlayer(tv, "atv").player = "atv"
  BY <1>0, GetPlayerSound DEF Players
<1>1. ASSUME StartRefused PROVE IInv'
  BY <1>1, <1>d, FreeStep DEF StartRefused
<1>2. ASSUME NEW then \in {"live", "shift"}, StartDtv(then) PROVE IInv'
  <2>1. Sound(tv') /\ busy' \in Busy /\ BusyInv'
    BY <1>2, <1>d, BeginSwitchSound DEF StartDtv, RealSources, Starts
  <2> QED
    BY <1>2, <2>1 DEF StartDtv, IInv, TypeOK, Sound
<1>3. ASSUME NEW ok \in BOOLEAN, StartRecord(ok) PROVE IInv'
  <2> DEFINE g == GetPlayer(tv, "dtv")
  <2>1. tv' = [Set(g, "PLAYING") EXCEPT !.shift = ok]
    BY <1>3 DEF StartRecord
  <2> HIDE DEF g
  <2>2. Sound(g) /\ g.player = "dtv"
    BY <1>d DEF g
  <2>3. Sound(tv')
    BY <2>1, <2>2 DEF Sound, TvState, Has, Live, Set, Actions
  <2> QED
    BY <1>3, <2>3, FreeStep DEF StartRecord
<1>4. ASSUME StartAtv PROVE IInv'
  <2>1. Sound(tv') /\ busy' \in Busy /\ BusyInv'
    BY <1>4, <1>a, BeginSwitchSound DEF StartAtv, RealSources, Starts
  <2> QED
    BY <1>4, <2>1 DEF StartAtv, IInv, TypeOK, Sound
<1>5. ASSUME NEW ok \in BOOLEAN, PlayLive(ok) PROVE IInv'
  <2>1. tv.player = "dtv" /\ tv.src = "DTV"
    BY <1>5 DEF PlayLive, IInv, BusyInv
  <2>2. Sound(tv')
    BY <1>0, <1>5, <2>1
    DEF PlayLive, Sound, TvState, Has, Live, Set, Actions
  <2> QED
    BY <1>5, <2>2
    DEF PlayLive, IInv, TypeOK, BusyInv, Busy, Free, Sound, Steps, Starts
<1>6. ASSUME NEW ok \in BOOLEAN, PlayShift(ok) PROVE IInv'
  <2>1. tv.player = "dtv" /\ tv.src = "DTV"
    BY <1>6 DEF PlayShift, IInv, BusyInv
  <2>2. Sound(tv') /\ tv'.player = "dtv" /\ tv'.src = "DTV"
    BY <1>0, <1>6, <2>1
    DEF PlayShift, Sound, TvState, Has, Live, Set, Actions
  <2>3. busy' \in Busy /\ busy'.op # "switch" /\ busy'.then # "atv"
    BY <1>6 DEF PlayShift, IInv, TypeOK, Busy, Free, Steps, Starts
  <2> QED
    BY <1>6, <2>2, <2>3 DEF PlayShift, IInv, TypeOK, BusyInv, Sound
<1>7. ASSUME PlayAtv PROVE IInv'
  <2> DEFINE t == Set(Set(tv, "IN_VDIN"), "PLAYING")
  <2>1. PICK r \in Refusals : tv' = [StopDecoder(t, r) EXCEPT !.fe = TRUE]
    BY <1>7 DEF PlayAtv
  <2>2. tv.player = "atv"
    BY <1>7 DEF PlayAtv, IInv, BusyInv
  <2>3. Sound(t)
    BY <1>0, <2>2 DEF Sound, TvState, Has, Live, Set, Actions
  <2> HIDE DEF t
  <2>4. Sound(StopDecoder(t, r))
    BY <2>3, StopDecoderSound, RefusalsAssumption
  <2>5. Sound(tv')
    BY <2>1, <2>4 DEF Sound, TvState, Has, Live
  <2> QED
    BY <1>7, <2>5
    DEF PlayAtv, IInv, TypeOK, BusyInv, Busy, Free, Sound, Steps, Starts
<1>8. ASSUME PausePlay PROVE IInv'
  <2>1. Sound(tv')
    BY <1>0, <1>8 DEF PausePlay, Sound, TvState, Has, Live
  <2> QED
    BY <1>8, <2>1, FreeStep DEF PausePlay
<1>9. ASSUME StopPlay PROVE IInv'
  BY <1>0, <1>9, ReleasePlayerSound, FreeStep DEF StopPlay
<1> QED
  BY <1>1, <1>2, <1>3, <1>4, <1>5, <1>6, <1>7, <1>8, <1>9

\* Scanning.  OperateDeviceForScan, which takes no lock, only opens the tuner.
LEMMA ScanningIInv ==
    ASSUME IInv
    PROVE  /\ \A ok \in BOOLEAN : Scan(ok) => IInv'
           /\ \A ok \in BOOLEAN : DtvScan(ok) => IInv'
           /\ \A ok \in BOOLEAN : AtvAutoScan(ok) => IInv'
           /\ AtvAutoScanBadRange => IInv'
           /\ \A ok \in BOOLEAN : AtvManualScan(ok) => IInv'
           /\ StopScanLock => IInv'
           /\ OperateDeviceForScan => IInv'
<1>0. Sound(tv)
  BY DEF IInv
<1> DEFINE t == Set(tv, "SCANNING")
<1>t. Sound(t)
  BY <1>0 DEF Sound, TvState, Has, Live, Set, Actions
<1>f. Has(t, "SCANNING") /\ t.src = tv.src
  BY <1>0 DEF Has, Set, Sound, TvState
<1> HIDE DEF t
<1>1. ASSUME NEW ok \in BOOLEAN, Scan(ok) PROVE IInv'
  <2>1. PICK r \in Refusals :
          tv' = StartScanner([StopDecoder(t, r) EXCEPT !.src = "INVALID",
                                !.ts = FALSE, !.fe = TRUE], "unified", ok)
    BY <1>1 DEF Scan, t
  <2> DEFINE d == StopDecoder(t, r)
  <2>2. Sound(d) /\ Has(d, "SCANNING")
    BY <1>t, <1>f, StopDecoderSound, RefusalsAssumption
    DEF Has, Sound, TvState
  <2> HIDE DEF d
  <2>3. Sound(tv')
    BY ZenonT(60), <2>1, <2>2
       DEF d, StartScanner, Sound, TvState, Has, Live, Scans
  <2> QED
    BY <1>1, <2>3, FreeStep DEF Scan
<1>2. ASSUME NEW ok \in BOOLEAN, DtvScan(ok) PROVE IInv'
  <2>1. tv' = StartScanner([t EXCEPT !.ts = FALSE], "dtv", ok)
    BY <1>2 DEF DtvScan, t
  <2>2. Sound(tv')
    BY <2>1, <1>t, <1>f DEF StartScanner, Sound, TvState, Has, Live, Scans
  <2> QED
    BY <1>2, <2>2, FreeStep DEF DtvScan
<1>p. Sound(StopPlaying(t)) /\ Has(StopPlaying(t), "SCANNING")
  <2>1. Sound(StopPlaying(t))
    BY <1>t, StopPlayingSound
  <2>2. StopPlaying(t).action \in {t.action, t.action \ {"PLAYING"}}
    BY <1>t DEF StopPlaying, Clear, Sound, TvState
  <2> QED
    BY <1>f, <2>1, <2>2 DEF Has
<1>3. ASSUME NEW ok \in BOOLEAN, AtvAutoScan(ok) PROVE IInv'
  <2> DEFINE s == StopPlaying(t)
  <2>1. PICK r \in Refusals :
          tv' = StartScanner([IF DisplaySnow THEN s ELSE StopDecoder(s, r)
                                EXCEPT !.port = TRUE], "atv", ok)
    BY <1>3 DEF AtvAutoScan, t
  <2> DEFINE d == IF DisplaySnow THEN s ELSE StopDecoder(s, r)
  <2> HIDE DEF s
  <2>2. Sound(d) /\ Has(d, "SCANNING")
    BY <1>p, StopDecoderSound, RefusalsAssumption DEF s, Has, Sound, TvState
  <2> HIDE DEF d
  <2>3. Sound(tv')
    BY ZenonT(60), <2>1, <2>2
       DEF d, StartScanner, Sound, TvState, Has, Live, Scans
  <2> QED
    BY <1>3, <2>3, FreeStep DEF AtvAutoScan
<1>4. ASSUME AtvAutoScanBadRange PROVE IInv'
  BY <1>4, <1>p, FreeStep DEF AtvAutoScanBadRange, t
<1>5. ASSUME NEW ok \in BOOLEAN, AtvManualScan(ok) PROVE IInv'
  <2>1. tv' = StartScanner([t EXCEPT !.port = TRUE], "atv", ok)
    BY <1>5 DEF AtvManualScan, t
  <2>2. Sound(tv')
    BY <2>1, <1>t, <1>f DEF StartScanner, Sound, TvState, Has, Live, Scans
  <2> QED
    BY <1>5, <2>2, FreeStep DEF AtvManualScan
<1>6. ASSUME StopScanLock PROVE IInv'
  BY <1>0, <1>6, StopScanSound, FreeStep, RefusalsAssumption DEF StopScanLock
<1>7. ASSUME OperateDeviceForScan PROVE IInv'
  <2>1. Sound(tv') /\ tv'.ts = tv.ts /\ tv'.player = tv.player
        /\ tv'.src = tv.src
    BY <1>0, <1>7 DEF OperateDeviceForScan, Sound, TvState, Has, Live
  <2> QED
    BY <1>7, <2>1 DEF OperateDeviceForScan, IInv, TypeOK, BusyInv, Sound
<1> QED
  BY <1>1, <1>2, <1>3, <1>4, <1>5, <1>6, <1>7

\* The tuner, and StopTvLock.
LEMMA TunerIInv ==
    ASSUME IInv
    PROVE  /\ SetFrontEndAnalog => IInv'
           /\ SetFrontEndDigital => IInv'
           /\ BeginStopTv => IInv'
           /\ FinishStopTv => IInv'
<1>0. Sound(tv)
  BY DEF IInv
<1>1. ASSUME SetFrontEndAnalog PROVE IInv'
  <2> DEFINE p == StopPlaying(tv)
             s == IF tv.src = "DTV" THEN Set(p, "IN_VDIN") ELSE tv
  <2>1. PICK r \in Refusals : tv' = [StopDecoder(s, r) EXCEPT !.fe = TRUE]
    BY <1>1 DEF SetFrontEndAnalog
  <2>2. Sound(p)
    BY <1>0, StopPlayingSound
  <2> HIDE DEF p
  <2>3. Sound(s)
    BY <1>0, <2>2 DEF Sound, TvState, Has, Live, Set, Actions
  <2> HIDE DEF s
  <2>4. Sound(StopDecoder(s, r))
    BY <2>3, StopDecoderSound, RefusalsAssumption
  <2>5. Sound(tv')
    BY <2>1, <2>4 DEF Sound, TvState, Has, Live
  <2> QED
    BY <1>1, <2>5, FreeStep DEF SetFrontEndAnalog
<1>2. ASSUME SetFrontEndDigital PROVE IInv'
  <2> DEFINE c == Clear(tv, "IN_VDIN")
  <2>1. PICK r \in Refusals :
          tv' = [IF tv.adtv /\ tv.src = "TV"
                 THEN [StopDecoder(c, r) EXCEPT !.port = FALSE]
                 ELSE tv EXCEPT !.fe = TRUE]
    BY <1>2 DEF SetFrontEndDigital
  <2>2. Sound(c)
    BY <1>0 DEF Sound, TvState, Has, Live, Clear
  <2> HIDE DEF c
  <2> DEFINE d == StopDecoder(c, r)
  <2>3. Sound(d)
    BY <2>2, StopDecoderSound, RefusalsAssumption
  <2> HIDE DEF d
  <2>4. Sound(tv')
    BY ZenonT(60), <1>0, <2>1, <2>3 DEF d, Sound, TvState, Has, Live
  <2> QED
    BY <1>2, <2>4, FreeStep DEF SetFrontEndDigital
<1>3. ASSUME BeginStopTv PROVE IInv'
  <2>1. Sound(tv')
    BY <1>0, <1>3 DEF BeginStopTv, Sound, TvState, Has, Live, Set, Actions
  <2> QED
    BY <1>3, <2>1
    DEF BeginStopTv, IInv, TypeOK, BusyInv, Busy, Free, Sound, Steps, Starts
<1>4. ASSUME FinishStopTv PROVE IInv'
  <2> DEFINE p == StopPlaying(ReleaseOnExit(tv))
  <2>1. PICK r \in Refusals :
          tv' = [Clear(StopScan(Clear([StopDecoder(p, r) EXCEPT
                          !.port = FALSE], "IN_VDIN"), r), "STOPING")
                    EXCEPT !.src = "INVALID", !.adtv = FALSE, !.fe = FALSE]
    BY <1>4 DEF FinishStopTv
  <2>2. Sound(p) /\ ~p.ts /\ ~Has(p, "PLAYING")
    BY <1>0, ReleasePlayerSound, StopPlayingSound DEF ReleaseOnExit
  <2> HIDE DEF p
  <2> DEFINE d == StopDecoder(p, r)
             c == Clear([d EXCEPT !.port = FALSE], "IN_VDIN")
             q == StopScan(c, r)
  <2>3. Sound(d) /\ ~d.ts /\ ~Has(d, "PLAYING")
    BY <2>2, StopDecoderSound, RefusalsAssumption DEF Sound, TvState, Has
  <2> HIDE DEF d
  <2>4. Sound(c) /\ ~c.ts
    BY <2>3 DEF Sound, TvState, Has, Live, Clear
  <2> HIDE DEF c
  <2>5. Sound(q) /\ ~q.ts
    BY <2>4, StopScanSound, RefusalsAssumption
  <2> HIDE DEF q
  <2>6. Sound(tv')
    BY <2>1, <2>5 DEF q, c, d, Sound, TvState, Has, Live, Clear
  <2> QED
    BY <1>4, <2>6
    DEF FinishStopTv, IInv, TypeOK, BusyInv, Busy, Free, Sound, Steps, Starts
<1> QED
  BY <1>1, <1>2, <1>3, <1>4

\* The vdin poll thread.
LEMMA VdinIInv ==
    ASSUME IInv
    PROVE  /\ \A ok \in BOOLEAN : VdinStable(ok) => IInv'
           /\ VdinUnstable => IInv'
           /\ \A ok \in BOOLEAN : VdinLost(ok) => IInv'
<1>0. /\ Sound(tv)
      /\ \A r \in Refusals : Sound(StopDecoder(tv, r))
  BY StopDecoderSound, RefusalsAssumption DEF IInv
<1>1. ASSUME NEW ok \in BOOLEAN, VdinStable(ok) PROVE IInv'
  <2>1. PICK r \in Refusals, snow \in BOOLEAN :
          tv' = [IF OnAnalogSnow /\ snow THEN StopDecoder(tv, r) ELSE tv
                    EXCEPT !.decoder = @ \/ ok]
    BY <1>1 DEF VdinStable
  <2> DEFINE d == IF OnAnalogSnow /\ snow THEN StopDecoder(tv, r) ELSE tv
  <2>2. Sound(d)
    BY <1>0
  <2> HIDE DEF d
  <2>3. tv' = [d EXCEPT !.decoder = d.decoder \/ ok]
    BY <2>1 DEF d
  <2>4. Sound(tv')
    BY <2>2, <2>3 DEF Sound, TvState, Has, Live
  <2> QED
    BY <1>1, <2>4, FreeStep DEF VdinStable
<1>2. ASSUME VdinUnstable PROVE IInv'
  BY <1>0, <1>2, FreeStep DEF VdinUnstable
<1>3. ASSUME NEW ok \in BOOLEAN, VdinLost(ok) PROVE IInv'
  <2>1. Sound([tv EXCEPT !.decoder = tv.decoder \/ ok])
    BY <1>0 DEF Sound, TvState, Has, Live
  <2> QED
    BY <1>0, <1>3, <2>1, FreeStep DEF VdinLost
<1> QED
  BY <1>1, <1>2, <1>3

\* The message thread and the callbacks only move messages.
LEMMA MessageIInv ==
    ASSUME IInv
    PROVE  /\ \A k \in Kinds : Raise(k) => IInv'
           /\ CheckEvent => IInv'
           /\ SendTvEvent => IInv'
<1>1. ASSUME NEW k \in Kinds, Raise(k) PROVE IInv'
  <2>1. queue' \in Seq(Message)
    BY <1>1 DEF Raise, IInv, TypeOK, Message, Live, Has
  <2> QED
    BY <1>1, <2>1 DEF Raise, IInv, TypeOK, BusyInv
<1>2. ASSUME CheckEvent PROVE IInv'
  <2>1. Head(queue) \in Message /\ queue' \in Seq(Message)
    BY <1>2 DEF CheckEvent, IInv, TypeOK
  <2>2. Idle \in [pc : {"idle", "deliver"}, msg : Message]
    BY DEF Idle, Message, Kinds
  <2> QED
    BY <1>2, <2>1, <2>2 DEF CheckEvent, IInv, TypeOK, BusyInv
<1>3. ASSUME SendTvEvent PROVE IInv'
  BY <1>3 DEF SendTvEvent, IInv, TypeOK, BusyInv, Idle, Message, Kinds
<1> QED
  BY <1>1, <1>2, <1>3

\* Every step of the specification keeps the invariant.
LEMMA StepIInv == IInv /\ [Next]_vars => IInv'
<1> SUFFICES ASSUME IInv, [Next]_vars PROVE IInv'
  OBVIOUS
<1>1. CASE ClientCall
  BY <1>1, SwitchIInv, PlayIInv, ScanningIInv, TunerIInv DEF ClientCall
<1>2. CASE VdinEvent
  BY <1>2, VdinIInv DEF VdinEvent
<1>3. CASE MessageThread \/ \E k \in Kinds : Raise(k)
  BY <1>3, MessageIInv DEF MessageThread
<1>4. CASE UNCHANGED vars
  BY <1>4 DEF vars, IInv, TypeOK, BusyInv
<1> QED
  BY <1>1, <1>2, <1>3, <1>4 DEF Next

-----------------------------------------------------------------------------
(* The theorems. *)

\* The inductive invariant holds in every reachable state, whatever the driver
\* does.
THEOREM InvariantHolds == Spec => []IInv
  BY InitIInv, StepIInv, PTL DEF Spec

\* Type correctness of CTv's members, of the call in progress and of the
\* messages.
THEOREM TypeCorrect == Spec => []TypeOK
<1>1. IInv => TypeOK
  BY DEF IInv
<1> QED
  BY <1>1, InvariantHolds, PTL

\* Transport-stream playback runs only on the DTV source, marked PLAYING, and
\* belongs to a DTV player.
THEOREM TsStaysOnDtv == Spec => []TsOnlyOnDtv
<1>1. IInv => TsOnlyOnDtv
  BY DEF IInv, Sound, TsOnlyOnDtv
<1> QED
  BY <1>1, InvariantHolds, PTL

\* Nothing plays without a registered player to stop it.
THEOREM PlaybackIsOwned == Spec => []NoOrphanPlayback
<1>1. IInv => NoOrphanPlayback
  BY DEF IInv, Sound, NoOrphanPlayback
<1> QED
  BY <1>1, InvariantHolds, PTL

\* The scanner runs only while SCANNING is set.
THEOREM ScannerStaysFlagged == Spec => []ScannerIsFlagged
<1>1. IInv => ScannerIsFlagged
  BY DEF IInv, Sound, ScannerIsFlagged
<1> QED
  BY <1>1, InvariantHolds, PTL

-----------------------------------------------------------------------------
(* The decoder, when the driver obeys.  Steps that set neither decoder nor  *)
(* scanner, and clear no IN_VDIN, keep DecoderInv by themselves.            *)

\* Both flags a step may lose without harm are the playback's.
Keeps(s, t) ==
    /\ t.decoder => s.decoder
    /\ t.scanner \in {s.scanner, "off"}
    /\ Has(s, "IN_VDIN") => Has(t, "IN_VDIN")

\* A change that leaves the four flags the decoder is judged by alone keeps DecoderInv.
LEMMA KeepsDecoderInv ==
    ASSUME NEW s, NEW t, DecoderInv(s), Keeps(s, t)
    PROVE  DecoderInv(t)
BY DEF DecoderInv, Keeps

\* stopPlaying leaves those four as the decoder needs them.
LEMMA StopPlayingKeeps ==
    ASSUME NEW s, Sound(s)
    PROVE  Keeps(s, StopPlaying(s))
BY DEF Keeps, StopPlaying, Sound, TvState, Has, Clear

\* Releasing the player leaves them so too.
LEMMA ReleasePlayerKeeps ==
    ASSUME NEW s, Sound(s)
    PROVE  Keeps(s, ReleasePlayer(s))
<1> DEFINE p == StopPlaying(s)
<1>1. Sound(p) /\ Keeps(s, p)
  BY StopPlayingSound, StopPlayingKeeps
<1>2. ReleasePlayer(s) =
        IF s.player = "none" THEN s
        ELSE [p EXCEPT !.player = "none", !.shift = p.shift /\ s.player # "dtv"]
  BY DEF ReleasePlayer
<1> HIDE DEF p
<1> QED
  BY <1>1, <1>2 DEF Keeps, Sound, TvState, Has

\* Leaving a source leaves them so too.
LEMMA LeaveSourceKeeps ==
    ASSUME NEW s, Sound(s), NEW to
    PROVE  Keeps(s, LeaveSource(s, to))
<1> DEFINE p == StopPlaying(s)
<1>1. Sound(p) /\ Keeps(s, p)
  BY StopPlayingSound, StopPlayingKeeps
<1>2. LeaveSource(s, to) = [p EXCEPT !.fe = to \in {"TV", "DTV"}]
  BY DEF LeaveSource
<1> HIDE DEF p
<1> QED
  BY <1>1, <1>2 DEF Keeps, Sound, TvState, Has

\* With obedient hardware, stopping the decoder clears its flag.
LEMMA StopDecoderObeys ==
    ASSUME Obeys, NEW s, Sound(s), NEW r \in Refusals
    PROVE  StopDecoder(s, r) = [s EXCEPT !.decoder = FALSE]
BY DEF Obeys, StopDecoder, Sound, TvState

\* StopTvLock, from its tryReleasePlayer to its end.
LEMMA FinishStopTvReleases ==
    ASSUME Obeys, IInv, FinishStopTv
    PROVE  Released(tv')
<1> DEFINE p == StopPlaying(ReleaseOnExit(tv))
<1>1. PICK r \in Refusals :
        tv' = [Clear(StopScan(Clear([StopDecoder(p, r) EXCEPT
                        !.port = FALSE], "IN_VDIN"), r), "STOPING")
                  EXCEPT !.src = "INVALID", !.adtv = FALSE, !.fe = FALSE]
  BY DEF FinishStopTv
<1>2. Sound(p) /\ ~p.ts /\ ~Has(p, "PLAYING")
  BY ReleasePlayerSound, StopPlayingSound DEF ReleaseOnExit, IInv
<1> HIDE DEF p
<1> DEFINE c == Clear([[p EXCEPT !.decoder = FALSE] EXCEPT !.port = FALSE],
                      "IN_VDIN")
           q == StopScan(c, r)
<1>3. /\ Sound(c) /\ ~c.ts /\ ~c.decoder /\ ~c.port
      /\ c.action \subseteq {"STOPING", "SCANNING"}
  BY <1>2 DEF Sound, TvState, Has, Live, Clear, Actions
<1>4. tv' = [Clear(q, "STOPING")
                EXCEPT !.src = "INVALID", !.adtv = FALSE, !.fe = FALSE]
  BY <1>1, <1>2, StopDecoderObeys
<1> HIDE DEF c
<1>5. /\ Sound(q) /\ ~q.ts /\ ~q.decoder /\ ~q.port
      /\ q.scanner = "off"
      /\ q.action = c.action \ {"SCANNING"}
  BY <1>3, StopScanSound, RefusalsAssumption
<1> HIDE DEF q
<1> QED
  BY <1>3, <1>4, <1>5 DEF Released, Clear, Sound, TvState

\* Every client call keeps DecoderInv.
LEMMA ClientKeepsDecoderInv ==
    ASSUME Obeys, IInv, DecoderInv(tv), ClientCall
    PROVE  DecoderInv(tv')
<1>0. Sound(tv)
  BY DEF IInv
<1>d. \A s : Sound(s) => \A r \in Refusals :
          StopDecoder(s, r) = [s EXCEPT !.decoder = FALSE]
  BY StopDecoderObeys
<1>g. ASSUME NEW p \in Players
      PROVE  Sound(GetPlayer(tv, p)) /\ DecoderInv(GetPlayer(tv, p))
  <2> DEFINE q == ReleasePlayer(tv)
  <2>1. Sound(q) /\ DecoderInv(q)
    BY <1>0, ReleasePlayerSound, ReleasePlayerKeeps, KeepsDecoderInv
  <2>2. GetPlayer(tv, p) = [q EXCEPT !.player = p]
    BY DEF GetPlayer
  <2> HIDE DEF q
  <2>3. DecoderInv(GetPlayer(tv, p))
    BY <2>1, <2>2 DEF DecoderInv, Sound, TvState, Has
  <2> QED
    BY <1>0, <2>3, GetPlayerSound
<1>b. ASSUME NEW s, Sound(s), DecoderInv(s), NEW to, NEW then,
             BeginSwitch(s, to, then)
      PROVE  DecoderInv(tv')
  BY <1>b, LeaveSourceKeeps, KeepsDecoderInv DEF BeginSwitch
<1>1. ASSUME NEW to \in Sources, SetSourceSwitchInput(to)
      PROVE  DecoderInv(tv')
  <2> DEFINE s == ReleaseOnEnter(tv, to \in {"TV", "DTV"})
             t == [s EXCEPT !.adtv = FALSE]
  <2>1. Sound(s) /\ DecoderInv(s)
    BY <1>0, ReleasePlayerSound, ReleasePlayerKeeps, KeepsDecoderInv
    DEF ReleaseOnEnter
  <2>2. BeginSwitch(t, to, "return")
    BY <1>1 DEF SetSourceSwitchInput
  <2> HIDE DEF s
  <2>3. Sound(t) /\ DecoderInv(t)
    BY <2>1 DEF Sound, DecoderInv, TvState, Has, Live
  <2> HIDE DEF t
  <2> QED
    BY <1>b, <2>2, <2>3
<1>2. ASSUME NEW v \in BOOLEAN, NEW to \in Sources,
             SetSourceSwitchInputExt(v, to)
      PROVE  DecoderInv(tv')
  <2> DEFINE t == [tv EXCEPT !.adtv = v]
  <2>1. Sound(t) /\ DecoderInv(t)
    BY <1>0 DEF Sound, DecoderInv, TvState, Has, Live
  <2>2. BeginSwitch(t, to, "return")
    BY <1>2 DEF SetSourceSwitchInputExt
  <2> HIDE DEF t
  <2> QED
    BY <1>b, <2>1, <2>2
<1>3. CASE FinishSwitch
  <2>1. PICK r \in Refusals : tv' = EnterSource(tv, busy.to, r)
    BY <1>3 DEF FinishSwitch
  <2> DEFINE s == [tv EXCEPT !.src = busy.to]
             d == [s EXCEPT !.decoder = FALSE]
  <2>2. ~tv.ts
    BY <1>3 DEF IInv, BusyInv, FinishSwitch
  <2>3. Sound(s) /\ s.action = tv.action /\ s.scanner = tv.scanner
    BY <1>0, <2>2 DEF IInv, TypeOK, Busy, Sound, TvState, Has, Live
  <2>4. tv' = IF busy.to = "DTV" THEN [d EXCEPT !.port = FALSE]
              ELSE IF d.decoder THEN d
              ELSE [Set(d, "IN_VDIN") EXCEPT !.port = TRUE]
    BY <1>d, <2>1, <2>3 DEF EnterSource
  <2> HIDE DEF s
  <2> QED
    BY <2>3, <2>4 DEF DecoderInv, Sound, TvState, Set
<1>4. CASE SetSourceAdtv \/ PausePlay \/ OperateDeviceForScan \/ BeginStopTv
           \/ \E ok \in BOOLEAN : PlayLive(ok) \/ PlayShift(ok)
  <2>1. CASE SetSourceAdtv \/ PausePlay \/ OperateDeviceForScan
    BY <1>0, <2>1 DEF SetSourceAdtv, PausePlay, OperateDeviceForScan,
                      DecoderInv, Sound, TvState, Has
  <2>2. CASE BeginStopTv
    BY <1>0, <2>2 DEF BeginStopTv, DecoderInv, Sound, TvState, Has, Set
  <2>3. ASSUME NEW ok \in BOOLEAN, PlayLive(ok) \/ PlayShift(ok)
        PROVE  DecoderInv(tv')
    <3> DEFINE s == Set(tv, "PLAYING")
    <3>1. s \in TvState /\ DecoderInv(s)
      BY <1>0 DEF DecoderInv, Sound, TvState, Has, Set, Actions
    <3>2. \/ tv' = [s EXCEPT !.fe = TRUE, !.ts = ok]
          \/ tv' = [s EXCEPT !.fe = TRUE, !.shift = ok]
      BY <2>3 DEF PlayLive, PlayShift
    <3> HIDE DEF s
    <3> QED
      BY <3>1, <3>2 DEF DecoderInv, TvState, Has
  <2> QED
    BY <1>4, <2>1, <2>2, <2>3
<1>5. CASE StartRefused \/ StartAtv \/ (\E then \in {"live", "shift"} : StartDtv(then))
  BY <1>5, <1>g, <1>b DEF StartRefused, StartAtv, StartDtv, Players
<1>6. ASSUME NEW ok \in BOOLEAN, StartRecord(ok)
      PROVE  DecoderInv(tv')
  <2> DEFINE g == GetPlayer(tv, "dtv")
  <2>1. Sound(g) /\ DecoderInv(g)
    BY <1>g DEF Players
  <2>2. tv' = [Set(g, "PLAYING") EXCEPT !.shift = ok]
    BY <1>6 DEF StartRecord
  <2> HIDE DEF g
  <2> QED
    BY <2>1, <2>2 DEF DecoderInv, Sound, TvState, Has, Set
<1>7. CASE PlayAtv
  <2> DEFINE t == Set(Set(tv, "IN_VDIN"), "PLAYING")
  <2>1. PICK r \in Refusals : tv' = [StopDecoder(t, r) EXCEPT !.fe = TRUE]
    BY <1>7 DEF PlayAtv
  <2>2. Sound(t)
    <3>1. tv.player = "atv"
      BY <1>7 DEF PlayAtv, IInv, BusyInv
    <3> QED
      BY <1>0, <3>1 DEF Sound, TvState, Has, Live, Set, Actions
  <2> HIDE DEF t
  <2>3. tv' = [[t EXCEPT !.decoder = FALSE] EXCEPT !.fe = TRUE]
    BY <1>d, <2>1, <2>2
  <2> QED
    BY <2>2, <2>3 DEF DecoderInv, Sound, TvState
<1>8. CASE StopPlay
  BY <1>0, <1>8, ReleasePlayerKeeps, KeepsDecoderInv DEF StopPlay
<1> DEFINE t == Set(tv, "SCANNING")
<1>t. Sound(t) /\ DecoderInv(t)
  BY <1>0 DEF Sound, DecoderInv, TvState, Has, Live, Set, Actions
<1>p. Sound(StopPlaying(t)) /\ DecoderInv(StopPlaying(t))
  BY <1>t, StopPlayingSound, StopPlayingKeeps, KeepsDecoderInv
<1>9. ASSUME NEW ok \in BOOLEAN, Scan(ok)
      PROVE  DecoderInv(tv')
  <2>1. PICK r \in Refusals :
          tv' = StartScanner([StopDecoder(t, r) EXCEPT !.src = "INVALID",
                                !.ts = FALSE, !.fe = TRUE], "unified", ok)
    BY <1>9 DEF Scan
  <2> HIDE DEF t
  <2>2. tv' = StartScanner([[t EXCEPT !.decoder = FALSE] EXCEPT
                  !.src = "INVALID", !.ts = FALSE, !.fe = TRUE], "unified", ok)
    BY <1>d, <1>t, <2>1
  <2> QED
    BY <1>t, <2>2 DEF StartScanner, DecoderInv, Sound, TvState
<1>10. ASSUME NEW ok \in BOOLEAN, DtvScan(ok) \/ AtvManualScan(ok)
       PROVE  DecoderInv(tv')
  <2>1. \/ tv' = StartScanner([t EXCEPT !.ts = FALSE], "dtv", ok)
        \/ tv' = StartScanner([t EXCEPT !.port = TRUE], "atv", ok)
    BY <1>10 DEF DtvScan, AtvManualScan
  <2> HIDE DEF t
  <2> QED
    BY <1>t, <2>1 DEF StartScanner, DecoderInv, Sound, TvState, Has
<1>11. ASSUME NEW ok \in BOOLEAN, AtvAutoScan(ok)
       PROVE  DecoderInv(tv')
  <2> DEFINE s == StopPlaying(t)
             d == IF DisplaySnow THEN s ELSE [s EXCEPT !.decoder = FALSE]
  <2>1. Sound(s) /\ DecoderInv(s)
    BY <1>p
  <2>2. tv' = StartScanner([d EXCEPT !.port = TRUE], "atv", ok)
    BY <1>11, <1>d, <2>1 DEF AtvAutoScan
  <2> HIDE DEF s
  <2>3. d \in TvState /\ DecoderInv(d)
    BY <2>1 DEF DecoderInv, Sound, TvState, Has
  <2> HIDE DEF d
  <2> QED
    BY <2>2, <2>3 DEF StartScanner, DecoderInv, TvState, Has
<1>12. CASE AtvAutoScanBadRange
  BY <1>12, <1>p DEF AtvAutoScanBadRange
<1>13. CASE StopScanLock
  <2>1. PICK r \in Refusals : tv' = StopScan(tv, r)
    BY <1>13 DEF StopScanLock
  <2>2. /\ tv'.decoder => tv.decoder
        /\ tv'.scanner = "off"
        /\ tv'.action = tv.action \ {"SCANNING"}
    BY <1>0, <2>1, StopScanSound, RefusalsAssumption
  <2> QED
    BY <2>2 DEF DecoderInv, Has
<1>14. CASE SetFrontEndAnalog
  <2> DEFINE p == StopPlaying(tv)
             s == IF tv.src = "DTV" THEN Set(p, "IN_VDIN") ELSE tv
  <2>1. PICK r \in Refusals : tv' = [StopDecoder(s, r) EXCEPT !.fe = TRUE]
    BY <1>14 DEF SetFrontEndAnalog
  <2>2. Sound(p) /\ DecoderInv(p)
    BY <1>0, StopPlayingSound, StopPlayingKeeps, KeepsDecoderInv
  <2> HIDE DEF p
  <2>3. Sound(s) /\ DecoderInv(s)
    BY <1>0, <2>2
    DEF Sound, DecoderInv, TvState, Has, Live, Set, Actions
  <2> HIDE DEF s
  <2>4. tv' = [[s EXCEPT !.decoder = FALSE] EXCEPT !.fe = TRUE]
    BY <1>d, <2>1, <2>3
  <2> QED
    BY <2>3, <2>4 DEF Sound, DecoderInv, TvState
<1>15. CASE SetFrontEndDigital
  <2> DEFINE c == Clear(tv, "IN_VDIN")
  <2>1. Sound(c) /\ c.scanner = tv.scanner
    BY <1>0 DEF Sound, TvState, Has, Live, Clear
  <2>2. PICK r \in Refusals :
          tv' = [IF tv.adtv /\ tv.src = "TV"
                 THEN [StopDecoder(c, r) EXCEPT !.port = FALSE]
                 ELSE tv EXCEPT !.fe = TRUE]
    BY <1>15 DEF SetFrontEndDigital
  <2> HIDE DEF c
  <2>3. tv' = [IF tv.adtv /\ tv.src = "TV"
               THEN [[c EXCEPT !.decoder = FALSE] EXCEPT !.port = FALSE]
               ELSE tv EXCEPT !.fe = TRUE]
    BY <1>d, <2>1, <2>2
  <2> QED
    BY <1>0, <2>1, <2>3 DEF Sound, DecoderInv, TvState, Has
<1>16. CASE FinishStopTv
  BY <1>16, FinishStopTvReleases DEF DecoderInv, Released
<1> QED
  BY <1>1, <1>2, <1>3, <1>4, <1>5, <1>6, <1>7, <1>8, <1>9, <1>10, <1>11,
     <1>12, <1>13, <1>14, <1>15, <1>16
  DEF ClientCall

\* Every step keeps DecoderInv.
LEMMA StepDecoderInv ==
    Obeys /\ IInv /\ DecoderInv(tv) /\ [Next]_vars => DecoderInv(tv')
<1> SUFFICES ASSUME Obeys, IInv, DecoderInv(tv), [Next]_vars
             PROVE  DecoderInv(tv')
  OBVIOUS
<1>1. CASE ClientCall
  BY <1>1, ClientKeepsDecoderInv
<1>2. CASE VdinEvent
  <2>1. Has(tv, "IN_VDIN") /\ tv.scanner = "off"
    BY <1>2 DEF VdinEvent, VdinStable, VdinLost, VdinUnstable, WatchesVdin,
                IInv, Sound
  <2>2. \/ \E b \in BOOLEAN : tv' = [tv EXCEPT !.decoder = b]
        \/ \E b, c \in BOOLEAN :
              tv' = [[tv EXCEPT !.decoder = b] EXCEPT !.decoder = c]
    BY <1>2, StopDecoderObeys
    DEF VdinEvent, VdinStable, VdinLost, VdinUnstable, IInv, Sound, TvState
  <2> QED
    BY <2>1, <2>2 DEF DecoderInv, Has, IInv, Sound, TvState
<1>3. CASE UNCHANGED tv
  BY <1>3
<1> QED
  BY <1>1, <1>2, <1>3
  DEF Next, MessageThread, CheckEvent, SendTvEvent, Raise, vars

-----------------------------------------------------------------------------
(* The theorems about the decoder and about StopTvLock. *)

\* With a driver that obeys, the decoder is on only while IN_VDIN is set, so
\* that a loss of the signal reaches it.
THEOREM DecoderStaysFlagged ==
    ASSUME Obeys
    PROVE  Spec => []DecoderIsFlagged
<1>1. Init => DecoderInv(tv)
  BY DEF Init, DecoderInv
<1>2. IInv /\ DecoderInv(tv) /\ [Next]_vars => DecoderInv(tv)'
  BY StepDecoderInv
<1>3. DecoderInv(tv) => DecoderIsFlagged
  BY DEF DecoderInv, DecoderIsFlagged
<1> QED
  BY <1>1, <1>2, <1>3, InvariantHolds, PTL DEF Spec

\* With a driver that obeys, the decoder stays off for the whole of a scan of
\* all sources.
THEOREM ScanKeepsDecoderOff ==
    ASSUME Obeys
    PROVE  Spec => []NoDecoderInScan
<1>1. Init => DecoderInv(tv)
  BY DEF Init, DecoderInv
<1>2. IInv /\ DecoderInv(tv) /\ [Next]_vars => DecoderInv(tv)'
  BY StepDecoderInv
<1>3. DecoderInv(tv) => NoDecoderInScan
  BY DEF DecoderInv, NoDecoderInScan
<1> QED
  BY <1>1, <1>2, <1>3, InvariantHolds, PTL DEF Spec

\* With a driver that obeys, StopTvLock leaves nothing of the playback from the
\* tuner, the decoder, the port, the scanner and the tuner on, whatever state it
\* was called in.
THEOREM StopTvReleases ==
    ASSUME Obeys
    PROVE  Spec => StopReleases
<1>1. IInv /\ [Next]_vars
        => [busy.op = "stop" /\ busy'.op = "none" => Released(tv')]_vars
  <2> SUFFICES ASSUME IInv, Next, busy.op = "stop", busy'.op = "none"
               PROVE  Released(tv')
    OBVIOUS
  <2>0. busy # Free /\ busy' # busy
    BY DEF Free
  <2>1. CASE ClientCall
    <3>1. ~(\E to \in Sources : SetSourceSwitchInput(to))
      BY <2>0 DEF SetSourceSwitchInput
    <3>2. ~(\E v \in BOOLEAN, to \in Sources : SetSourceSwitchInputExt(v, to))
      BY <2>0 DEF SetSourceSwitchInputExt
    <3>3. ~(FinishSwitch \/ SetSourceAdtv)
      BY <2>0 DEF FinishSwitch, SetSourceAdtv
    <3>4. ~(\/ StartRefused \/ StartAtv \/ PausePlay \/ StopPlay
            \/ \E then \in {"live", "shift"} : StartDtv(then)
            \/ \E ok \in BOOLEAN : StartRecord(ok))
      BY <2>0 DEF StartRefused, StartAtv, PausePlay, StopPlay, StartDtv,
                  StartRecord
    <3>5. ~(PlayAtv \/ \E ok \in BOOLEAN : PlayLive(ok) \/ PlayShift(ok))
      BY DEF PlayAtv, PlayLive, PlayShift
    <3>6. ~(\E ok \in BOOLEAN : Scan(ok) \/ DtvScan(ok) \/ AtvAutoScan(ok)
                                  \/ AtvManualScan(ok))
      BY <2>0 DEF Scan, DtvScan, AtvAutoScan, AtvManualScan
    <3>7. ~(AtvAutoScanBadRange \/ StopScanLock \/ OperateDeviceForScan)
      BY <2>0 DEF AtvAutoScanBadRange, StopScanLock, OperateDeviceForScan
    <3>8. ~(SetFrontEndAnalog \/ SetFrontEndDigital \/ BeginStopTv)
      BY <2>0 DEF SetFrontEndAnalog, SetFrontEndDigital, BeginStopTv
    <3>9. FinishStopTv
      BY <2>1, <3>1, <3>2, <3>3, <3>4, <3>5, <3>6, <3>7, <3>8 DEF ClientCall
    <3> QED
      BY <3>9, FinishStopTvReleases
  <2>2. ~(VdinEvent \/ MessageThread \/ \E k \in Kinds : Raise(k))
    BY <2>0 DEF VdinEvent, VdinStable, VdinLost, VdinUnstable, MessageThread,
                CheckEvent, SendTvEvent, Raise
  <2> QED
    BY <2>1, <2>2 DEF Next
<1> QED
  BY <1>1, InvariantHolds, PTL DEF Spec, StopReleases

\* With a driver that stops when told, mTvAction never says less than scanner and decoder do, and a
\* scan of all sources has the vdin to itself.
THEOREM FlagsAreTrue ==
    ASSUME Obeys
    PROVE  Spec => []FlagsTellDevices
<1>1. ScannerIsFlagged /\ DecoderIsFlagged /\ NoDecoderInScan => FlagsTellDevices
  BY DEF FlagsTellDevices
<1> QED
  BY <1>1, ScannerStaysFlagged, DecoderStaysFlagged, ScanKeepsDecoderOff, PTL
=============================================================================
