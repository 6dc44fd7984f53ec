--------------------------------- MODULE Tv ---------------------------------
(***************************************************************************)
(* CTv (libtv/tv/CTv.cpp): the object every client call ends in.  It owns  *)
(* the source selection, the live and time-shifted playback, the vdin      *)
(* decoder, the tuner and the channel scan, and says in mTvAction which of *)
(* them is active.                                                         *)
(*                                                                         *)
(* Binder threads call it under mLock, and so does the vdin poll thread.   *)
(* busy says what the holder of mLock is in the middle of.  A call is one  *)
(* step, except StopTvLock and the calls that switch the source: these     *)
(* publish mTvAction or m_source_input half way, and the message thread    *)
(* reads both WITHOUT mLock (CTvMsgQueue::handleMessage, the onEvent       *)
(* callbacks), so there they are two steps.                                *)
(*                                                                         *)
(* The members are kept in the record tv.  Left out, because no property   *)
(* here depends on them: the video layer's colour, audio, VPP and SSM      *)
(* settings, the programme database, and the snow flag of the decoder.     *)
(***************************************************************************)
EXTENDS Naturals, Sequences

CONSTANTS
    Sources,      \* real sources clients select, among RealSources
    DisplaySnow,  \* mATVDisplaySnow: analogue TV shows snow without a signal
    Refusals,     \* may TVIN_IOC_STOP_DEC fail: {FALSE}, or BOOLEAN
    MaxQueue      \* bound: messages waiting in mTvMsgQueue

RealSources == {"TV", "DTV", "HDMI", "SPDIF"}

ASSUME SourcesAssumption == Sources \subseteq RealSources
ASSUME SnowAssumption == DisplaySnow \in BOOLEAN
ASSUME RefusalsAssumption == Refusals \subseteq BOOLEAN
ASSUME QueueAssumption == MaxQueue \in Nat

VARIABLES
    tv,       \* the members of CTv, its CAv, CTvin, CFrontEnd and CTvScanner
    busy,     \* what the holder of mLock is half way through
    queue,    \* the FE and AV messages in mTvMsgQueue
    handler   \* the message thread

vars == <<tv, busy, queue, handler>>

Actions == {"IN_VDIN", "STOPING", "SCANNING", "PLAYING"}
Players == {"none", "dtv", "atv"}
Scans == {"off", "unified", "dtv", "atv"}

TvState == [
    action  : SUBSET Actions,              \* mTvAction
    src     : RealSources \cup {"INVALID"},  \* m_source_input
    adtv    : BOOLEAN,      \* m_source_input_virtual is SOURCE_ADTV
    player  : Players,      \* the one slot of PlayerManager
    ts      : BOOLEAN,      \* mAv.StartTS without a StopTS since
    shift   : BOOLEAN,      \* mAv.startTimeShift without a stop since
    decoder : BOOLEAN,      \* CTvin::mDecoderStarted
    port    : BOOLEAN,      \* a vdin port is open
    scanner : Scans,        \* CTvScanner::mbScanStart, and which scan
    fe      : BOOLEAN]      \* mFrontDev is open

Steps == {"none", "stop", "switch", "play"}
Starts == {"return", "live", "shift", "atv"}
Busy == [op : Steps, to : RealSources \cup {"INVALID"}, then : Starts]
Free == [op |-> "none", to |-> "INVALID", then |-> "return"]

\* A message keeps what was true when it was raised.
Kinds == {"HAS_SIG", "NO_SIG", "AV_STOP"}
Message == [kind : Kinds, live : BOOLEAN, stoping : BOOLEAN]
Idle == [pc |-> "idle",
         msg |-> [kind |-> "HAS_SIG", live |-> FALSE, stoping |-> FALSE]]

TypeOK ==
    /\ tv \in TvState
    /\ busy \in Busy
    /\ queue \in Seq(Message)
    /\ handler \in [pc : {"idle", "deliver"}, msg : Message]

Init ==
    /\ tv = [action |-> {}, src |-> "INVALID", adtv |-> FALSE,
             player |-> "none", ts |-> FALSE, shift |-> FALSE,
             decoder |-> FALSE, port |-> FALSE, scanner |-> "off",
             fe |-> FALSE]
    /\ busy = Free
    /\ queue = <<>>
    /\ handler = Idle

-----------------------------------------------------------------------------
(* What the calls are built from: each maps the members to the members. *)

Has(s, flag) == flag \in s.action
Set(s, flag) == [s EXCEPT !.action = @ \cup {flag}]
Clear(s, flag) == [s EXCEPT !.action = @ \ {flag}]

\* Playing digital TV, the condition of the FE and AV events.
Live(s) == s.src = "DTV" /\ Has(s, "PLAYING")

\* stopPlaying: nothing unless PLAYING; StopTS only on the DTV source.
StopPlaying(s) ==
    IF Has(s, "PLAYING")
    THEN [Clear(s, "PLAYING") EXCEPT !.ts = @ /\ s.src # "DTV"]
    ELSE s

\* Tvin_StopDecoder: with the ioctl refused the decoder stays started.
StopDecoder(s, refused) == [s EXCEPT !.decoder = @ /\ refused]

\* Mutant of ReleasePlayer: deletes the player without its stop().
DeletePlayer(s) == [s EXCEPT !.player = "none"]

\* PlayerManager::releaseAll: the player's stop(), then delete.
ReleasePlayer(s) ==
    IF s.player = "none" THEN s
    ELSE [StopPlaying(s) EXCEPT !.player = "none",
                                !.shift = @ /\ s.player # "dtv"]

\* tryReleasePlayer
ReleaseOnEnter(s, toTuner) == IF toTuner THEN s ELSE ReleasePlayer(s)
ReleaseOnExit(s) == IF s.src \in {"TV", "DTV"} THEN ReleasePlayer(s) ELSE s

\* Mutant of StopScan: forgets mTvScanner->stopScan().
StopScanFlagOnly(s, refused) == [Clear(s, "SCANNING") EXCEPT !.fe = FALSE]

\* stopScan: nothing unless SCANNING.
StopScan(s, refused) ==
    IF ~Has(s, "SCANNING") THEN s
    ELSE LET d == IF s.src = "TV" /\ DisplaySnow
                  THEN StopDecoder(s, refused) ELSE s
         IN  [Clear(d, "SCANNING") EXCEPT !.scanner = "off", !.fe = FALSE]

\* Mutant of LeaveSource: forgets stopPlaying.
LeaveSourcePlaying(s, to) == [s EXCEPT !.fe = to \in {"TV", "DTV"}]

\* SetSourceSwitchInputLocked up to m_source_input = source_input.
LeaveSource(s, to) ==
    [StopPlaying(s) EXCEPT !.fe = to \in {"TV", "DTV"}]

\* ... and from there on: close the port for DTV, else SwitchPort, which gives
\* up when the decoder does not stop.
EnterSource(s, to, refused) ==
    LET d == StopDecoder([s EXCEPT !.src = to], refused) IN
    IF to = "DTV" THEN [d EXCEPT !.port = FALSE]
    ELSE IF d.decoder THEN d
    ELSE [Set(d, "IN_VDIN") EXCEPT !.port = TRUE]

\* CTvScanner::Scan: stops the scan that runs, then may or may not start.
StartScanner(s, scan, ok) ==
    [s EXCEPT !.scanner = IF ok THEN scan ELSE "off"]

-----------------------------------------------------------------------------
(* Source selection. *)

\* Begin a switch under mLock; then says what follows it in the same call.
BeginSwitch(s, to, then) ==
    IF to = s.src
    THEN /\ tv' = s
         /\ busy' = IF then = "return" THEN Free
                    ELSE [op |-> "play", to |-> to, then |-> then]
    ELSE /\ tv' = LeaveSource(s, to)
         /\ busy' = [op |-> "switch", to |-> to, then |-> then]

FinishSwitch ==
    /\ busy.op = "switch"
    /\ \E r \in Refusals : tv' = EnterSource(tv, busy.to, r)
    /\ busy' = IF busy.then = "return" THEN Free
               ELSE [busy EXCEPT !.op = "play"]
    /\ UNCHANGED <<queue, handler>>

\* SetSourceSwitchInput(source_input)
SetSourceSwitchInput(to) ==
    /\ busy = Free
    /\ LET s == ReleaseOnEnter(tv, to \in {"TV", "DTV"})
       IN  BeginSwitch([s EXCEPT !.adtv = FALSE], to, "return")
    /\ UNCHANGED <<queue, handler>>

\* SetSourceSwitchInput(SOURCE_ADTV): defer the real source.
SetSourceAdtv ==
    /\ busy = Free
    /\ tv' = [tv EXCEPT !.adtv = TRUE]
    /\ UNCHANGED <<busy, queue, handler>>

\* SetSourceSwitchInput(virtual_input, source_input): releases no player.
SetSourceSwitchInputExt(virtual, to) ==
    /\ busy = Free
    /\ BeginSwitch([tv EXCEPT !.adtv = virtual], to, "return")
    /\ UNCHANGED <<queue, handler>>

-----------------------------------------------------------------------------
(* Playback: doPlayCommand and the players' start and stop. *)

\* getPlayer: the registered player is stopped, and another one may replace it.
GetPlayer(s, p) == [ReleasePlayer(s) EXCEPT !.player = p]

\* CDTVTvPlayer::start gives up when the video path is not in use.
StartRefused ==
    /\ busy = Free
    /\ tv' = GetPlayer(tv, "dtv")
    /\ UNCHANGED <<busy, queue, handler>>

\* PLAY_MODE_LIVE, with the time-shift file or without.
StartDtv(then) ==
    /\ busy = Free
    /\ BeginSwitch(GetPlayer(tv, "dtv"), "DTV", then)
    /\ UNCHANGED <<queue, handler>>

\* PLAY_MODE_REC: playDtvTimeShiftUnlocked without parameters selects no
\* source.
StartRecord(ok) ==
    /\ busy = Free
    /\ tv' = [Set(GetPlayer(tv, "dtv"), "PLAYING") EXCEPT !.shift = ok]
    /\ UNCHANGED <<busy, queue, handler>>

StartAtv ==
    /\ busy = Free
    /\ BeginSwitch(GetPlayer(tv, "atv"), "TV", "atv")
    /\ UNCHANGED <<queue, handler>>

\* The rest of playDtvProgramUnlocked, whose StartTS result is ignored.
PlayLive(ok) ==
    /\ busy.op = "play" /\ busy.then = "live"
    /\ tv' = [Set(tv, "PLAYING") EXCEPT !.fe = TRUE, !.ts = ok]
    /\ busy' = Free
    /\ UNCHANGED <<queue, handler>>

\* The rest of playDtvTimeShiftUnlocked; when it fails startLive follows.
PlayShift(ok) ==
    /\ busy.op = "play" /\ busy.then = "shift"
    /\ tv' = [Set(tv, "PLAYING") EXCEPT !.fe = TRUE, !.shift = ok]
    /\ busy' = IF ok THEN Free ELSE [busy EXCEPT !.then = "live"]
    /\ UNCHANGED <<queue, handler>>

\* The rest of playAtvProgram.
PlayAtv ==
    /\ busy.op = "play" /\ busy.then = "atv"
    /\ \E r \in Refusals :
          tv' = [StopDecoder(Set(Set(tv, "IN_VDIN"), "PLAYING"), r)
                    EXCEPT !.fe = TRUE]
    /\ busy' = Free
    /\ UNCHANGED <<queue, handler>>

\* pausePlay on a live player with a recorder: mode becomes time-shift.
PausePlay ==
    /\ busy = Free
    /\ tv.player = "dtv"
    /\ tv' = [tv EXCEPT !.shift = TRUE]
    /\ UNCHANGED <<busy, queue, handler>>

\* stopPlay: player->stop, removeDev.
StopPlay ==
    /\ busy = Free
    /\ tv.player # "none"
    /\ tv' = ReleasePlayer(tv)
    /\ UNCHANGED <<busy, queue, handler>>

-----------------------------------------------------------------------------
(* Scanning. *)

Scan(ok) ==
    /\ busy = Free
    /\ \E r \in Refusals :
          tv' = StartScanner(
                  [StopDecoder(Set(tv, "SCANNING"), r)
                      EXCEPT !.src = "INVALID", !.ts = FALSE, !.fe = TRUE],
                  "unified", ok)
    /\ UNCHANGED <<busy, queue, handler>>

DtvScan(ok) ==
    /\ busy = Free
    /\ tv' = StartScanner([Set(tv, "SCANNING") EXCEPT !.ts = FALSE],
                          "dtv", ok)
    /\ UNCHANGED <<busy, queue, handler>>

\* atvAutoScan with a usable frequency range ...
AtvAutoScan(ok) ==
    /\ busy = Free
    /\ \E r \in Refusals :
          LET s == StopPlaying(Set(tv, "SCANNING"))
              d == IF DisplaySnow THEN s ELSE StopDecoder(s, r)
          IN  tv' = StartScanner([d EXCEPT !.port = TRUE], "atv", ok)
    /\ UNCHANGED <<busy, queue, handler>>

\* ... and without: it returns -1, SCANNING stays set.
AtvAutoScanBadRange ==
    /\ busy = Free
    /\ tv' = StopPlaying(Set(tv, "SCANNING"))
    /\ UNCHANGED <<busy, queue, handler>>

AtvManualScan(ok) ==
    /\ busy = Free
    /\ tv' = StartScanner([Set(tv, "SCANNING") EXCEPT !.port = TRUE],
                          "atv", ok)
    /\ UNCHANGED <<busy, queue, handler>>

StopScanLock ==
    /\ busy = Free
    /\ \E r \in Refusals : tv' = StopScan(tv, r)
    /\ UNCHANGED <<busy, queue, handler>>

\* operateDeviceForScan takes no lock: it opens the tuner at any time.
OperateDeviceForScan ==
    /\ tv' = [tv EXCEPT !.fe = TRUE]
    /\ UNCHANGED <<busy, queue, handler>>

-----------------------------------------------------------------------------
(* The tuner. *)

SetFrontEndAnalog ==
    /\ busy = Free
    /\ ~Has(tv, "SCANNING")
    /\ LET s == IF tv.src = "DTV" THEN Set(StopPlaying(tv), "IN_VDIN") ELSE tv
       IN  \E r \in Refusals : tv' = [StopDecoder(s, r) EXCEPT !.fe = TRUE]
    /\ UNCHANGED <<busy, queue, handler>>

SetFrontEndDigital ==
    /\ busy = Free
    /\ ~Has(tv, "SCANNING")
    /\ \E r \in Refusals :
          LET s == IF tv.adtv /\ tv.src = "TV"
                   THEN [StopDecoder(Clear(tv, "IN_VDIN"), r)
                            EXCEPT !.port = FALSE]
                   ELSE tv
          IN  tv' = [s EXCEPT !.fe = TRUE]
    /\ UNCHANGED <<busy, queue, handler>>

-----------------------------------------------------------------------------
(* StopTvLock. *)

BeginStopTv ==
    /\ busy = Free
    /\ tv' = Set(tv, "STOPING")
    /\ busy' = [Free EXCEPT !.op = "stop"]
    /\ UNCHANGED <<queue, handler>>

\* Mutant of FinishStopTv: m_source_input is reset first.
FinishStopTvResetFirst ==
    /\ busy.op = "stop"
    /\ \E r \in Refusals :
          LET p == StopPlaying(ReleaseOnExit([tv EXCEPT !.src = "INVALID"]))
              d == [StopDecoder(p, r) EXCEPT !.port = FALSE]
              q == StopScan(Clear(d, "IN_VDIN"), r)
          IN  tv' = [Clear(q, "STOPING") EXCEPT !.adtv = FALSE, !.fe = FALSE]
    /\ busy' = Free
    /\ UNCHANGED <<queue, handler>>

FinishStopTv ==
    /\ busy.op = "stop"
    /\ \E r \in Refusals :
          LET p == StopPlaying(ReleaseOnExit(tv))
              d == [StopDecoder(p, r) EXCEPT !.port = FALSE]
              q == StopScan(Clear(d, "IN_VDIN"), r)
          IN  tv' = [Clear(q, "STOPING")
                        EXCEPT !.src = "INVALID", !.adtv = FALSE, !.fe = FALSE]
    /\ busy' = Free
    /\ UNCHANGED <<queue, handler>>

-----------------------------------------------------------------------------
(* The vdin poll thread: onVdinSignalChange, under mLock. *)

WatchesVdin(s) ==
    Has(s, "IN_VDIN") /\ ~Has(s, "SCANNING") /\ s.src # "SPDIF"

OnAnalogSnow == tv.src = "TV" /\ DisplaySnow

\* onSigToStable, onSigStillStable: start the decoder, which may fail; on
\* analogue TV with snow it is stopped first.
VdinStable(ok) ==
    /\ busy = Free
    /\ WatchesVdin(tv)
    /\ \E r \in Refusals, snow \in BOOLEAN :
          LET s == IF OnAnalogSnow /\ snow THEN StopDecoder(tv, r) ELSE tv
          IN  tv' = [s EXCEPT !.decoder = @ \/ ok]
    /\ UNCHANGED <<busy, queue, handler>>

\* onSigToUnstable
VdinUnstable ==
    /\ busy = Free
    /\ WatchesVdin(tv)
    /\ tv.src # "TV"
    /\ \E r \in Refusals : tv' = StopDecoder(tv, r)
    /\ UNCHANGED <<busy, queue, handler>>

\* onSigToNoSig, onSigToUnSupport
VdinLost(ok) ==
    /\ busy = Free
    /\ WatchesVdin(tv)
    /\ \E r \in Refusals :
          tv' = IF OnAnalogSnow THEN [tv EXCEPT !.decoder = @ \/ ok]
                ELSE StopDecoder(tv, r)
    /\ UNCHANGED <<busy, queue, handler>>

-----------------------------------------------------------------------------
(* The message thread.  The callbacks of the tuner and of the player enqueue *)
(* an event; the thread takes it, looks at mTvAction and m_source_input      *)
(* without mLock, and some time later calls the observer.                    *)

Raise(kind) ==
    /\ Len(queue) < MaxQueue
    /\ kind \in {"HAS_SIG", "NO_SIG"} => tv.fe
    /\ kind = "AV_STOP" => tv.ts \/ tv.shift
    /\ queue' = Append(queue, [kind |-> kind, live |-> Live(tv),
                               stoping |-> Has(tv, "STOPING")])
    /\ UNCHANGED <<tv, busy, handler>>

\* The conditions under which onEvent goes on to sendTvEvent.
Accepts(s, kind) ==
    CASE kind = "HAS_SIG" -> ~Has(s, "SCANNING") /\ Live(s)
      [] kind = "NO_SIG" -> /\ ~Has(s, "SCANNING")
                            /\ ~Has(s, "STOPING") /\ Live(s)
      [] kind = "AV_STOP" -> ~Has(s, "STOPING")

CheckEvent ==
    /\ handler.pc = "idle"
    /\ queue # <<>>
    /\ queue' = Tail(queue)
    /\ handler' = IF Accepts(tv, Head(queue).kind)
                  THEN [pc |-> "deliver", msg |-> Head(queue)]
                  ELSE Idle
    /\ UNCHANGED <<tv, busy>>

\* sendTvEvent: the observer is called, unless SCANNING by now.
SendTvEvent ==
    /\ handler.pc = "deliver"
    /\ handler' = Idle
    /\ UNCHANGED <<tv, busy, queue>>

-----------------------------------------------------------------------------
ClientCall ==
    \/ \E to \in Sources : SetSourceSwitchInput(to)
    \/ SetSourceAdtv
    \/ \E v \in BOOLEAN, to \in Sources : SetSourceSwitchInputExt(v, to)
    \/ FinishSwitch
    \/ StartRefused
    \/ \E then \in {"live", "shift"} : StartDtv(then)
    \/ \E ok \in BOOLEAN : StartRecord(ok)
    \/ StartAtv
    \/ \E ok \in BOOLEAN : PlayLive(ok) \/ PlayShift(ok)
    \/ PlayAtv \/ PausePlay \/ StopPlay
    \/ \E ok \in BOOLEAN : Scan(ok) \/ DtvScan(ok) \/ AtvAutoScan(ok)
                             \/ AtvManualScan(ok)
    \/ AtvAutoScanBadRange \/ StopScanLock \/ OperateDeviceForScan
    \/ SetFrontEndAnalog \/ SetFrontEndDigital
    \/ BeginStopTv \/ FinishStopTv

VdinEvent ==
    \/ \E ok \in BOOLEAN : VdinStable(ok) \/ VdinLost(ok)
    \/ VdinUnstable

MessageThread == CheckEvent \/ SendTvEvent

Next == ClientCall \/ VdinEvent \/ MessageThread \/ \E k \in Kinds : Raise(k)

Spec == Init /\ [][Next]_vars

\* Whoever holds mLock goes on to release it, and the message thread runs.
Continue ==
    \/ FinishSwitch \/ FinishStopTv \/ PlayAtv
    \/ \E ok \in BOOLEAN : PlayLive(ok) \/ PlayShift(ok)
FairSpec == Spec /\ WF_vars(Continue) /\ WF_vars(MessageThread)

-----------------------------------------------------------------------------
(* Properties. *)

\* The transport-stream playback runs only on the digital source, marked
\* PLAYING and owned by a DTV player: whatever calls follow, the stopPlaying
\* that the next source switch, stop or scan makes will find it and stop it.
TsOnlyOnDtv == tv.ts => Live(tv) /\ tv.player = "dtv"

\* Nothing plays that no play command can stop: live or time-shifted playback,
\* and the PLAYING flag, always belong to the registered player, although
\* players are released by source switches, stops and other players' starts.
NoOrphanPlayback ==
    Has(tv, "PLAYING") \/ tv.ts \/ tv.shift => tv.player # "none"

\* The scanner never runs without SCANNING: stopScan, which does nothing
\* without the flag, and the filters of the events rely on it.
ScannerIsFlagged == tv.scanner # "off" => Has(tv, "SCANNING")

\* While the scan of all sources runs, the vdin decoder is off, although
\* clients may select sources and vdin signals arrive during the scan.
NoDecoderInScan == tv.scanner = "unified" => ~tv.decoder

\* The decoder is on only while IN_VDIN says so: the flag is what lets a later
\* signal loss reach it (onVdinSignalChange).
DecoderIsFlagged == tv.decoder => Has(tv, "IN_VDIN")

\* mTvAction never says less than the devices do, and the unified scan has the vdin to itself.
FlagsTellDevices == ScannerIsFlagged /\ DecoderIsFlagged /\ NoDecoderInScan

\* When StopTvLock returns, playback from the tuner, decoder, port, scanner and
\* tuner are off and no action is left, whatever was going on before.
Released(s) ==
    /\ s.action = {}
    /\ ~s.ts /\ ~s.decoder /\ ~s.port /\ ~s.fe
    /\ s.scanner = "off"
    /\ s.src = "INVALID"
StopReleases ==
    [][busy.op = "stop" /\ busy'.op = "none" => Released(tv')]_vars

\* "atv and other tvin source not to use it, and if not playing, not use have
\* sig": a stable-signal event that sendTvEvent lets through is for a playing
\* DTV source (onEvent(FEEvent)).
Reported(kind) ==
    handler.pc = "deliver" /\ handler.msg.kind = kind /\ ~Has(tv, "SCANNING")
StableOnlyWhileLive == Reported("HAS_SIG") => Live(tv)

\* "tv stopping, no need CAv::AVEvent::EVENT_AV_STOP": the end of playback that
\* StopTvLock itself causes is not reported as a lost signal.
NoStopReport == Reported("AV_STOP") => ~handler.msg.stoping
=============================================================================
