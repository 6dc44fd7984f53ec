----------------------------- MODULE VideoLayer -----------------------------
(***************************************************************************)
(* The video layer as CAv keeps it (mVideoLayerState beside the driver),   *)
(* who changes it, and the AV library's events, which two of its threads   *)
(* leave in one object (mCurAvEvent) on their way to the message queue.    *)
(*                                                                         *)
(* Actors: a client and the device poll, which both hold mLock; a client   *)
(* that sets an EDID, which does not; and the message thread, which never  *)
(* does.  A call is the sequence of its steps on the layer and on the      *)
(* flags; the steps of two actors interleave.                              *)
(* Bounds: MaxLayerCalls calls of clients and the poll, MaxRaised events.  *)
(***************************************************************************)
EXTENDS Integers, Sequences

CONSTANTS
  VideoSettings,   \* snow shown without a signal, blackout enabled, and the colour: [snow, blackout, colour]
  MaxLayerCalls, MaxRaised

ASSUME VideoLayerAssumption ==
  /\ VideoSettings \subseteq [snow : BOOLEAN, blackout : BOOLEAN, colour : {"black", "blue"}]
  /\ MaxLayerCalls \in Nat /\ MaxRaised \in Nat

VARIABLES
  layer,     \* mVideoLayerState; the driver's video and colour
  tv,        \* source, TV_ACTION_PLAYING, TV_ACTION_STOPING, and the settings
  work,      \* the steps each actor has left
  solo,      \* history: no other actor was at work during this call
  doubt,     \* history: calls overlapped, or the driver refused one, and none has set it right since
  inbox,     \* the message queue, of what concerns the layer
  curEvent,  \* mCurAvEvent
  raising,   \* what each thread of the library raises, and the fields left to write
  toldAv,    \* what the last event told the clients
  calls, raised

layerVars == <<layer, tv, work, solo, doubt>>
eventVars == <<curEvent, raising, raised>>
videoVars == <<layerVars, eventVars, inbox, toldAv, calls>>

Actors == {"client", "edid", "poll", "queue"}
Raisers == {"events", "audio"}
NoAvEvent == [type |-> "none", status |-> 0, param |-> 0, param1 |-> 0]
NotRaising == [event |-> NoAvEvent, left |-> <<>>, solo |-> TRUE]

VideoInit ==
  /\ layer = [state |-> "none", on |-> FALSE, colour |-> "none"]
  /\ \E set \in VideoSettings :
       tv = [source |-> "none", playing |-> FALSE, stoping |-> FALSE, stopped |-> TRUE, late |-> FALSE,
             snow |-> set.snow, blackout |-> set.blackout, colour |-> set.colour]
  /\ work = [t \in Actors |-> <<>>] /\ solo = [t \in Actors |-> TRUE] /\ doubt = FALSE
  /\ inbox = <<>> /\ curEvent = NoAvEvent /\ raising = [r \in Raisers |-> NotRaising]
  /\ toldAv = <<NoAvEvent, NoAvEvent>> /\ calls = 0 /\ raised = 0

(***************************************************************************)
(* CAv's calls, as steps.                                                  *)
(***************************************************************************)

\* what is a state, a colour, or what becomes of the video.
Act(do, what) == [do |-> do, what |-> what]

\* Mutant of DisableVideoWith: the state is not recorded.
DisableVideoOnly(colour) == <<Act("paint", colour), Act("video", "off")>>

\* DisableVideoWithBlackColor, DisableVideoWithBlueColor.
DisableVideoWith(colour) == <<Act("state", colour), Act("paint", colour), Act("video", "off")>>
\* EnableVideoNow: nothing if the layer is recorded as enabled.
EnableVideoNow(isShowTestScreen) ==
  <<Act("test", "enable"), Act("state", "enable")>>
    \o (IF isShowTestScreen THEN <<Act("paint", "black")>> ELSE <<>>) \o <<Act("video", "on")>>
\* EnableVideoWhenVideoPlaying: after two looks at the frame counter that differ.
EnableVideoWhenVideoPlaying == <<Act("wait", "frames")>> \o EnableVideoNow(TRUE)
\* EnableVideoBlackout, DisableVideoBlackout: the state becomes none.
VideoBlackout == <<Act("state", "none")>>
ClearVideoBuffer == <<Act("clear", "off")>>
SetVideoLayerEnabled == <<Act("clear", "on")>>

\* One step of an actor; a test that finds the layer enabled ends the call.
Others(t) == {u \in Actors \ {t} : work[u] # <<>>}
NoFrames == tv.source = "none" \/ (tv.source = "dtv" /\ ~tv.playing)
RightAgain(t) == doubt' = (doubt /\ ~solo[t])
LayerStep(t) ==
  /\ work[t] # <<>>
  /\ LET a == Head(work[t])
         rest == Tail(work[t])
     IN \/ /\ a.do = "state" /\ layer' = [layer EXCEPT !.state = a.what] /\ work' = [work EXCEPT ![t] = rest]
           /\ IF a.what = "none" THEN RightAgain(t) ELSE UNCHANGED doubt
           /\ UNCHANGED <<tv, toldAv>>
        \/ /\ a.do = "paint" /\ layer' = [layer EXCEPT !.colour = a.what] /\ work' = [work EXCEPT ![t] = rest]
           /\ UNCHANGED <<doubt, tv, toldAv>>
        \* The driver may refuse; nobody looks.
        \/ /\ a.do = "video" /\ work' = [work EXCEPT ![t] = rest]
           /\ \/ layer' = [layer EXCEPT !.on = (a.what = "on")] /\ RightAgain(t)
              \/ doubt' = TRUE /\ UNCHANGED layer
           /\ UNCHANGED <<tv, toldAv>>
        \/ /\ a.do = "clear" /\ layer' = [layer EXCEPT !.on = (a.what = "on")] /\ work' = [work EXCEPT ![t] = rest]
           /\ UNCHANGED <<doubt, tv, toldAv>>
        \/ /\ a.do = "test"
           /\ work' = [work EXCEPT ![t] =
                         IF layer.state = a.what THEN <<>> ELSE rest]
           /\ UNCHANGED <<layer, doubt, tv, toldAv>>
        \* 250 looks, 20 ms apart, and then the layer stays as it is.
        \/ /\ a.do = "wait" /\ work' \in {[work EXCEPT ![t] = <<>>]} \cup (IF NoFrames THEN {} ELSE {[work EXCEPT ![t] = rest]})
           /\ UNCHANGED <<layer, doubt, tv, toldAv>>
        \/ /\ a.do = "flags" /\ work' = [work EXCEPT ![t] = rest]
           /\ tv' = CASE a.what = "stoping" -> [tv EXCEPT !.stoping = TRUE]
                      [] a.what = "leave" -> [tv EXCEPT !.source = "none", !.playing = FALSE]
                      [] a.what = "stopped" -> [tv EXCEPT !.stoping = FALSE, !.stopped = TRUE, !.late = FALSE]
           /\ UNCHANGED <<layer, doubt, toldAv>>
  /\ UNCHANGED <<solo, eventVars, inbox, calls>>

(***************************************************************************)
(* Clients and the poll.                                                   *)
(***************************************************************************)

Begins(t, steps) ==
  /\ work[t] = <<>> /\ work' = [work EXCEPT ![t] = steps]
  /\ doubt' = (doubt \/ (steps # <<>> /\ Others(t) # {}))
  /\ solo' = [u \in Actors |-> IF u = t THEN Others(t) = {} ELSE solo[u] /\ (work[u] = <<>> \/ steps = <<>>)]
  /\ UNCHANGED layer
Called == calls < MaxLayerCalls /\ calls' = calls + 1 /\ UNCHANGED <<eventVars, toldAv>>
Locked(t) == work["client"] = <<>> /\ work["poll"] = <<>> /\ t \in {"client", "poll"}

StartTv == Locked("client") /\ Begins("client", SetVideoLayerEnabled) /\ Called /\ UNCHANGED <<tv, inbox>>
\* The layer, players and decoder, and the source; with blackout enabled the state is given up too.
StopTvSteps ==
  <<Act("flags", "stoping")>> \o DisableVideoWith("black") \o <<Act("flags", "leave"), Act("flags", "stopped")>>
    \o (IF tv.blackout THEN VideoBlackout ELSE <<>>) \o ClearVideoBuffer
StopTv == Locked("client") /\ Begins("client", StopTvSteps) /\ Called /\ UNCHANGED <<tv, inbox>>
\* A source is switched to, and a DTV programme played.
SwitchTo(source) ==
  /\ Locked("client") /\ Begins("client", <<>>) /\ Called
  /\ tv' = [tv EXCEPT !.source = source, !.playing = (source = "dtv"), !.stopped = FALSE] /\ UNCHANGED inbox
\* Scan leaves the source, dtvScan, atvMunualScan and stopScan keep it, and atvAutoScan ends what
\* plays; the analogue scans leave the layer alone when snow is shown.  (TV_ACTION_SCANNING is module
\* Tv's: a stopScan may come here without a scan, and events of a signal during one.)
ScanLayer ==
  /\ Locked("client") /\ Called /\ UNCHANGED inbox
  /\ \/ Begins("client", DisableVideoWith("black")) /\ tv' \in {tv, [tv EXCEPT !.source = "none"]}
     \/ /\ Begins("client", IF tv.snow THEN <<>> ELSE DisableVideoWith("black"))
        /\ tv' \in {tv, [tv EXCEPT !.playing = FALSE]}
SetFrontEndLayer == Locked("client") /\ Begins("client", VideoBlackout) /\ Called /\ UNCHANGED <<tv, inbox>>
SetEdidLayer == Begins("edid", DisableVideoWith("black")) /\ Called /\ UNCHANGED <<tv, inbox>>

\* onVdinSignalChange: a source that comes through VDIN.
InVdin == Locked("poll") /\ tv.source \in {"tv", "hdmi"}
SigStillStable ==
  /\ InVdin /\ work["poll"] = <<>> /\ Called
  /\ inbox' = Append(inbox, [is |-> "later", event |-> NoAvEvent, of |-> NoAvEvent, solo |-> TRUE]) /\ UNCHANGED layerVars
SigToUnstable == InVdin /\ tv.source # "tv" /\ Begins("poll", DisableVideoWith("black")) /\ Called /\ UNCHANGED <<tv, inbox>>
\* onSigToNoSig, onSigToUnSupport: snow is shown, or a colour.
SigLost ==
  /\ InVdin /\ Called /\ UNCHANGED <<tv, inbox>>
  /\ Begins("poll", IF tv.source = "tv" /\ tv.snow THEN EnableVideoNow(FALSE) ELSE DisableVideoWith(tv.colour))

(***************************************************************************)
(* Events: written field by field, sent as a copy.                         *)
(***************************************************************************)

EventTypes(r) ==
  IF r = "audio" THEN {"audio_cb"} ELSE {"stop", "resume", "scambled", "unsupport", "available", "update"}

\* Mutant of FieldsOf: an update's status is left as it was.
FieldsOfUpdate(type) ==
  IF type = "audio_cb" THEN <<"type", "status", "param", "param1">> ELSE <<"type", "param">>

FieldsOf(type) ==
  CASE type = "audio_cb" -> <<"type", "status", "param", "param1">>
    [] type = "update" -> <<"type", "param", "status">>
    [] OTHER -> <<"type", "param">>
\* The fields are told apart by the number of the event.
EventOf(type, n) ==
  [type |-> type, param |-> n, status |-> IF type \in {"audio_cb", "update"} THEN n ELSE 0,
   param1 |-> IF type = "audio_cb" THEN n ELSE 0]

Raise(r) ==
  /\ raised < MaxRaised /\ raising[r].left = <<>> /\ raising[r].event = NoAvEvent /\ raised' = raised + 1
  /\ \E type \in EventTypes(r) :
       LET other == CHOOSE q \in Raisers : q # r
           lone == raising[other].event = NoAvEvent
       IN raising' = [raising EXCEPT ![r] = [event |-> EventOf(type, raised + 1), left |-> FieldsOf(type), solo |-> lone],
                                     ![other].solo = @ /\ lone]
  /\ UNCHANGED <<layerVars, curEvent, inbox, toldAv, calls>>
WriteField(r) ==
  /\ raising[r].left # <<>>
  /\ curEvent' = [curEvent EXCEPT ![Head(raising[r].left)] = raising[r].event[Head(raising[r].left)]]
  /\ raising' = [raising EXCEPT ![r].left = Tail(@)]
  /\ UNCHANGED <<layerVars, inbox, toldAv, calls, raised>>
\* CTvMsgQueue::onEvent copies what the object holds by now.
SendEvent(r) ==
  /\ raising[r].event # NoAvEvent /\ raising[r].left = <<>>
  /\ inbox' = Append(inbox, [is |-> "av", event |-> curEvent, of |-> raising[r].event, solo |-> raising[r].solo])
  /\ raising' = [raising EXCEPT ![r] = NotRaising]
  /\ UNCHANGED <<layerVars, curEvent, toldAv, calls, raised>>

(***************************************************************************)
(* The message thread.                                                     *)
(***************************************************************************)

\* CTv::onEvent(AVEvent): what it does to the layer ...

\* Mutant of LayerOnEvent: available video is shown whatever the source.
LayerOnAnyEvent(type) ==
  CASE type = "stop" -> IF tv.stoping THEN <<>> ELSE DisableVideoWith(tv.colour)
    [] type = "scambled" -> DisableVideoWith(tv.colour)
    [] type = "available" -> EnableVideoNow(TRUE)
    [] OTHER -> <<>>

LayerOnEvent(type) ==
  CASE type = "stop" -> IF tv.stoping THEN <<>> ELSE DisableVideoWith(tv.colour)
    [] type = "scambled" -> DisableVideoWith(tv.colour)
    [] type = "available" -> IF tv.source = "dtv" /\ tv.playing THEN EnableVideoNow(TRUE) ELSE <<>>
    [] OTHER -> <<>>
\* ... and what of it the clients or the player are told: a stop as no signal, "unsupported" not at all.
ToldOf(e) ==
  CASE e.type \in {"resume", "scambled", "available"} -> [NoAvEvent EXCEPT !.type = e.type, !.param = e.param]
    [] e.type = "update" -> [e EXCEPT !.param1 = 0]
    [] e.type = "audio_cb" -> e
    [] e.type = "stop" -> IF tv.stoping THEN NoAvEvent ELSE [NoAvEvent EXCEPT !.type = "stop"]
    [] OTHER -> NoAvEvent

HandleEvent ==
  /\ inbox # <<>> /\ Head(inbox).is = "av" /\ inbox' = Tail(inbox)
  /\ LET m == Head(inbox)
         tells == ToldOf(m.event)
     IN /\ Begins("queue", LayerOnEvent(m.event.type))
        /\ toldAv' = IF tells = NoAvEvent \/ ~m.solo THEN <<NoAvEvent, NoAvEvent>> ELSE <<tells, ToldOf(m.of)>>
  /\ UNCHANGED <<tv, eventVars, calls>>
\* onEvent(FEEvent): the signal of the programme that plays is lost.
FeNoSignal ==
  /\ tv.source = "dtv" /\ tv.playing /\ ~tv.stoping /\ Called
  /\ Begins("queue", DisableVideoWith(tv.colour)) /\ UNCHANGED <<tv, inbox>>
\* onEnableVideoLater: for whatever source there is by then.
EnableVideoLater ==
  /\ inbox # <<>> /\ Head(inbox).is = "later" /\ inbox' = Tail(inbox)
  /\ Begins("queue", EnableVideoWhenVideoPlaying) /\ tv' = [tv EXCEPT !.late = TRUE]
  /\ UNCHANGED <<eventVars, toldAv, calls>>

VideoNext ==
  \/ \E t \in Actors : LayerStep(t)
  \/ StartTv \/ StopTv \/ ScanLayer \/ SetFrontEndLayer \/ SetEdidLayer
  \/ \E source \in {"dtv", "tv", "hdmi"} : SwitchTo(source)
  \/ SigStillStable \/ SigToUnstable \/ SigLost
  \/ \E r \in Raisers : Raise(r) \/ WriteField(r) \/ SendEvent(r)
  \/ HandleEvent \/ FeNoSignal \/ EnableVideoLater
VideoSpec == VideoInit /\ [][VideoNext]_videoVars

(***************************************************************************)
(* Properties.                                                             *)
(***************************************************************************)

NobodyAtWork == \A t \in Actors : work[t] = <<>>

\* When nobody changes the layer, it is what CAv has recorded: enabled means shown, a colour means that
\* colour.  Unless the calls of two threads overlapped or the driver refused one, and no call alone has
\* followed (CAv::EnableVideoNow trusts the record).
LayerAsRecorded ==
  NobodyAtWork /\ ~doubt =>
    /\ layer.state = "enable" => layer.on
    /\ layer.state \in {"black", "blue"} => layer.colour = layer.state

\* After StopTv nothing of the stopped playback enables the layer again, but a message left for later
\* (CTv::onEvent, onEnableVideoLater).
DarkAfterStop ==
  NobodyAtWork /\ ~doubt /\ tv.stopped /\ ~tv.late => layer.state # "enable"

LayerFollows == LayerAsRecorded /\ DarkAfterStop

\* An event reaches its handler with the fields it was raised with, and the clients are told of it with
\* these, unless the library's two threads raised theirs at the same time (CAv::av_evt_callback,
\* av_audio_callback).
EventsWhole ==
  /\ \A i \in DOMAIN inbox :
       inbox[i].solo =>
         /\ inbox[i].event.type = inbox[i].of.type
         /\ \A f \in {"param", "status", "param1"} :
              inbox[i].of[f] # 0 => inbox[i].event[f] = inbox[i].of[f]
  /\ toldAv[1] = toldAv[2]
=============================================================================
