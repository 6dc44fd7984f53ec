----------------------------- MODULE Recording -----------------------------
(***************************************************************************)
(* Recorders, the DTV player and the file they share for time shifting:    *)
(* the recording half of CTv (libtv/tv/CTv.cpp), CTvRecord, CDTVTvPlayer   *)
(* (CTvPlayer.cpp) and the two device managers (CTvManager.h).             *)
(*                                                                         *)
(* A client records under an id of its own.  A live DTV play records too,  *)
(* under the id "timeshifting", and plays from the file of that recording: *)
(* it takes the file over from the recorder (detachFileHandler) and closes *)
(* it itself (tryCloseTFile).  Module Tv has the flags of the playback;    *)
(* here are the objects behind it, who may still call them, and who closes *)
(* the file.                                                               *)
(*                                                                         *)
(* All calls hold CTv::mLock and are one step.  Beside them run the        *)
(* library's recording threads, which may end a recording at any time and  *)
(* call CTvRecord::rec_evt_cb, and the message thread, which takes the     *)
(* player's address out of the manager and uses it WITHOUT mLock.          *)
(*                                                                         *)
(* Left out: the ATV player (it owns no recorder and no file), the time    *)
(* shift's pause, seek and speed once it runs, and positions in the file.  *)
(***************************************************************************)
EXTENDS Naturals, FiniteSets

CONSTANTS
    RecIds,      \* ids clients record under
    PlayerIds,   \* ids clients play under
    Devs,        \* the (fe, dvr, fifo) triples a recorder may name
    ShiftDev,    \* the triple the player's own request names
    Handles,     \* bound: addresses of AM_REC handles
    Files        \* bound: addresses of time-shift files

Shift == "timeshifting"
NoHandle == "NULL"
NoFile == "NULL"
NoPlayer == "none"
MaxRecorders == 2       \* DevManager<CTvRecord, 2>

ASSUME IdsAssumption == RecIds \cap PlayerIds = {} /\ Shift \notin PlayerIds
ASSUME PlayersAssumption == NoPlayer \notin PlayerIds
ASSUME DevsAssumption == ShiftDev \in Devs
ASSUME AddressesAssumption == NoHandle \notin Handles /\ NoFile \notin Files

VARIABLE
    st        \* the objects and what the libraries keep for them

vars == <<st>>

Ids == RecIds \cup {Shift}
Modes == {"live", "rec", "timeshift", "plain"}   \* PLAY_MODE_...

\* A slot of RecorderManager, found by the id of what it holds.
Recorder == [on : BOOLEAN, dev : Devs, rec : Handles \cup {NoHandle},
             obs : {"NULL", "queue", "player", "deleted"}]
NoRecorder == [on |-> FALSE, dev |-> ShiftDev, rec |-> NoHandle,
               obs |-> "NULL"]

\* What the recording library keeps for a handle; sub: rec_evt_cb subscribed.
Handle == [is : {"free", "recording", "ended"}, sub : BOOLEAN,
           file : Files \cup {NoFile}, detached : BOOLEAN]
FreeHandle == [is |-> "free", sub |-> FALSE, file |-> NoFile,
               detached |-> FALSE]

\* The one slot of PlayerManager: CDTVTvPlayer's mId, mMode, mTfile, and
\* mDisableTimeShifting.
Player == [id : PlayerIds \cup {NoPlayer}, mode : Modes,
           disabled : BOOLEAN, tfile : Files \cup {NoFile}]
Nobody == [id |-> NoPlayer, mode |-> "live", disabled |-> FALSE,
           tfile |-> NoFile]

State == [
    recs   : [Ids -> Recorder],
    lib    : [Handles -> Handle],
    open   : SUBSET Files,              \* the files that are open
    player : Player,
    shift  : Files \cup {NoFile},       \* the file the AV library plays from
    refused : Files \cup {NoFile},      \* ... and would not stop playing from
    crossed : SUBSET Files,             \* addresses where a player closed another's file
    update : {"none", "player", "deleted"}]  \* the message thread's pointer

Registered(s) == {id \in Ids : s.recs[id].on}

TypeOK ==
    /\ st \in State
    /\ Cardinality(Registered(st)) <= MaxRecorders

Init ==
    st = [recs |-> [id \in Ids |-> NoRecorder],
          lib |-> [h \in Handles |-> FreeHandle],
          open |-> {}, player |-> Nobody, shift |-> NoFile,
          refused |-> NoFile, crossed |-> {}, update |-> "none"]

-----------------------------------------------------------------------------
(* CTvRecord and its manager.  Each operator maps the state to the state. *)

\* The library ends a recording and lets go of the file, which it closes
\* unless it was detached.
EndRecording(s, h) ==
    [s EXCEPT !.open = IF s.lib[h].detached THEN @ ELSE @ \ {s.lib[h].file},
              !.lib[h] = [FreeHandle EXCEPT !.is = "ended",
                                            !.sub = s.lib[h].sub]]

\* CTvRecord::stop: stop recording, unsubscribe; the handle stays.
StopRecorder(s, id) ==
    LET h == s.recs[id].rec IN
    IF h = NoHandle THEN s
    ELSE [EndRecording(s, h) EXCEPT !.lib[h].sub = FALSE]

\* RecorderManager::removeDev, with ~CTvRecord: the handle is destroyed as it
\* is, subscriptions included.
RemoveRecorder(s, id) ==
    LET h == s.recs[id].rec IN
    IF h = NoHandle THEN [s EXCEPT !.recs[id] = NoRecorder]
    ELSE [EndRecording(s, h) EXCEPT !.recs[id] = NoRecorder,
                                    !.lib[h].is = "free"]

\* Mutant of StopRecording: removes the recorder without its stop().
StopRecordingRemoves(s, id) ==
    IF s.recs[id].on THEN RemoveRecorder(s, id) ELSE s

\* CTv::stopRecording
StopRecording(s, id) ==
    IF ~s.recs[id].on THEN s
    ELSE RemoveRecorder(
             [StopRecorder(s, id) EXCEPT !.recs[id].obs = "NULL"], id)

\* addDev: a slot is left and no other recorder names the same devices.
Addable(s, dev) ==
    /\ Cardinality(Registered(s)) < MaxRecorders
    /\ \A id \in Registered(s) : s.recs[id].dev # dev

\* Mutant of GetRecorder: does not stop the recorder it finds.
GetRecorderRunning(s, id, dev) ==
    IF s.recs[id].on THEN [s EXCEPT !.recs[id].dev = dev]
    ELSE IF Addable(s, dev)
         THEN [s EXCEPT !.recs[id] = [NoRecorder EXCEPT !.on = TRUE,
                                                        !.dev = dev]]
         ELSE s

\* CTv::getRecorder: the one found is stopped and set up anew; addDev is not
\* asked about its new devices.
GetRecorder(s, id, dev) ==
    IF s.recs[id].on THEN [StopRecorder(s, id) EXCEPT !.recs[id].dev = dev]
    ELSE IF Addable(s, dev)
         THEN [s EXCEPT !.recs[id] = [NoRecorder EXCEPT !.on = TRUE,
                                                        !.dev = dev]]
         ELSE s

\* The addresses AM_REC_Create and AM_REC_StartRecord may get, those of what is
\* closed by now among them; or no handle: one of the two failed.
Allocations(s) ==
    {<<NoHandle, NoFile>>} \cup
    {a \in Handles \X Files : /\ s.lib[a[1]].is = "free"
                              /\ a[2] \notin s.open}

\* A recording that closes this file itself.
Held(s, f) == \E h \in Handles : s.lib[h].file = f /\ ~s.lib[h].detached

\* CTv::startRecording with CTvRecord::start.  mRec is overwritten: a handle
\* the recorder had before is not destroyed.  An address given out when nobody
\* is left at it is crossed no more.
StartRecording(s, id, dev, obs, a) ==
    LET g == GetRecorder(s, id, dev) IN
    IF ~g.recs[id].on THEN s
    ELSE IF a[1] = NoHandle THEN [g EXCEPT !.recs[id] = NoRecorder]
    ELSE [g EXCEPT !.recs[id] = [@ EXCEPT !.rec = a[1], !.obs = obs],
                   !.lib[a[1]] = [is |-> "recording", sub |-> TRUE,
                                  file |-> a[2], detached |-> FALSE],
                   !.open = @ \cup {a[2]},
                   !.crossed = IF Held(g, a[2]) \/ g.shift = a[2] THEN @
                               ELSE @ \ {a[2]}]

\* Mutant of ReleaseRecorders: forgets RecorderManager's releaseAll.
KeepRecorders(s) == s

\* RecorderManager::releaseAll
ReleaseRecorders(s) ==
    LET owned == {s.recs[id].rec : id \in Ids} \ {NoHandle}
        shut == {s.lib[h].file : h \in {g \in owned : ~s.lib[g].detached}}
    IN  [s EXCEPT !.recs = [id \in Ids |-> NoRecorder],
                  !.lib = [h \in Handles |->
                              IF h \in owned THEN FreeHandle ELSE @[h]],
                  !.open = @ \ shut]

-----------------------------------------------------------------------------
(* CDTVTvPlayer and its manager. *)

\* tryCloseTFile: mTfile keeps the address, so a later call closes again what
\* is open there by then.
CloseTFile(s) ==
    [s EXCEPT !.open = @ \ {s.player.tfile},
              !.crossed = @ \cup {f \in Files : f = s.player.tfile /\ Held(s, f)}]

\* CDTVTvPlayer::stop: the file stays open when the AV library refuses.
StopPlayer(s, refused) ==
    LET t == IF s.player.disabled THEN s ELSE StopRecording(s, Shift)
    IN  IF refused THEN [t EXCEPT !.refused = s.shift]
        ELSE CloseTFile([t EXCEPT !.shift = NoFile, !.refused = NoFile])

\* ~CDTVTvPlayer, out of removeDev or releaseAll.  What still points at the
\* player points at freed memory.
DeletePlayer(s) ==
    LET t == CloseTFile(IF s.recs[Shift].on THEN StopRecorder(s, Shift)
                        ELSE s)
        Orphan(obs) == IF obs = "player" THEN "deleted" ELSE obs
    IN  [t EXCEPT !.player = Nobody,
                  !.update = Orphan(@),
                  !.recs = [id \in Ids |->
                      [t.recs[id] EXCEPT !.obs = Orphan(t.recs[id].obs)]]]

\* PlayerManager::releaseAll
ReleasePlayer(s, refused) ==
    IF s.player.id = NoPlayer THEN s ELSE DeletePlayer(StopPlayer(s, refused))

\* CTv::getPlayer with setupDefault; prop is tv.dtv.tf.disable.
GetPlayer(s, id, mode, prop, refused) ==
    IF s.player.id = id
    THEN StopPlayer([s EXCEPT !.player.mode = mode], refused)
    ELSE [ReleasePlayer(s, refused) EXCEPT
             !.player = [id |-> id, mode |-> mode, disabled |-> prop,
                         tfile |-> NoFile]]

\* startLiveTryTimeShift up to startRecording.
ClearShift(s) ==
    IF s.player.disabled THEN s ELSE CloseTFile(StopRecording(s, Shift))

\* Mutant of DetachFile: forgets REC_TFILE_FLAG_DETACH.
ShareFile(s, h) == [s EXCEPT !.player.tfile = s.lib[h].file]

\* CTvRecord::detachFileHandler: the file is now the player's to close.
DetachFile(s, h) ==
    [s EXCEPT !.player.tfile = s.lib[h].file, !.lib[h].detached = TRUE]

\* startLiveTryTimeShift from startRecording on.  Without a recorder, or when
\* the AV library does not play the file, it plays live without time shift.
StartLive(s, a, got, plays) ==
    IF s.player.disabled THEN [s EXCEPT !.player.mode = "plain"]
    ELSE LET r == StartRecording(s, Shift, ShiftDev, "player", a)
             t == IF got THEN DetachFile(r, r.recs[Shift].rec)
                  ELSE [r EXCEPT !.player.tfile = NoFile]
         IN  IF ~r.recs[Shift].on THEN [r EXCEPT !.player.mode = "plain"]
             ELSE IF plays
             THEN [t EXCEPT !.player.mode = "timeshift",
                            !.shift = t.player.tfile, !.refused = NoFile]
             ELSE [t EXCEPT !.player.mode = "plain"]

-----------------------------------------------------------------------------
(* The calls, under mLock. *)

\* doRecordingCommand(RECORDING_CMD_PREPARE)
PrepareRecording ==
    \E id \in RecIds, dev \in Devs : st' = GetRecorder(st, id, dev)

\* doRecordingCommand(RECORDING_CMD_START): the observer is the message queue.
DoStartRecording ==
    \E id \in RecIds, dev \in Devs :
        \E a \in Allocations(GetRecorder(st, id, dev)) :
            st' = StartRecording(st, id, dev, "queue", a)

\* doRecordingCommand(RECORDING_CMD_STOP)
DoStopRecording == \E id \in RecIds : st' = StopRecording(st, id)

\* doPlayCommand(PLAY_CMD_START), for a picture that can be shown: live.
StartPlayLive ==
    \E id \in PlayerIds, prop \in BOOLEAN, refused \in BOOLEAN :
        LET g == GetPlayer(st, id, "live", prop, refused)
            r == ClearShift([g EXCEPT !.player.disabled = @ \/ prop])
        IN  \E a \in Allocations(r), got \in BOOLEAN, plays \in BOOLEAN :
                st' = StartLive(r, a, got, plays)

\* ... a file, or back to live from time shift; or nothing, because the video
\* layer is in use or the mode is none of these.  startPlay answers a failure
\* by removing the PLAYER's id from RecorderManager, where it is not found.
StartPlayOther ==
    \E id \in PlayerIds, mode \in Modes, prop \in BOOLEAN,
       refused \in BOOLEAN, ok \in BOOLEAN :
        LET g == GetPlayer(st, id, mode, prop, refused)
        IN  st' = IF mode = "timeshift" /\ ok
                  THEN [g EXCEPT !.player.mode = "live"] ELSE g

\* doPlayCommand(PLAY_CMD_STOP)
StopPlay ==
    /\ st.player.id # NoPlayer
    /\ \E refused \in BOOLEAN :
           st' = DeletePlayer(StopPlayer(st, refused))

\* doPlayCommand(PLAY_CMD_PAUSE) of a live play with a recorder: time shift
\* starts, from mTfile.
PausePlay ==
    /\ st.player.id # NoPlayer
    /\ st.player.mode = "live"
    /\ ~st.player.disabled
    /\ st.recs[Shift].on
    /\ st' = [st EXCEPT !.player.mode = "timeshift",
                        !.shift = st.player.tfile, !.refused = NoFile]

\* tryReleasePlayer, when a source switch leaves the tuner.
ReleaseAll ==
    \E refused \in BOOLEAN :
        st' = ReleaseRecorders(ReleasePlayer(st, refused))

-----------------------------------------------------------------------------
(* Beside them: the recording threads and the message thread. *)

\* A recording ends by itself: AM_REC_EVT_RECORD_END calls rec_evt_cb.
RecordEnds ==
    \E h \in Handles :
        /\ st.lib[h].is = "recording"
        /\ st' = EndRecording(st, h)

\* EVENT_PLAY_UPDATE: the message thread asks PlayerManager for the player ...
FindPlayer ==
    /\ st.update = "none"
    /\ st.player.id # NoPlayer
    /\ st' = [st EXCEPT !.update = "player"]

\* ... and, the manager's lock given back, calls its onPlayUpdate.
PlayUpdate ==
    /\ st.update # "none"
    /\ st' = [st EXCEPT !.update = "none"]

Next ==
    \/ PrepareRecording \/ DoStartRecording \/ DoStopRecording
    \/ StartPlayLive \/ StartPlayOther \/ StopPlay \/ PausePlay
    \/ ReleaseAll
    \/ RecordEnds \/ FindPlayer \/ PlayUpdate

Spec == Init /\ [][Next]_vars

-----------------------------------------------------------------------------
(* Properties *)

\* rec_evt_cb calls rec->mpObserver->onEvent without a test: while a handle is
\* subscribed, its recorder exists and has an observer that exists.
CallbackHasTarget ==
    \A h \in Handles : st.lib[h].sub =>
        \E id \in Ids : /\ st.recs[id].on
                        /\ st.recs[id].rec = h
                        /\ st.recs[id].obs \in {"queue", "player"}

\* A recording that runs can be stopped: some registered recorder has its
\* handle.  Starting the same id again must not lose one.
NoRunawayRecording ==
    \A h \in Handles : st.lib[h].is = "recording" =>
        \E id \in Ids : st.recs[id].on /\ st.recs[id].rec = h

\* The AV library plays from a file that is open: whoever closes the file of
\* a live play has stopped the time shift before.  Unless the library refused
\* to stop, or a player has closed the file of a recording at this address,
\* where one of its own had been (tryCloseTFile), and somebody is left there.
ShiftFileOpen ==
    st.shift \notin {NoFile, st.refused} \cup st.crossed => st.shift \in st.open

\* Leaving the tuner ends what was recorded, and what was played unless the
\* library refuses, and closes every file, at whatever address.
NothingLeft ==
    [][ReleaseAll => /\ \A h \in Handles : st'.lib[h].is # "recording"
                     /\ st'.shift \in {NoFile, st'.refused}
                     /\ st'.open = {}]_vars

\* onPlayUpdate is called on a player that still exists.
PlayUpdateReachesPlayer == st.update # "deleted"

=============================================================================
