----------------------------- MODULE TimeShift -----------------------------
(***************************************************************************)
(* The commands for playback (CTv::doPlayCommand) and the session they     *)
(* open in the AV library: live, time shift, or a recording played back    *)
(* with the tracks its file names (CTvPlayer.cpp, CAv.cpp).                *)
(*                                                                         *)
(* The library is external: it may refuse to start or to stop a session,   *)
(* and keeps one until it is stopped, also when playback has come to its   *)
(* end.  Recording models the recorder and its file; here it is a flag.    *)
(* The commands hold mLock, so that each is one step.                      *)
(***************************************************************************)
EXTENDS Integers, Sequences, SequencesExt, FiniteSetsExt

CONSTANTS
  PlayIds,       \* names of players; "atsc" is in the name of those that hear of updates
  MediaFiles,    \* name of a recording's file -> what it holds: [words, whole, info]
  PacketWords,   \* a packet of 188 bytes, in words of 4
  InfoWords      \* sizeof(AM_REC_MediaInfo_t), in words

ASSUME TimeShiftAssumption == PacketWords \in Nat \ {0, 1} /\ InfoWords \in Nat

VARIABLES
  pb,         \* the player and the library's sessions
  toldTimes   \* what the last step told the clients
tsVars == <<pb, toldTimes>>

NoId2 == "none"
ASSUME PlayIdsAssumption == NoId2 \notin PlayIds
NoMedia == [duration |-> 0, name |-> 0, vid |-> <<0, 0>>, auds |-> <<>>, subs |-> <<>>, ttxs |-> <<>>]
Garbage == -1   \* bytes of the stack

TsInit ==
  /\ toldTimes = <<>>
  /\ pb = [id |-> NoId2, kind |-> "dtv", mode |-> "live", changed |-> TRUE, disabled |-> FALSE,
           playing |-> FALSE, source |-> "other", recorder |-> FALSE,
           live |-> FALSE, session |-> "none", file |-> {}, tracks |-> NoMedia, paused |-> FALSE, speed |-> 0,
           refused |-> FALSE]

(***************************************************************************)
(* readMediaInfoFromFile.                                                  *)
(***************************************************************************)

\* The library writes the numbers of the media info, in packets with a header each.
InfoAsWords(m) ==
  <<m.duration, m.name>> \o m.vid
    \o <<Len(m.auds)>> \o FlattenSeq(m.auds) \o <<Len(m.subs)>> \o FlattenSeq(m.subs)
    \o <<Len(m.ttxs)>> \o FlattenSeq(m.ttxs)
InPackets(w) ==
  LET size == PacketWords - 1 IN
  FlattenSeq([k \in 1..((Len(w) + size - 1) \div size) |->
                <<Garbage>> \o SubSeq(w, (k - 1) * size + 1, Min({k * size, Len(w)}))])
\* What a file of the recording holds: all of it and some of the stream, or its first words.
WholeFile(m) == [words |-> InPackets(InfoAsWords(m)) \o <<Garbage, 9, 9>>, whole |-> TRUE, info |-> m]
CutFile(m, n) == [words |-> SubSeq(InPackets(InfoAsWords(m)), 1, n), whole |-> FALSE, info |-> m]

\* As much as the buffer takes, the first word of each packet skipped.
BufferWords == InfoWords + InfoWords \div PacketWords + 1

\* The numbers of a recording; a file that is whole begins with them, in packets that the buffer takes:
\* the server names one audio and the subtitles (CTvRecord.cpp 304-320), the struct has room for more.
MediaInfos ==
  [duration : Int, name : Int, vid : Int \X Int,
   auds : Seq([1..3 -> Int]), subs : Seq([1..7 -> Int]), ttxs : Seq([1..4 -> Int])]
ASSUME MediaAssumption ==
  \A f \in DOMAIN MediaFiles : MediaFiles[f].whole =>
    LET file == MediaFiles[f]
        packets == InPackets(InfoAsWords(file.info))
    IN  /\ file.info \in MediaInfos /\ file.words \in Seq(Int)
        /\ Len(packets) <= Min({BufferWords, Len(file.words)})
        /\ \A i \in 1..Len(packets) : file.words[i] = packets[i]

\* Mutant of WithoutHeaders: only the first packet's header is skipped.
WithoutFirstHeader(w) == [k \in 1..(Min({BufferWords, Len(w)}) - 1) |-> w[k + 1]]

WithoutHeaders(w) ==
  LET read == Min({BufferWords, Len(w)})
      headers == (read + PacketWords - 1) \div PacketWords
  IN  [k \in 1..(read - headers) |-> w[k + 1 + (k - 1) \div (PacketWords - 1)]]

\* READ_INT fails past the end, and leaves the rest as memset left it; a language, the last word of a
\* track, is copied unchecked: past the end it is what the stack held.
MediaOf(w) ==
  LET ReadInt(i) == IF i <= Len(w) THEN w[i] ELSE 0
      Lang(i) == IF i = Len(w) + 1 THEN Garbage ELSE ReadInt(i)
      Group(first, n, size) ==
        [k \in 1..n |-> [j \in 1..size |->
           LET i == first + (k - 1) * size + j - 1 IN IF j = size THEN Lang(i) ELSE ReadInt(i)]]
      subsAt == 6 + 3 * ReadInt(5)
      ttxsAt == subsAt + 1 + 7 * ReadInt(subsAt)
  IN  [duration |-> ReadInt(1), name |-> ReadInt(2), vid |-> <<ReadInt(3), ReadInt(4)>>,
       auds |-> Group(6, ReadInt(5), 3), subs |-> Group(subsAt + 1, ReadInt(subsAt), 7),
       ttxs |-> Group(ttxsAt + 1, ReadInt(ttxsAt), 4)]

TracksOf == [f \in DOMAIN MediaFiles |-> MediaOf(WithoutHeaders(MediaFiles[f].words))]

(***************************************************************************)
(* The library's sessions (CAv), and CTv's play and stop.                  *)
(***************************************************************************)

\* stopPlaying: nothing unless playing; a tuner's stream is stopped on its source.
StopPlayingTs(s) ==
  IF s.playing THEN [s EXCEPT !.playing = FALSE, !.live = s.live /\ s.source # "dtv"] ELSE s

\* stopTimeShift, which the library may refuse.
StopSession(s, ok) ==
  IF s.session = "none" THEN s
  ELSE IF ok THEN [s EXCEPT !.session = "none", !.file = {}, !.tracks = NoMedia, !.paused = FALSE, !.speed = 0,
                          !.refused = FALSE]
  ELSE [s EXCEPT !.refused = TRUE]

\* playDtvTimeShiftUnlocked, startTimeShift: playing even when the library refuses.
StartSession(s, ok, is, file) ==
  IF ok
  THEN [s EXCEPT !.session = is, !.file = file, !.paused = FALSE, !.speed = 0,
                 !.tracks = IF file = {} THEN NoMedia ELSE TracksOf[CHOOSE f \in file : TRUE]]
  ELSE s

\* A switch of the source stops what plays; the rest of it is Tv's.
SwitchTs(s, source) == IF s.source = source THEN s ELSE [StopPlayingTs(s) EXCEPT !.source = source]

\* playDtvProgramUnlocked: the answer is 0 also when the library refuses.
PlayLiveTs(s, ok) == [SwitchTs(s, "dtv") EXCEPT !.playing = TRUE, !.live = ok]

(***************************************************************************)
(* The player.                                                             *)
(***************************************************************************)

\* setupDefault: the parameters, the mode among them, if they are of the player's type.
SetUp(s, p) ==
  IF p.type = "dtv" /\ s.kind = "dtv" THEN [s EXCEPT !.mode = p.mode, !.changed = TRUE] ELSE s

\* stop: the mode, which setupDefault may have changed by now, is not asked.

\* Mutant of PlayerStops: the time shift is stopped only in the modes that start one.
PlayerStopsByMode(s, ok) ==
  LET q == StopPlayingTs(IF s.disabled THEN s ELSE [s EXCEPT !.recorder = FALSE])
  IN  IF s.mode \in {"rec", "timeshift"} THEN StopSession(q, ok) ELSE q

PlayerStops(s, ok) ==
  IF s.kind = "atv" THEN StopPlayingTs(s)
  ELSE StopSession(StopPlayingTs(IF s.disabled THEN s ELSE [s EXCEPT !.recorder = FALSE]), ok)

\* PlayerManager::releaseAll: stopped and deleted.
ReleasePlayerTs(s, ok) == IF s.id = NoId2 THEN s ELSE [PlayerStops(s, ok) EXCEPT !.id = NoId2]

\* getPlayer: the player of that name, set up and then stopped; or a new one in place of any other.
GetPlayerTs(s, id, p, prop, ok) ==
  IF s.id = id THEN PlayerStops(SetUp(s, p), ok)
  ELSE LET r == ReleasePlayerTs(s, ok) IN
       IF p.type = "unknown" THEN r
       ELSE SetUp([r EXCEPT !.id = id, !.kind = p.type, !.mode = "live", !.changed = TRUE, !.disabled = prop], p)

\* startLiveTryTimeShift: the recorder started anew if the source has changed, and a time shift
\* over its file; live without one otherwise.
StartLiveTs(s, c) ==
  LET d == [s EXCEPT !.disabled = @ \/ c.prop]
      r == IF ~d.disabled /\ d.changed THEN [d EXCEPT !.recorder = c.recorder] ELSE d
      shift == StartSession([SwitchTs(r, "dtv") EXCEPT !.playing = TRUE], c.start, "shift", {})
  IN  IF r.recorder /\ ~r.disabled /\ c.start THEN [shift EXCEPT !.mode = "timeshift"]
      ELSE [PlayLiveTs(IF r.recorder /\ ~r.disabled THEN shift ELSE r, c.plays) EXCEPT !.mode = "plain"]

\* start, refused while something else has the video; the result of reading the file is not asked.
PlayerStarts(s, c) ==
  IF s.kind = "atv" THEN [SwitchTs(s, "tv") EXCEPT !.playing = TRUE]
  ELSE IF ~c.free THEN s
  ELSE [CASE s.mode = "live" -> StartLiveTs(s, c)
          [] s.mode = "timeshift" -> [PlayLiveTs(s, c.plays) EXCEPT !.mode = "live"]
          [] s.mode = "rec" -> StartSession([s EXCEPT !.playing = TRUE], c.start, "rec", {c.file})
          [] s.mode = "plain" -> s
        EXCEPT !.changed = FALSE]

(***************************************************************************)
(* doPlayCommand.                                                          *)
(***************************************************************************)

\* What a command is given: the type and mode of its parameters.
PlayParams == [type : {"dtv"}, mode : {"live", "rec", "timeshift", "plain"}] \cup [type : {"atv", "unknown"}, mode : {"live"}]
\* What the device says meanwhile, as far as the mode makes the command ask: who has the video, the
\* property that disables time shifting, and what the recorder and the library do.
ChancesIn == [mode \in {"live", "rec", "timeshift", "plain"} |->
  LET some == CHOOSE f \in DOMAIN MediaFiles : TRUE
      refused == [free |-> FALSE, prop |-> FALSE, recorder |-> FALSE, start |-> FALSE, plays |-> FALSE, file |-> some]
  IN  {refused}
        \cup (CASE mode = "live" ->
                     {c \in [free : {TRUE}, prop : BOOLEAN, recorder : BOOLEAN, start : BOOLEAN, plays : BOOLEAN, file : {some}] :
                        (c.prop => ~c.recorder) /\ (c.start => c.recorder /\ ~c.plays)}
                [] mode = "rec" -> {[refused EXCEPT !.free = TRUE, !.start = TRUE, !.file = f] : f \in DOMAIN MediaFiles}
                                     \cup {[refused EXCEPT !.free = TRUE]}
                [] OTHER -> {[refused EXCEPT !.free = TRUE, !.plays = b] : b \in BOOLEAN})]

\* The answer of a stop matters only to a session.
Stops == IF pb.session = "none" THEN {TRUE} ELSE BOOLEAN
StartPlayTs ==
  \E id \in PlayIds : \E p \in PlayParams, ok \in Stops, prop \in (IF pb.id = id THEN {FALSE} ELSE BOOLEAN) :
    LET s == GetPlayerTs(pb, id, p, prop, ok) IN
    \E c \in ChancesIn[s.mode] : pb' = IF s.id = id THEN PlayerStarts(s, c) ELSE s
StopPlayTs == \E ok \in Stops : pb.id # NoId2 /\ pb' = [PlayerStops(pb, ok) EXCEPT !.id = NoId2]

\* pause: a time shift paused at the recorder's position when live, else the session paused.
PausePlayTs ==
  /\ pb.id # NoId2 /\ pb.kind = "dtv"
  /\ \/ /\ pb.mode = "live" /\ ~pb.disabled /\ pb.recorder
        /\ pb' = [StartSession(pb, TRUE, "shift", {}) EXCEPT !.mode = "timeshift", !.paused = TRUE]
     \/ pb.mode \in {"rec", "timeshift"} /\ pb.session # "none" /\ pb' = [pb EXCEPT !.paused = TRUE]

\* resume, seek and set act on a session only in its modes, and answer -1 all the same.
HasSession == pb.id # NoId2 /\ pb.kind = "dtv" /\ pb.mode \in {"rec", "timeshift"} /\ pb.session # "none"
ResumePlayTs == HasSession /\ pb' = [pb EXCEPT !.paused = FALSE, !.speed = 0]
SeekPlayTs == HasSession /\ pb' = [pb EXCEPT !.paused = FALSE]
\* Normal speed is 0; a negative one goes back.
SetPlayTs == HasSession /\ \E v \in {-2, 1, 2} : pb' = [pb EXCEPT !.speed = IF v \in {1, -1} THEN 0 ELSE v]

\* onPlayUpdate, while the library plays, is paused or goes fast: the time, and before it the start of
\* a recording; only a player of that name hears.
PlayUpdateTs ==
  /\ pb.id = "atsc" /\ pb.kind = "dtv" /\ pb.session # "none"
  /\ \E time \in {0, 7} :
       toldTimes' = (IF pb.mode = "rec" /\ time = 0 THEN <<<<"start", 0>>>> ELSE <<>>) \o <<<<"current", time>>>>
  /\ UNCHANGED pb

(***************************************************************************)
(* The rest of the server: a client's recorder of that name, the source,   *)
(* and StopTv.                                                             *)
(***************************************************************************)

RecordTs == \E got \in BOOLEAN : pb.recorder # got /\ pb' = [pb EXCEPT !.recorder = got]
ReleaseAllTs(s, ok) == [ReleasePlayerTs(s, ok) EXCEPT !.recorder = FALSE]
\* SetSourceSwitchInput with one argument releases the players, with two it does not.
LeaveTuner ==
  \E ok \in Stops, released \in BOOLEAN :
    pb' = SwitchTs(IF released THEN ReleaseAllTs(pb, ok) ELSE pb, "other")
\* StopTvLock releases them only when it leaves a tuner.
StopTvTs ==
  \E ok \in Stops :
    pb' = [StopPlayingTs(IF pb.source \in {"dtv", "tv"} THEN ReleaseAllTs(pb, ok) ELSE pb) EXCEPT !.source = "other"]

TsNext ==
  \/ PlayUpdateTs
  \/ /\ StartPlayTs \/ StopPlayTs \/ PausePlayTs \/ ResumePlayTs \/ SeekPlayTs \/ SetPlayTs
       \/ RecordTs \/ LeaveTuner \/ StopTvTs
     /\ toldTimes' = <<>>

TsSpec == TsInit /\ [][TsNext]_tsVars

(***************************************************************************)
(* Properties.                                                             *)
(***************************************************************************)

\* A time shift or a playback that runs in the library is one a player can pause, resume and stop: it
\* exists, and its mode is the session's; and a live one is one stopPlaying stops.  Unless the library
\* refused a stop (CDTVTvPlayer::stop after setupDefault, getPlayer).
NoLooseSession ==
  ~pb.refused =>
    /\ pb.session # "none" =>
         pb.id # NoId2 /\ pb.kind = "dtv" /\ pb.mode = (IF pb.session = "rec" THEN "rec" ELSE "timeshift")
    /\ pb.live => pb.playing /\ pb.source = "dtv"

\* A recording whose file is whole is played with the tracks it was written with
\* (readMediaInfoFromFile).
PlaysAsWritten ==
  \A f \in pb.file : MediaFiles[f].whole => pb.tracks = MediaFiles[f].info
=============================================================================
