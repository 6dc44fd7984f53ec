------------------------- MODULE Recording_proofs -------------------------
(***************************************************************************)
(* Proofs about Recording, for all ids, devices and heaps, and for an AV   *)
(* library that may refuse to stop: a subscribed callback finds a recorder *)
(* and an observer, and no recording runs without a recorder to stop it.   *)
(* Then, for a library that stops and addresses that are given out once:   *)
(* the file that is played from is open, and leaving the tuner closes all. *)
(* And about TimeShift, for all players and files: no session is loose,    *)
(* and a whole file is played with the tracks it was written with.         *)
(***************************************************************************)
EXTENDS Recording, TimeShift, DataLemmas, SequenceTheorems, TLAPS

-----------------------------------------------------------------------------
(* The inductive invariant. *)

\* A handle has at most one recorder, and exactly one while it records or is
\* subscribed.
Owned(s) ==
    /\ \A id \in Ids :
          /\ ~s.recs[id].on => s.recs[id] = NoRecorder
          /\ s.recs[id].rec # NoHandle =>
                s.lib[s.recs[id].rec].is # "free"
    /\ \A i \in Ids, j \in Ids :
          i # j /\ s.recs[i].rec = s.recs[j].rec => s.recs[i].rec = NoHandle
    /\ \A h \in Handles :
          s.lib[h].sub \/ s.lib[h].is = "recording" =>
              \E id \in Ids : s.recs[id].rec = h

\* Only the time-shift recorder reports to the player, and only while there
\* is one that will stop it.
Called(s) ==
    \A id \in Ids :
        /\ s.recs[id].obs # "deleted"
        /\ s.recs[id].obs = "player" =>
              id = Shift /\ s.player.id # NoPlayer /\ ~s.player.disabled
        /\ s.recs[id].rec # NoHandle /\ s.lib[s.recs[id].rec].sub =>
              s.recs[id].obs # "NULL"

Sound(s) == s \in State /\ Owned(s) /\ Called(s)

\* Nothing would be orphaned by deleting the player.
Unobserved(s) == \A id \in Ids : s.recs[id].obs # "player"

\* The recorder with this id, if it has a handle, is stopped.
Stopped(s, id) ==
    s.recs[id].rec # NoHandle =>
        /\ ~s.lib[s.recs[id].rec].sub
        /\ s.lib[s.recs[id].rec].is = "ended"

IInv == Sound(st)

-----------------------------------------------------------------------------
(* Lemmas about recorders. *)

\* The parts a state is made of have the types State gives them.
LEMMA StateFields ==
    ASSUME NEW s, s \in State
    PROVE  /\ \A id \in Ids : s.recs[id] \in Recorder
           /\ \A h \in Handles : s.lib[h] \in Handle
           /\ s.player \in Player /\ s.open \subseteq Files
           /\ s.crossed \subseteq Files
           /\ s.shift \in Files \cup {NoFile} /\ s.refused \in Files \cup {NoFile}
           /\ NoRecorder \in Recorder /\ FreeHandle \in Handle
           /\ Nobody \in Player /\ NoHandle \notin Handles
BY DevsAssumption, AddressesAssumption
   DEF State, Recorder, Handle, Player, NoRecorder, FreeHandle, Nobody, Modes

\* Handles that stay as they are, under a player that stays, keep a state sound;
\* files, modes and what plays do not matter.
LEMMA SameRecorders ==
    ASSUME NEW s, NEW t, Sound(s), t \in State, t.recs = s.recs,
           \A h \in Handles : /\ t.lib[h].is = s.lib[h].is
                              /\ t.lib[h].sub = s.lib[h].sub,
           \/ t.player.id = s.player.id
              /\ t.player.disabled = s.player.disabled
           \/ Unobserved(s)
    PROVE  Sound(t)
<1>1. \A id \in Ids : s.recs[id].rec \in Handles \cup {NoHandle}
  BY StateFields DEF Sound, Recorder
<1>2. Owned(t)
  BY <1>1 DEF Sound, Owned
<1>3. Called(t)
  BY <1>1 DEF Sound, Called, Unobserved
<1> QED
  BY <1>2, <1>3 DEF Sound

\* An ending recording keeps its handle, its subscription and its recorder.
LEMMA EndRecordingSound ==
    ASSUME NEW s, Sound(s), NEW h \in Handles, s.lib[h].is # "free"
    PROVE  /\ Sound(EndRecording(s, h))
           /\ EndRecording(s, h).recs = s.recs
           /\ EndRecording(s, h).player = s.player
           /\ EndRecording(s, h).update = s.update
           /\ EndRecording(s, h).lib[h].is = "ended"
           /\ EndRecording(s, h).lib[h].sub = s.lib[h].sub
<1> DEFINE e == EndRecording(s, h)
           x == [FreeHandle EXCEPT !.is = "ended", !.sub = s.lib[h].sub]
<1>1. s \in State /\ s.lib[h] \in Handle
  BY StateFields DEF Sound
<1>2. x \in Handle /\ x.is = "ended" /\ x.sub = s.lib[h].sub
  BY <1>1 DEF Handle, FreeHandle
<1> HIDE DEF x
<1>3. /\ e \in State
      /\ e.recs = s.recs /\ e.player = s.player /\ e.update = s.update
      /\ e.lib = [s.lib EXCEPT ![h] = x]
  BY <1>1, <1>2 DEF EndRecording, State, x
<1>4. \A g \in Handles : /\ e.lib[g].sub = s.lib[g].sub
                         /\ e.lib[g].is = "recording" => s.lib[g].is = "recording"
                         /\ s.lib[g].is # "free" => e.lib[g].is # "free"
  BY <1>1, <1>2, <1>3 DEF State
<1>5. \A id \in Ids : s.recs[id].rec \in Handles \cup {NoHandle}
  BY <1>1, StateFields DEF Recorder
<1>6. e.lib[h] = x
  BY <1>1, <1>3 DEF State
<1> HIDE DEF e
<1>7. Owned(e) /\ Called(e)
  BY <1>3, <1>4, <1>5 DEF Sound, Owned, Called
<1> QED
  BY <1>2, <1>3, <1>6, <1>7 DEF Sound, e

\* CTvRecord::stop leaves its recorder stopped and registered.
LEMMA StopRecorderSound ==
    ASSUME NEW s, Sound(s), NEW id \in Ids
    PROVE  /\ Sound(StopRecorder(s, id))
           /\ StopRecorder(s, id).recs = s.recs
           /\ StopRecorder(s, id).player = s.player
           /\ StopRecorder(s, id).update = s.update
           /\ Stopped(StopRecorder(s, id), id)
<1> DEFINE h == s.recs[id].rec
           e == EndRecording(s, h)
           t == StopRecorder(s, id)
<1>1. CASE h = NoHandle
  BY <1>1 DEF StopRecorder, Stopped
<1>2. CASE h # NoHandle
  <2>1. h \in Handles /\ s.lib[h].is # "free"
    BY <1>2, StateFields DEF Sound, Owned, Recorder
  <2>2. /\ Sound(e) /\ e.recs = s.recs /\ e.player = s.player
        /\ e.update = s.update /\ e.lib[h].is = "ended"
    BY <2>1, EndRecordingSound
  <2>3. t = [e EXCEPT !.lib[h].sub = FALSE]
    BY <1>2 DEF StopRecorder
  <2>4. e \in State /\ e.lib[h] \in Handle
    BY <2>1, <2>2, StateFields DEF Sound
  <2> DEFINE y == [e.lib[h] EXCEPT !.sub = FALSE]
  <2>5. y \in Handle /\ y.is = "ended" /\ ~y.sub
    BY <2>2, <2>4 DEF Handle
  <2>6. t = [e EXCEPT !.lib = [e.lib EXCEPT ![h] = y]]
    BY <2>3, <2>4 DEF State
  <2>7. /\ t.recs = s.recs /\ t.player = s.player /\ t.update = s.update
        /\ t.lib = [e.lib EXCEPT ![h] = y] /\ t \in State
    <3> HIDE DEF e, h, y, t
    <3> QED
      BY <2>1, <2>2, <2>4, <2>5, <2>6 DEF State
  <2> HIDE DEF e, h, y, t
  <2>8. /\ \A g \in Handles : /\ t.lib[g].is = e.lib[g].is
                              /\ t.lib[g].sub => e.lib[g].sub
        /\ t.lib[h].is = "ended" /\ ~t.lib[h].sub
    BY <2>1, <2>2, <2>4, <2>5, <2>7 DEF State
  <2>9. \A i \in Ids : e.recs[i].rec \in Handles \cup {NoHandle}
    BY <2>4, StateFields DEF Recorder
  <2>10. Owned(t) /\ Called(t)
    <3>1. Owned(t)
      BY SMTT(30), <2>2, <2>7, <2>8, <2>9 DEF Sound, Owned
    <3>2. Called(t)
      BY SMTT(30), <2>2, <2>7, <2>8, <2>9 DEF Sound, Called
    <3> QED
      BY <3>1, <3>2
  <2>11. t.recs[id].rec = h
    BY <2>7 DEF h
  <2> QED
    BY <2>7, <2>8, <2>10, <2>11 DEF Sound, Stopped, t
<1> QED
  BY <1>1, <1>2

\* removeDev of a recorder whose callback is off forgets it and its handle.
LEMMA RemoveRecorderSound ==
    ASSUME NEW s, Sound(s), NEW id \in Ids,
           s.recs[id].rec # NoHandle => ~s.lib[s.recs[id].rec].sub
    PROVE  /\ Sound(RemoveRecorder(s, id))
           /\ RemoveRecorder(s, id).recs = [s.recs EXCEPT ![id] = NoRecorder]
           /\ RemoveRecorder(s, id).player = s.player
           /\ RemoveRecorder(s, id).update = s.update
<1> DEFINE h == s.recs[id].rec
           e == EndRecording(s, h)
           t == RemoveRecorder(s, id)
           r == [s.recs EXCEPT ![id] = NoRecorder]
<1>1. /\ NoRecorder \in Recorder /\ ~NoRecorder.on
      /\ NoRecorder.rec = NoHandle /\ NoRecorder.obs = "NULL"
  BY StateFields DEF NoRecorder, Sound
<1>2. /\ s \in State /\ r \in [Ids -> Recorder]
      /\ \A i \in Ids : r[i] = IF i = id THEN NoRecorder ELSE s.recs[i]
      /\ \A i \in Ids : s.recs[i].rec \in Handles \cup {NoHandle}
  BY <1>1, StateFields DEF Sound, State, Recorder
<1>3. CASE h = NoHandle
  <2>1. t = [s EXCEPT !.recs = r]
    BY <1>3 DEF RemoveRecorder
  <2>2. /\ t.recs = r /\ t.player = s.player /\ t.update = s.update
        /\ t.lib = s.lib /\ t \in State
    <3> HIDE DEF r, t
    <3> QED
      BY <1>2, <2>1 DEF State
  <2>3. \A i \in Ids : r[i].rec = s.recs[i].rec
    BY <1>1, <1>2, <1>3
  <2> HIDE DEF h, r, t
  <2>4. Owned(t) /\ Called(t)
    BY <1>1, <1>2, <2>2, <2>3 DEF Sound, Owned, Called
  <2> QED
    BY <2>2, <2>4 DEF Sound, t, r
<1>4. CASE h # NoHandle
  <2>1. h \in Handles /\ s.lib[h].is # "free" /\ ~s.lib[h].sub
    BY <1>4, StateFields DEF Sound, Owned, Recorder
  <2>2. /\ Sound(e) /\ e.recs = s.recs /\ e.player = s.player
        /\ e.update = s.update /\ ~e.lib[h].sub
    BY <2>1, EndRecordingSound
  <2>3. e \in State /\ e.lib[h] \in Handle
    BY <2>1, <2>2, StateFields DEF Sound
  <2> DEFINE y == [e.lib[h] EXCEPT !.is = "free"]
  <2>4. y \in Handle /\ y.is = "free" /\ ~y.sub
    BY <2>2, <2>3 DEF Handle
  <2>5. t = [e EXCEPT !.recs = r, !.lib = [e.lib EXCEPT ![h] = y]]
    BY <1>4, <2>2, <2>3 DEF RemoveRecorder, State
  <2>6. /\ t.recs = r /\ t.player = s.player /\ t.update = s.update
        /\ t.lib = [e.lib EXCEPT ![h] = y] /\ t \in State
    <3> HIDE DEF e, h, y, t, r
    <3> QED
      BY <1>2, <2>1, <2>2, <2>3, <2>4, <2>5 DEF State
  <2>7. \A g \in Handles : t.lib[g] = IF g = h THEN y ELSE e.lib[g]
    BY <2>1, <2>3, <2>6 DEF State
  <2>8. \A i \in Ids : r[i].rec # h
    BY <1>1, <1>2, <1>4, <2>2 DEF Sound, Owned
  <2>9. r[id] = NoRecorder /\ s.recs[id].rec = h
    BY <1>2
  <2> HIDE DEF e, h, y, t, r
  <2>10. \A i \in Ids : ~t.recs[i].on => t.recs[i] = NoRecorder
    BY <1>1, <1>2, <2>2, <2>6 DEF Sound, Owned
  <2>11. \A i \in Ids : t.recs[i].rec # NoHandle =>
                        /\ t.recs[i].rec \in Handles \ {h}
                        /\ t.recs[i] = e.recs[i]
                        /\ t.lib[t.recs[i].rec] = e.lib[e.recs[i].rec]
    BY <1>1, <1>2, <2>2, <2>6, <2>7, <2>8
  <2>12. \A i \in Ids, j \in Ids :
             i # j /\ t.recs[i].rec = t.recs[j].rec
                => t.recs[i].rec = NoHandle
    BY <2>2, <2>11 DEF Sound, Owned
  <2>13. \A g \in Handles : t.lib[g].sub \/ t.lib[g].is = "recording" =>
                                \E i \in Ids : t.recs[i].rec = g
    BY <1>2, <2>2, <2>4, <2>6, <2>7, <2>9 DEF Sound, Owned
  <2>14. Owned(t)
    BY <2>2, <2>10, <2>11, <2>12, <2>13 DEF Sound, Owned
  <2>15. Called(t)
    BY <1>1, <1>2, <2>2, <2>6, <2>11 DEF Sound, Called
  <2> QED
    BY <2>6, <2>14, <2>15 DEF Sound, t, r
<1> QED
  BY <1>3, <1>4

\* stopRecording leaves nothing under the id, whether it recorded or not.
LEMMA StopRecordingSound ==
    ASSUME NEW s, Sound(s), NEW id \in Ids
    PROVE  /\ Sound(StopRecording(s, id))
           /\ StopRecording(s, id).recs = [s.recs EXCEPT ![id] = NoRecorder]
           /\ StopRecording(s, id).player = s.player
           /\ StopRecording(s, id).update = s.update
<1> DEFINE t == StopRecorder(s, id)
           x == [t.recs[id] EXCEPT !.obs = "NULL"]
           u == [t EXCEPT !.recs[id].obs = "NULL"]
           r == [t.recs EXCEPT ![id] = x]
<1>1. CASE ~s.recs[id].on
  <2>1. s.recs[id] = NoRecorder /\ s.recs \in [Ids -> Recorder]
    BY <1>1 DEF Sound, Owned, State
  <2> QED
    BY <1>1, <2>1 DEF StopRecording
<1>2. CASE s.recs[id].on
  <2>1. /\ Sound(t) /\ t.recs = s.recs /\ t.player = s.player
        /\ t.update = s.update /\ Stopped(t, id) /\ t \in State
        /\ t.recs[id] \in Recorder
    BY StopRecorderSound, StateFields DEF Sound
  <2>2. /\ x \in Recorder /\ x.rec = t.recs[id].rec /\ x.on = t.recs[id].on
        /\ x.obs = "NULL"
    BY <2>1 DEF Recorder
  <2>3. u = [t EXCEPT !.recs = r]
    BY <2>1 DEF State
  <2> HIDE DEF x
  <2>4. /\ r \in [Ids -> Recorder]
        /\ \A i \in Ids : r[i] = IF i = id THEN x ELSE t.recs[i]
    BY <2>1, <2>2 DEF State
  <2>5. [r EXCEPT ![id] = NoRecorder] = [s.recs EXCEPT ![id] = NoRecorder]
    BY <2>1, <2>4 DEF State
  <2> HIDE DEF t, r
  <2>6. /\ u.recs = r /\ u.player = s.player /\ u.update = s.update
        /\ u.lib = t.lib /\ u \in State
    <3> HIDE DEF u
    <3> QED
      BY <2>1, <2>3, <2>4 DEF State
  <2>7. \A i \in Ids : r[i].rec = t.recs[i].rec
    BY <2>2, <2>4
  <2> HIDE DEF u
  <2>8. Owned(u)
    BY SMTT(30), <1>2, <2>1, <2>2, <2>4, <2>6, <2>7 DEF Sound, Owned
  <2>9. Called(u)
    BY <2>1, <2>2, <2>4, <2>6, <2>7 DEF Sound, Called, Stopped
  <2>10. u.recs[id].rec # NoHandle => ~u.lib[u.recs[id].rec].sub
    BY <2>1, <2>6, <2>7 DEF Stopped
  <2>11. StopRecording(s, id) = RemoveRecorder(u, id)
    BY <1>2 DEF StopRecording, u, t
  <2> QED
    BY SMTT(30), <2>5, <2>6, <2>8, <2>9, <2>10, <2>11, RemoveRecorderSound
       DEF Sound
<1> QED
  BY <1>1, <1>2

\* A slot whose recorder has no handle may be rewritten, and one that is
\* stopped emptied or given other devices; p is what the slot holds then.
LEMMA RewriteSlot ==
    ASSUME NEW s, Sound(s), NEW id \in Ids, Stopped(s, id),
           NEW p \in Recorder, ~p.on => p = NoRecorder,
           p.rec \in {NoHandle, s.recs[id].rec},
           p.obs \in {"NULL", s.recs[id].obs}
    PROVE  /\ Sound([s EXCEPT !.recs[id] = p])
           /\ [s EXCEPT !.recs[id] = p].recs = [s.recs EXCEPT ![id] = p]
           /\ [s EXCEPT !.recs[id] = p].recs[id] = p
           /\ [s EXCEPT !.recs[id] = p].lib = s.lib
           /\ [s EXCEPT !.recs[id] = p].player = s.player
           /\ [s EXCEPT !.recs[id] = p].update = s.update
           /\ [s EXCEPT !.recs[id] = p].open = s.open
<1> DEFINE r == [s.recs EXCEPT ![id] = p]
           t == [s EXCEPT !.recs[id] = p]
<1>1. /\ s \in State /\ r \in [Ids -> Recorder] /\ r[id] = p
      /\ \A i \in Ids : r[i] = IF i = id THEN p ELSE s.recs[i]
      /\ \A i \in Ids : s.recs[i].rec \in Handles \cup {NoHandle}
      /\ \A i \in Ids : r[i].rec \in {NoHandle, s.recs[i].rec}
  BY StateFields DEF Sound, State, Recorder
<1>2. t = [s EXCEPT !.recs = r]
  BY <1>1 DEF State
<1> HIDE DEF r
<1>3. /\ t.recs = r /\ t.player = s.player /\ t.update = s.update
      /\ t.lib = s.lib /\ t \in State /\ t.open = s.open
  <2> HIDE DEF t
  <2> QED
    BY <1>1, <1>2 DEF State
<1> HIDE DEF t
<1>4. \A h \in Handles : s.lib[h].sub \/ s.lib[h].is = "recording" =>
          \E i \in Ids : i # id /\ s.recs[i].rec = h
  BY AddressesAssumption DEF Sound, Owned, Stopped
<1>5. Owned(t)
  BY <1>1, <1>3, <1>4 DEF Sound, Owned
<1>6. Called(t)
  BY <1>1, <1>3 DEF Sound, Called, Stopped
<1> QED
  BY <1>1, <1>3, <1>5, <1>6 DEF Sound, t, r

\* getRecorder hands out a stopped recorder, or none, and touches no other.
LEMMA GetRecorderSound ==
    ASSUME NEW s, Sound(s), NEW id \in Ids, NEW dev \in Devs
    PROVE  /\ Sound(GetRecorder(s, id, dev))
           /\ Stopped(GetRecorder(s, id, dev), id)
           /\ GetRecorder(s, id, dev).player = s.player
           /\ GetRecorder(s, id, dev).update = s.update
           /\ s.recs[id].on => GetRecorder(s, id, dev).recs[id].on
           /\ ~s.recs[id].on => /\ GetRecorder(s, id, dev).lib = s.lib
                                /\ GetRecorder(s, id, dev).open = s.open
<1> DEFINE g == GetRecorder(s, id, dev)
           t == StopRecorder(s, id)
           p == [t.recs[id] EXCEPT !.dev = dev]
           n == [NoRecorder EXCEPT !.on = TRUE, !.dev = dev]
<1>1. CASE s.recs[id].on
  <2>1. /\ Sound(t) /\ t.recs = s.recs /\ t.player = s.player
        /\ t.update = s.update /\ Stopped(t, id) /\ t \in State
        /\ t.recs[id] \in Recorder
    BY StopRecorderSound, StateFields DEF Sound
  <2>2. /\ p \in Recorder /\ p.rec = t.recs[id].rec /\ p.on
        /\ p.obs = t.recs[id].obs
    BY <1>1, <2>1 DEF Recorder
  <2>3. g = [t EXCEPT !.recs[id] = p]
    BY <1>1, <2>1 DEF GetRecorder, State
  <2> HIDE DEF p, t, g
  <2> QED
    BY <1>1, <2>1, <2>2, <2>3, RewriteSlot DEF Stopped, g
<1>2. CASE ~s.recs[id].on
  <2>1. s.recs[id] = NoRecorder
    BY <1>2 DEF Sound, Owned
  <2>2. s.recs[id].rec = NoHandle /\ Stopped(s, id)
    BY <2>1 DEF Stopped, NoRecorder
  <2>3. n \in Recorder /\ n.on /\ n.rec = NoHandle /\ n.obs = "NULL"
    BY StateFields DEF NoRecorder, Recorder, Sound
  <2>4. g = [s EXCEPT !.recs[id] = n] \/ g = s
    BY <1>2 DEF GetRecorder
  <2>5. CASE g = s
    BY <2>2, <2>5
  <2>6. CASE g = [s EXCEPT !.recs[id] = n]
    <3> DEFINE u == [s EXCEPT !.recs[id] = n]
    <3> HIDE DEF n
    <3>1. /\ Sound(u) /\ u.recs[id] = n /\ u.lib = s.lib
          /\ u.player = s.player /\ u.update = s.update
          /\ u.open = s.open
      BY <2>2, <2>3, RewriteSlot
    <3> HIDE DEF u
    <3>2. g = u
      BY <2>6 DEF u
    <3> QED
      BY <2>3, <3>1, <3>2 DEF Stopped
  <2> QED
    BY <2>4, <2>5, <2>6
<1> QED
  BY <1>1, <1>2

\* startRecording: the callback it subscribes has a recorder and an observer;
\* the handle its recorder had before is not recording.
LEMMA StartRecordingSound ==
    ASSUME NEW s, Sound(s), NEW id \in Ids, NEW dev \in Devs,
           NEW obs \in {"queue", "player"}, NEW a,
           obs = "player" => /\ id = Shift
                             /\ s.player.id # NoPlayer /\ ~s.player.disabled,
           a \in Allocations(GetRecorder(s, id, dev))
    PROVE  /\ Sound(StartRecording(s, id, dev, obs, a))
           /\ StartRecording(s, id, dev, obs, a).player = s.player
           /\ StartRecording(s, id, dev, obs, a).recs[id].on =>
                 StartRecording(s, id, dev, obs, a).recs[id].rec \in Handles
<1> DEFINE g == GetRecorder(s, id, dev)
           t == StartRecording(s, id, dev, obs, a)
<1>1. /\ Sound(g) /\ Stopped(g, id) /\ g.player = s.player
      /\ g.update = s.update /\ g \in State
      /\ g.recs[id] \in Recorder
  BY GetRecorderSound, StateFields DEF Sound
<1>2. CASE ~g.recs[id].on
  BY <1>1, <1>2, GetRecorderSound DEF StartRecording
<1>3. CASE g.recs[id].on /\ a[1] = NoHandle
  <2>1. t = [g EXCEPT !.recs[id] = NoRecorder]
    BY <1>3 DEF StartRecording
  <2>2. /\ NoRecorder \in Recorder /\ NoRecorder.rec = NoHandle
        /\ NoRecorder.obs = "NULL" /\ ~NoRecorder.on
    BY <1>1, StateFields DEF NoRecorder
  <2> HIDE DEF g, t
  <2> QED
    BY <1>1, <2>1, <2>2, RewriteSlot DEF t
<1>4. CASE g.recs[id].on /\ a[1] # NoHandle
  <2> DEFINE h == a[1]
             y == [is |-> "recording", sub |-> TRUE, file |-> a[2],
                   detached |-> FALSE]
             p == [g.recs[id] EXCEPT !.rec = h, !.obs = obs]
             r == [g.recs EXCEPT ![id] = p]
             l == [g.lib EXCEPT ![h] = y]
             o == g.open \cup {a[2]}
             c == IF Held(g, a[2]) \/ g.shift = a[2] THEN g.crossed ELSE g.crossed \ {a[2]}
  <2>1. h \in Handles /\ a[2] \in Files /\ g.lib[h].is = "free"
    BY <1>4 DEF Allocations
  <2>2. /\ y \in Handle /\ p \in Recorder /\ p.on /\ p.rec = h /\ p.obs = obs
    BY <1>1, <1>4, <2>1 DEF Handle, Recorder
  <2>3. t = [g EXCEPT !.recs = r, !.lib = l, !.open = o, !.crossed = c]
    <3>1. t = [g EXCEPT !.recs[id] = p, !.lib[h] = y, !.open = o, !.crossed = c]
      BY <1>4 DEF StartRecording
    <3> HIDE DEF g, h, y, p, o, c, t
    <3> QED
      BY <3>1, <1>1 DEF State
  <2>4. o \subseteq Files /\ c \subseteq Files
    BY <1>1, <2>1 DEF State
  <2> HIDE DEF y, p, o, c
  <2>5. /\ r \in [Ids -> Recorder] /\ l \in [Handles -> Handle]
        /\ \A i \in Ids : r[i] = IF i = id THEN p ELSE g.recs[i]
        /\ \A k \in Handles : l[k] = IF k = h THEN y ELSE g.lib[k]
    BY <1>1, <2>1, <2>2 DEF State
  <2> HIDE DEF g, h, t, r, l
  <2>6. /\ t.recs = r /\ t.lib = l /\ t.player = s.player
        /\ t.update = s.update /\ t \in State
    BY <1>1, <2>3, <2>4, <2>5 DEF State
  <2>7. \A i \in Ids : /\ g.recs[i].rec \in Handles \cup {NoHandle}
                       /\ g.recs[i].rec # h
    BY <1>1, <2>1, StateFields DEF Sound, Owned, Recorder
  <2>8. h # NoHandle /\ y.is = "recording" /\ y.sub
    BY <2>1, AddressesAssumption DEF y
  <2>9. \A k \in Handles : g.lib[k].sub \/ g.lib[k].is = "recording" =>
            \E i \in Ids : i # id /\ g.recs[i].rec = k
    BY <1>1, AddressesAssumption DEF Sound, Owned, Stopped
  <2>10. \A i \in Ids :
             /\ ~r[i].on => r[i] = NoRecorder
             /\ r[i].rec # NoHandle => l[r[i].rec].is # "free"
    BY <1>1, <2>1, <2>2, <2>5, <2>7, <2>8 DEF Sound, Owned
  <2>11. \A i \in Ids, j \in Ids :
             i # j /\ r[i].rec = r[j].rec => r[i].rec = NoHandle
    BY <1>1, <2>2, <2>5, <2>7 DEF Sound, Owned
  <2>12. \A k \in Handles : l[k].sub \/ l[k].is = "recording" =>
             \E i \in Ids : r[i].rec = k
    BY <2>2, <2>5, <2>9
  <2>13. Owned(t)
    BY <2>6, <2>10, <2>11, <2>12 DEF Owned
  <2>14. Called(t)
    BY <1>1, <2>2, <2>5, <2>6, <2>7 DEF Sound, Called
  <2>15. t.recs[id].rec = h
    BY <2>2, <2>5, <2>6
  <2> QED
    BY <2>1, <2>6, <2>13, <2>14, <2>15 DEF Sound, t
<1> QED
  BY <1>2, <1>3, <1>4

\* RecorderManager::releaseAll leaves no recorder, and no handle that still
\* records or is subscribed.
LEMMA ReleaseRecordersSound ==
    ASSUME NEW s, Sound(s)
    PROVE  Sound(ReleaseRecorders(s))
<1> DEFINE owned == {s.recs[id].rec : id \in Ids} \ {NoHandle}
           shut == {s.lib[h].file : h \in {g \in owned : ~s.lib[g].detached}}
           r == [id \in Ids |-> NoRecorder]
           l == [h \in Handles |->
                    IF h \in owned THEN FreeHandle ELSE s.lib[h]]
           o == s.open \ shut
           t == ReleaseRecorders(s)
<1>1. s \in State /\ NoRecorder \in Recorder /\ FreeHandle \in Handle
  BY StateFields DEF Sound
<1>2. /\ r \in [Ids -> Recorder] /\ l \in [Handles -> Handle]
      /\ o \subseteq Files
  BY <1>1 DEF State
<1>3. t = [s EXCEPT !.recs = r, !.lib = l, !.open = o]
  BY DEF ReleaseRecorders
<1>4. /\ ~FreeHandle.sub /\ FreeHandle.is = "free" /\ ~NoRecorder.on
      /\ NoRecorder.rec = NoHandle /\ NoRecorder.obs = "NULL"
  BY DEF FreeHandle, NoRecorder
<1>5. \A h \in Handles : ~l[h].sub /\ l[h].is # "recording"
  BY <1>4, AddressesAssumption DEF Sound, Owned
<1>6. \A i \in Ids : r[i] = NoRecorder
  OBVIOUS
<1> HIDE DEF r, l, o, t
<1>7. t \in State /\ t.recs = r /\ t.lib = l
  BY <1>1, <1>2, <1>3 DEF State
<1>8. Owned(t) /\ Called(t)
  BY <1>4, <1>5, <1>6, <1>7 DEF Owned, Called
<1> QED
  BY <1>7, <1>8 DEF Sound, t

-----------------------------------------------------------------------------
(* Lemmas about the player. *)

\* Closing the file the player holds disturbs no recorder.
LEMMA CloseTFileSound ==
    ASSUME NEW s, Sound(s)
    PROVE  /\ Sound(CloseTFile(s))
           /\ CloseTFile(s).recs = s.recs /\ CloseTFile(s).lib = s.lib
           /\ CloseTFile(s).player = s.player
           /\ CloseTFile(s).update = s.update
<1> DEFINE t == CloseTFile(s)
<1>1. s \in State
  BY DEF Sound
<1>2. /\ t \in State /\ t.recs = s.recs /\ t.lib = s.lib
      /\ t.player = s.player /\ t.update = s.update
  BY <1>1 DEF CloseTFile, State
<1> HIDE DEF t
<1> QED
  BY <1>2, SameRecorders DEF t

\* The player's stop ends the time-shift recording: nothing reports to the
\* player any more, refused or not.
LEMMA StopPlayerSound ==
    ASSUME NEW s, Sound(s), NEW refused \in BOOLEAN
    PROVE  /\ Sound(StopPlayer(s, refused))
           /\ Unobserved(StopPlayer(s, refused))
           /\ StopPlayer(s, refused).player = s.player
<1> DEFINE t == IF s.player.disabled THEN s ELSE StopRecording(s, Shift)
           u == [t EXCEPT !.shift = NoFile, !.refused = NoFile]
           w == [t EXCEPT !.refused = s.shift]
           v == StopPlayer(s, refused)
<1>1. NoRecorder.obs = "NULL" /\ Shift \in Ids
  BY DEF NoRecorder, Ids
<1>2. Sound(t) /\ Unobserved(t) /\ t.player = s.player /\ t \in State
  <2>1. CASE s.player.disabled
    BY <2>1 DEF Sound, Called, Unobserved
  <2>2. CASE ~s.player.disabled
    <3> DEFINE m == StopRecording(s, Shift)
    <3>1. /\ Sound(m) /\ m.recs = [s.recs EXCEPT ![Shift] = NoRecorder]
          /\ m.player = s.player
      BY <1>1, StopRecordingSound
    <3> HIDE DEF m
    <3>2. Unobserved(m)
      BY <1>1, <3>1 DEF Sound, State, Called, Unobserved
    <3>3. t = m
      BY <2>2 DEF m
    <3> QED
      BY <3>1, <3>2, <3>3 DEF Sound
  <2> QED
    BY <2>1, <2>2
<1>3. v = IF refused THEN w ELSE CloseTFile(u)
  BY DEF StopPlayer
<1> HIDE DEF t
<1>4. /\ u \in State /\ u.recs = t.recs /\ u.lib = t.lib
      /\ u.player = t.player
      /\ w \in State /\ w.recs = t.recs /\ w.lib = t.lib
      /\ w.player = t.player
  BY <1>2 DEF Sound, State
<1> HIDE DEF u, v, w
<1>5. Sound(u) /\ Unobserved(u) /\ Sound(w) /\ Unobserved(w)
  BY <1>2, <1>4, SameRecorders DEF Unobserved
<1>6. /\ Sound(CloseTFile(u)) /\ Unobserved(CloseTFile(u))
      /\ CloseTFile(u).player = s.player
  BY <1>2, <1>4, <1>5, CloseTFileSound DEF Unobserved
<1> QED
  BY <1>2, <1>3, <1>4, <1>5, <1>6 DEF v

\* ~CDTVTvPlayer after stop(): no recorder is left that reports to it.
LEMMA DeletePlayerSound ==
    ASSUME NEW s, Sound(s), Unobserved(s)
    PROVE  /\ Sound(DeletePlayer(s))
           /\ DeletePlayer(s).player = Nobody
<1> DEFINE w == IF s.recs[Shift].on THEN StopRecorder(s, Shift) ELSE s
           t == CloseTFile(w)
           Orphan(obs) == IF obs = "player" THEN "deleted" ELSE obs
           r == [id \in Ids |->
                    [t.recs[id] EXCEPT !.obs = Orphan(t.recs[id].obs)]]
           d == DeletePlayer(s)
<1>1. Shift \in Ids
  BY DEF Ids
<1>2. Sound(w) /\ w.recs = s.recs
  BY <1>1, StopRecorderSound
<1> HIDE DEF w
<1>3. Sound(t) /\ t.recs = s.recs /\ t \in State /\ Unobserved(t)
  BY <1>2, CloseTFileSound DEF Sound, Unobserved
<1>4. d = [t EXCEPT !.player = Nobody, !.update = Orphan(t.update), !.recs = r]
  <2>1. t.recs \in [Ids -> Recorder]
    BY <1>3 DEF State
  <2> QED
    BY <2>1 DEF DeletePlayer, w
<1> HIDE DEF t, d
<1>5. r = t.recs
  <2>1. t.recs \in [Ids -> Recorder]
    BY <1>3 DEF State
  <2>2. ASSUME NEW id \in Ids
        PROVE  [t.recs[id] EXCEPT !.obs = Orphan(t.recs[id].obs)] = t.recs[id]
    BY <1>3, <2>1 DEF Unobserved, Recorder
  <2> QED
    BY <2>1, <2>2
<1> HIDE DEF r
<1>6. Orphan(t.update) \in {"none", "player", "deleted"}
  BY <1>3 DEF State
<1> HIDE DEF Orphan
<1>7. Nobody \in Player
  BY <1>3, StateFields
<1>8. d \in State /\ d.recs = t.recs /\ d.lib = t.lib /\ d.player = Nobody
  BY <1>3, <1>4, <1>5, <1>6, <1>7 DEF State
<1> QED
  BY <1>3, <1>8, SameRecorders DEF d

\* PlayerManager::releaseAll leaves no player.
LEMMA ReleasePlayerSound ==
    ASSUME NEW s, Sound(s), NEW refused \in BOOLEAN
    PROVE  /\ Sound(ReleasePlayer(s, refused))
           /\ ReleasePlayer(s, refused).player.id = NoPlayer
<1>1. CASE s.player.id = NoPlayer
  BY <1>1 DEF ReleasePlayer
<1>2. CASE s.player.id # NoPlayer
  <2>1. /\ Sound(StopPlayer(s, refused))
        /\ Unobserved(StopPlayer(s, refused))
    BY StopPlayerSound
  <2>2. Nobody.id = NoPlayer
    BY DEF Nobody
  <2> QED
    BY <1>2, <2>1, <2>2, DeletePlayerSound DEF ReleasePlayer
<1> QED
  BY <1>1, <1>2

\* getPlayer hands out the player asked for, with nothing reporting to it yet.
LEMMA GetPlayerSound ==
    ASSUME NEW s, Sound(s), NEW id \in PlayerIds, NEW mode \in Modes,
           NEW prop \in BOOLEAN, NEW refused \in BOOLEAN
    PROVE  /\ Sound(GetPlayer(s, id, mode, prop, refused))
           /\ Unobserved(GetPlayer(s, id, mode, prop, refused))
           /\ GetPlayer(s, id, mode, prop, refused).player.id = id
<1> DEFINE g == GetPlayer(s, id, mode, prop, refused)
<1>1. s \in State /\ s.player \in Player
  BY StateFields DEF Sound
<1>2. CASE s.player.id = id
  <2> DEFINE t == [s EXCEPT !.player.mode = mode]
  <2>1. /\ t \in State /\ t.recs = s.recs /\ t.lib = s.lib
        /\ t.player.id = s.player.id
        /\ t.player.disabled = s.player.disabled
    BY <1>1 DEF State, Player
  <2> HIDE DEF t
  <2>2. Sound(t)
    BY <2>1, SameRecorders
  <2>3. g = StopPlayer(t, refused)
    BY <1>2 DEF GetPlayer, t
  <2> QED
    BY <1>2, <2>1, <2>2, <2>3, StopPlayerSound
<1>3. CASE s.player.id # id
  <2> DEFINE t == ReleasePlayer(s, refused)
             p == [id |-> id, mode |-> mode, disabled |-> prop,
                   tfile |-> NoFile]
  <2>1. Sound(t) /\ Unobserved(t) /\ t \in State
    BY ReleasePlayerSound DEF Sound, Called, Unobserved
  <2>2. p \in Player /\ p.id = id
    BY DEF Player
  <2>3. g = [t EXCEPT !.player = p]
    BY <1>3 DEF GetPlayer
  <2> HIDE DEF t, p, g
  <2>4. g \in State /\ g.recs = t.recs /\ g.lib = t.lib /\ g.player = p
    BY <2>1, <2>2, <2>3 DEF State
  <2> QED
    BY <2>1, <2>2, <2>4, SameRecorders DEF Unobserved, g
<1> QED
  BY <1>2, <1>3

\* Before a live play records, nothing records under its id.
LEMMA ClearShiftSound ==
    ASSUME NEW s, Sound(s)
    PROVE  /\ Sound(ClearShift(s))
           /\ ClearShift(s).player = s.player
           /\ ~s.player.disabled => ~ClearShift(s).recs[Shift].on
<1> DEFINE t == StopRecording(s, Shift)
<1>1. Shift \in Ids /\ ~NoRecorder.on
  BY DEF Ids, NoRecorder
<1>2. /\ Sound(t) /\ t.recs = [s.recs EXCEPT ![Shift] = NoRecorder]
      /\ t.player = s.player
  BY <1>1, StopRecordingSound
<1>3. ~t.recs[Shift].on
  BY <1>1, <1>2 DEF Sound, State
<1>4. ClearShift(s) = IF s.player.disabled THEN s ELSE CloseTFile(t)
  BY DEF ClearShift
<1> HIDE DEF t
<1> QED
  BY <1>2, <1>3, <1>4, CloseTFileSound

\* A live play: its recorder reports to it, and it holds the recorder's file.
LEMMA StartLiveSound ==
    ASSUME NEW s, Sound(s), s.player.id # NoPlayer,
           ~s.player.disabled => ~s.recs[Shift].on,
           NEW a \in Allocations(s), NEW got \in BOOLEAN, NEW plays \in BOOLEAN
    PROVE  Sound(StartLive(s, a, got, plays))
<1> DEFINE r == StartRecording(s, Shift, ShiftDev, "player", a)
           h == r.recs[Shift].rec
           t == IF got THEN DetachFile(r, h)
                ELSE [r EXCEPT !.player.tfile = NoFile]
           u == [t EXCEPT !.player.mode = "timeshift",
                          !.shift = t.player.tfile, !.refused = NoFile]
           v == [t EXCEPT !.player.mode = "plain"]
<1>1. CASE s.player.disabled
  <2> DEFINE w == [s EXCEPT !.player.mode = "plain"]
  <2>1. /\ w \in State /\ w.recs = s.recs /\ w.lib = s.lib
        /\ w.player.id = s.player.id /\ w.player.disabled = s.player.disabled
    BY DEF Sound, State, Player, Modes
  <2> HIDE DEF w
  <2>2. Sound(w)
    BY <2>1, SameRecorders
  <2> QED
    BY <1>1, <2>2 DEF StartLive, w
<1>2. CASE ~s.player.disabled
  <2>1. Shift \in Ids /\ ShiftDev \in Devs
    BY DevsAssumption DEF Ids
  <2>2. a \in Allocations(GetRecorder(s, Shift, ShiftDev))
    <3>1. /\ GetRecorder(s, Shift, ShiftDev).lib = s.lib
          /\ GetRecorder(s, Shift, ShiftDev).open = s.open
      BY <1>2, <2>1, GetRecorderSound
    <3> QED
      BY <3>1 DEF Allocations
  <2>3. Sound(r) /\ r.player = s.player /\ (r.recs[Shift].on => h \in Handles)
    BY <1>2, <2>1, <2>2, StartRecordingSound
  <2>4. StartLive(s, a, got, plays) =
           IF ~r.recs[Shift].on THEN [r EXCEPT !.player.mode = "plain"]
           ELSE IF plays THEN u ELSE v
    BY <1>2 DEF StartLive
  <2> HIDE DEF r
  <2>5. r \in State /\ r.player \in Player
    BY <2>3, StateFields DEF Sound
  <2>6. CASE ~r.recs[Shift].on
    <3> DEFINE w == [r EXCEPT !.player.mode = "plain"]
    <3>1. /\ w \in State /\ w.recs = r.recs /\ w.lib = r.lib
          /\ w.player.id = r.player.id /\ w.player.disabled = r.player.disabled
      BY <2>5 DEF State, Player, Modes
    <3> HIDE DEF w
    <3>2. Sound(w)
      BY <2>3, <3>1, SameRecorders
    <3> QED
      BY <2>4, <2>6, <3>2 DEF w
  <2>7. CASE r.recs[Shift].on
    <3>1. h \in Handles /\ r.lib[h] \in Handle
      BY <2>3, <2>5, <2>7, StateFields
    <3> DEFINE f == r.lib[h].file
               y == [r.lib[h] EXCEPT !.detached = TRUE]
               p == [r.player EXCEPT !.tfile = f]
               q == [r.player EXCEPT !.tfile = NoFile]
               l == [r.lib EXCEPT ![h] = y]
    <3>2. /\ y \in Handle /\ y.is = r.lib[h].is /\ y.sub = r.lib[h].sub
          /\ p \in Player /\ p.id = r.player.id
          /\ p.disabled = r.player.disabled
          /\ q \in Player /\ q.id = r.player.id
          /\ q.disabled = r.player.disabled
      BY <2>5, <3>1 DEF Handle, Player
    <3>3. t = IF got THEN [r EXCEPT !.player = p, !.lib = l]
              ELSE [r EXCEPT !.player = q]
      BY <2>5, <3>1 DEF DetachFile, State
    <3> HIDE DEF h, y, p, q, t
    <3>4. /\ l \in [Handles -> Handle]
          /\ \A k \in Handles : l[k] = IF k = h THEN y ELSE r.lib[k]
      BY <2>5, <3>1, <3>2 DEF State
    <3> HIDE DEF l
    <3>5. /\ t \in State /\ t.recs = r.recs
          /\ t.lib \in {l, r.lib} /\ t.player \in {p, q}
      BY <2>5, <3>2, <3>3, <3>4 DEF State
    <3>6. /\ \A k \in Handles : /\ t.lib[k].is = r.lib[k].is
                                /\ t.lib[k].sub = r.lib[k].sub
          /\ t.player.id = r.player.id
          /\ t.player.disabled = r.player.disabled
          /\ t.player \in Player
      BY <3>2, <3>4, <3>5
    <3>7. Sound(t)
      BY <2>3, <3>5, <3>6, SameRecorders
    <3>8. /\ u \in State /\ u.recs = t.recs /\ u.lib = t.lib
          /\ u.player.id = t.player.id
          /\ u.player.disabled = t.player.disabled
      BY <3>5, <3>6 DEF State, Player, Modes
    <3>9. /\ v \in State /\ v.recs = t.recs /\ v.lib = t.lib
          /\ v.player.id = t.player.id
          /\ v.player.disabled = t.player.disabled
      BY <3>5, <3>6 DEF State, Player, Modes
    <3> HIDE DEF u, v
    <3>10. Sound(u) /\ Sound(v)
      BY <3>7, <3>8, <3>9, SameRecorders
    <3> QED
      BY <2>4, <2>7, <3>10
  <2> QED
    BY <2>6, <2>7
<1> QED
  BY <1>1, <1>2

-----------------------------------------------------------------------------
(* The theorems. *)

\* At the start nothing is registered, subscribed or played.
LEMMA InitSound == Init => IInv
<1> SUFFICES ASSUME Init PROVE IInv
  OBVIOUS
<1> DEFINE r == [id \in Ids |-> NoRecorder]
           l == [h \in Handles |-> FreeHandle]
<1>1. /\ NoRecorder \in Recorder /\ FreeHandle \in Handle /\ Nobody \in Player
      /\ ~NoRecorder.on /\ NoRecorder.rec = NoHandle /\ NoRecorder.obs = "NULL"
      /\ ~FreeHandle.sub /\ FreeHandle.is = "free"
  BY DevsAssumption DEF NoRecorder, Recorder, FreeHandle, Handle, Nobody,
                        Player, Modes
<1>2. /\ r \in [Ids -> Recorder] /\ \A id \in Ids : r[id] = NoRecorder
      /\ l \in [Handles -> Handle] /\ \A h \in Handles : l[h] = FreeHandle
  BY <1>1
<1>3. st = [recs |-> r, lib |-> l, open |-> {}, player |-> Nobody, shift |-> NoFile,
            refused |-> NoFile, crossed |-> {}, update |-> "none"]
  BY DEF Init
<1> HIDE DEF r, l
<1>4. st \in State /\ st.recs = r /\ st.lib = l
  BY <1>1, <1>2, <1>3 DEF State
<1>5. Owned(st) /\ Called(st)
  BY <1>1, <1>2, <1>4 DEF Owned, Called
<1> QED
  BY <1>4, <1>5 DEF IInv, Sound

\* The clients' recording commands keep the state sound.
LEMMA RecordingStep ==
    IInv /\ (PrepareRecording \/ DoStartRecording \/ DoStopRecording) => IInv'
<1> SUFFICES ASSUME IInv,
                    PrepareRecording \/ DoStartRecording \/ DoStopRecording
             PROVE  IInv'
  OBVIOUS
<1>1. Sound(st) /\ RecIds \subseteq Ids
  BY DEF IInv, Ids
<1>2. CASE PrepareRecording
  <2>1. PICK id \in RecIds, dev \in Devs : st' = GetRecorder(st, id, dev)
    BY <1>2 DEF PrepareRecording
  <2> QED
    BY <1>1, <2>1, GetRecorderSound DEF IInv
<1>3. CASE DoStartRecording
  <2>1. PICK id \in RecIds, dev \in Devs :
            \E a \in Allocations(GetRecorder(st, id, dev)) :
                st' = StartRecording(st, id, dev, "queue", a)
    BY <1>3 DEF DoStartRecording
  <2>2. PICK a \in Allocations(GetRecorder(st, id, dev)) :
            st' = StartRecording(st, id, dev, "queue", a)
    BY <2>1
  <2>3. Sound(StartRecording(st, id, dev, "queue", a))
    BY <1>1, StartRecordingSound
  <2> QED
    BY <2>2, <2>3 DEF IInv
<1>4. CASE DoStopRecording
  <2>1. PICK id \in RecIds : st' = StopRecording(st, id)
    BY <1>4 DEF DoStopRecording
  <2> QED
    BY <1>1, <2>1, StopRecordingSound DEF IInv
<1> QED
  BY <1>2, <1>3, <1>4

\* The play commands keep the state sound.
LEMMA PlayStep ==
    IInv /\ (StartPlayLive \/ StartPlayOther \/ StopPlay \/ PausePlay) => IInv'
<1> SUFFICES ASSUME IInv,
                    StartPlayLive \/ StartPlayOther \/ StopPlay \/ PausePlay
             PROVE  IInv'
  OBVIOUS
<1>1. Sound(st) /\ st \in State
  BY DEF IInv, Sound
<1>3. CASE StartPlayLive
  <2>1. PICK id \in PlayerIds, prop \in BOOLEAN, refused \in BOOLEAN :
            LET g == GetPlayer(st, id, "live", prop, refused)
                r == ClearShift([g EXCEPT !.player.disabled = @ \/ prop])
            IN  \E a \in Allocations(r), got \in BOOLEAN, plays \in BOOLEAN :
                    st' = StartLive(r, a, got, plays)
    BY <1>3 DEF StartPlayLive
  <2> DEFINE g == GetPlayer(st, id, "live", prop, refused)
             d == g.player.disabled \/ prop
             p == [g.player EXCEPT !.disabled = d]
             t == [g EXCEPT !.player = p]
             r == ClearShift(t)
  <2>2. Sound(g) /\ Unobserved(g) /\ g.player.id = id
    <3>1. "live" \in Modes
      BY DEF Modes
    <3> QED
      BY <1>1, <3>1, GetPlayerSound
  <2>3. g \in State /\ g.player \in Player
    BY <2>2, StateFields DEF Sound
  <2>4. [g EXCEPT !.player.disabled = g.player.disabled \/ prop] = t
    BY <2>3 DEF State
  <2>5. \E a \in Allocations(r), got \in BOOLEAN, plays \in BOOLEAN :
            st' = StartLive(r, a, got, plays)
    BY <2>1, <2>4
  <2> HIDE DEF g
  <2>6. d \in BOOLEAN
    BY <2>3 DEF Player
  <2> HIDE DEF d
  <2>7. p \in Player /\ p.id = id
    BY <2>2, <2>3, <2>6 DEF Player
  <2> HIDE DEF p
  <2>8. t \in State /\ t.recs = g.recs /\ t.lib = g.lib /\ t.player = p
    BY <2>3, <2>7 DEF State
  <2> HIDE DEF t
  <2>9. Sound(t) /\ t.player.id # NoPlayer
    BY <2>2, <2>7, <2>8, SameRecorders, PlayersAssumption
  <2>10. /\ Sound(r) /\ r.player = t.player
         /\ ~t.player.disabled => ~r.recs[Shift].on
    BY <2>9, ClearShiftSound
  <2> HIDE DEF r
  <2>11. PICK a \in Allocations(r), got \in BOOLEAN, plays \in BOOLEAN :
             st' = StartLive(r, a, got, plays)
    BY <2>5
  <2>12. Sound(StartLive(r, a, got, plays))
    BY <2>9, <2>10, StartLiveSound
  <2> QED
    BY <2>11, <2>12 DEF IInv
<1>4. CASE StartPlayOther
  <2>1. PICK id \in PlayerIds, mode \in Modes, prop \in BOOLEAN,
             refused \in BOOLEAN, ok \in BOOLEAN :
            LET g == GetPlayer(st, id, mode, prop, refused)
            IN  st' = IF mode = "timeshift" /\ ok
                      THEN [g EXCEPT !.player.mode = "live"] ELSE g
    BY <1>4 DEF StartPlayOther
  <2> DEFINE g == GetPlayer(st, id, mode, prop, refused)
             t == [g EXCEPT !.player.mode = "live"]
  <2>2. Sound(g) /\ g \in State
    BY <1>1, GetPlayerSound DEF Sound
  <2>3. st' = t \/ st' = g
    BY <2>1
  <2> HIDE DEF g
  <2>4. /\ t \in State /\ t.recs = g.recs /\ t.lib = g.lib
        /\ t.player.id = g.player.id /\ t.player.disabled = g.player.disabled
    BY <2>2 DEF State, Player, Modes
  <2> HIDE DEF t
  <2>5. Sound(t)
    BY <2>2, <2>4, SameRecorders
  <2> QED
    BY <2>2, <2>3, <2>5 DEF IInv
<1>5. CASE StopPlay
  <2>1. PICK refused \in BOOLEAN :
            st' = DeletePlayer(StopPlayer(st, refused))
    BY <1>5 DEF StopPlay
  <2> QED
    BY <1>1, <2>1, StopPlayerSound, DeletePlayerSound DEF IInv
<1>6. CASE PausePlay
  <2> DEFINE t == [st EXCEPT !.player.mode = "timeshift",
                             !.shift = st.player.tfile, !.refused = NoFile]
  <2>1. /\ t \in State /\ t.recs = st.recs /\ t.lib = st.lib
        /\ t.player.id = st.player.id
        /\ t.player.disabled = st.player.disabled
    BY <1>1 DEF State, Player, Modes
  <2>2. st' = t
    BY <1>6 DEF PausePlay
  <2> HIDE DEF t
  <2>3. Sound(t)
    BY <1>1, <2>1, SameRecorders
  <2> QED
    BY <2>2, <2>3 DEF IInv
<1> QED
  BY <1>3, <1>4, <1>5, <1>6

\* So do leaving the tuner, the recording threads and the message thread.
LEMMA OtherStep ==
    IInv /\ (ReleaseAll \/ RecordEnds \/ FindPlayer \/ PlayUpdate) => IInv'
<1> SUFFICES ASSUME IInv, ReleaseAll \/ RecordEnds \/ FindPlayer \/ PlayUpdate
             PROVE  IInv'
  OBVIOUS
<1>1. Sound(st) /\ st \in State
  BY DEF IInv, Sound
<1>2. CASE ReleaseAll
  <2>1. PICK refused \in BOOLEAN :
            st' = ReleaseRecorders(ReleasePlayer(st, refused))
    BY <1>2 DEF ReleaseAll
  <2> QED
    BY <1>1, <2>1, ReleasePlayerSound, ReleaseRecordersSound DEF IInv
<1>3. CASE RecordEnds
  <2>1. PICK h \in Handles : st.lib[h].is = "recording"
                             /\ st' = EndRecording(st, h)
    BY <1>3 DEF RecordEnds
  <2> QED
    BY <1>1, <2>1, EndRecordingSound DEF IInv
<1>4. CASE FindPlayer \/ PlayUpdate
  <2> DEFINE t == [st EXCEPT !.update = "player"]
             u == [st EXCEPT !.update = "none"]
  <2>1. st' = t \/ st' = u
    BY <1>4 DEF FindPlayer, PlayUpdate
  <2>2. /\ t \in State /\ t.recs = st.recs /\ t.lib = st.lib
        /\ t.player = st.player
        /\ u \in State /\ u.recs = st.recs /\ u.lib = st.lib
        /\ u.player = st.player
    BY <1>1 DEF State
  <2> HIDE DEF t, u
  <2>3. Sound(t) /\ Sound(u)
    BY <1>1, <2>2, SameRecorders
  <2> QED
    BY <2>1, <2>3 DEF IInv
<1> QED
  BY <1>2, <1>3, <1>4

\* Recorders stay owned, subscribed callbacks stay safe, whatever is called
\* and whenever a recording ends.
THEOREM RecordersOwned == Spec => []IInv
<1>1. IInv /\ [Next]_vars => IInv'
  <2>1. IInv /\ UNCHANGED vars => IInv'
    BY DEF IInv, vars
  <2> QED
    BY <2>1, RecordingStep, PlayStep, OtherStep DEF Next
<1> QED
  BY <1>1, InitSound, PTL DEF Spec

\* rec_evt_cb never runs with a recorder or an observer that is gone.
THEOREM CallbackSafe == Spec => []CallbackHasTarget
<1>1. IInv => CallbackHasTarget
  <2> SUFFICES ASSUME IInv, NEW h \in Handles, st.lib[h].sub
               PROVE  \E id \in Ids : /\ st.recs[id].on
                                      /\ st.recs[id].rec = h
                                      /\ st.recs[id].obs \in {"queue", "player"}
    BY DEF CallbackHasTarget
  <2>1. PICK id \in Ids : st.recs[id].rec = h
    BY DEF IInv, Sound, Owned
  <2>2. h # NoHandle /\ NoRecorder.rec = NoHandle
    BY AddressesAssumption DEF NoRecorder
  <2>3. st.recs[id].on /\ st.recs[id].obs \notin {"NULL", "deleted"}
    BY <2>1, <2>2 DEF IInv, Sound, Owned, Called
  <2>4. st.recs[id].obs \in {"NULL", "queue", "player", "deleted"}
    BY StateFields DEF IInv, Sound, Recorder
  <2> QED
    BY <2>1, <2>3, <2>4
<1> QED
  BY <1>1, RecordersOwned, PTL

\* A recording that runs has a registered recorder, which stopRecording and
\* releaseAll find.
THEOREM RecordingsStoppable == Spec => []NoRunawayRecording
<1>1. IInv => NoRunawayRecording
  <2> SUFFICES ASSUME IInv, NEW h \in Handles, st.lib[h].is = "recording"
               PROVE  \E id \in Ids : st.recs[id].on /\ st.recs[id].rec = h
    BY DEF NoRunawayRecording
  <2>1. PICK id \in Ids : st.recs[id].rec = h
    BY DEF IInv, Sound, Owned
  <2>2. h # NoHandle /\ NoRecorder.rec = NoHandle
    BY AddressesAssumption DEF NoRecorder
  <2> QED
    BY <2>1, <2>2 DEF IInv, Sound, Owned
<1> QED
  BY <1>1, RecordersOwned, PTL

-----------------------------------------------------------------------------
(* Who closes the files.  An open file is the player's (mTfile) or that of *)
(* a recording that closes it itself; a file that is played from is open,  *)
(* and no recording closes it.  An address where a player has closed the   *)
(* file of a recording (tryCloseTFile keeps the address it has closed) is  *)
(* left out until it is given out with nobody left there, the session the  *)
(* library would not stop until the library stops or starts one.  Clients  *)
(* keep off the time shift's id.                                           *)

NotReserved == Shift \notin RecIds

\* Every open file is that of a recording that closes it.
AllHeld(s) == \A f \in s.open : Held(s, f)
\* Nothing is played, but what the library would not stop.
Silent(s) == s.shift \in {NoFile, s.refused}

FileRecorded(s) == \A h \in Handles : s.lib[h].file # NoFile => s.lib[h].is = "recording"
FileOwned(s) ==
    \A h \in Handles : ~s.lib[h].detached /\ s.lib[h].file \notin {NoFile} \cup s.crossed =>
        /\ s.lib[h].file \in s.open
        /\ \A k \in Handles : s.lib[k].file = s.lib[h].file /\ ~s.lib[k].detached => k = h
FileClosable(s) == \A f \in s.open : f = s.player.tfile \/ Held(s, f)
FilePlayed(s) ==
    s.shift \notin {NoFile, s.refused} \cup s.crossed => s.shift \in s.open /\ ~Held(s, s.shift)
FilesKept(s) == FileRecorded(s) /\ FileOwned(s) /\ FileClosable(s) /\ FilePlayed(s)

ShiftKept(s) ==
    /\ s.recs[Shift].on => s.player.id # NoPlayer /\ ~s.player.disabled /\ s.player.mode # "live"
    /\ s.player.id = NoPlayer => s.player = Nobody /\ Silent(s)

\* What a recorder's step leaves: the player, and what is played.
Aside(s, t) ==
    /\ t.player = s.player /\ t.shift = s.shift /\ t.refused = s.refused
    /\ t.crossed \subseteq s.crossed
    /\ AllHeld(s) => AllHeld(t)

\* Files stay as they are.
LEMMA SameFiles ==
    ASSUME NEW s, NEW t, FilesKept(s), t.open = s.open, t.crossed = s.crossed,
           t.player.tfile = s.player.tfile, t.shift = s.shift, t.refused = s.refused,
           \A h \in Handles : /\ t.lib[h].file = s.lib[h].file
                              /\ t.lib[h].detached = s.lib[h].detached
                              /\ t.lib[h].file # NoFile => t.lib[h].is = s.lib[h].is
    PROVE  FilesKept(t) /\ (AllHeld(s) => AllHeld(t))
<1>1. \A f : Held(t, f) <=> Held(s, f)
  BY DEF Held
<1>2. FileRecorded(t) /\ FileOwned(t)
  BY DEF FilesKept, FileRecorded, FileOwned
<1>3. FileClosable(t) /\ FilePlayed(t)
  BY <1>1 DEF FilesKept, FileClosable, FilePlayed
<1> QED BY <1>1, <1>2, <1>3 DEF FilesKept, AllHeld

\* A handle lets go of its file, which it closes unless it was detached.
LEMMA EndRecordingFiles ==
    ASSUME NEW s, s \in State, FilesKept(s), NEW h \in Handles
    PROVE  /\ FilesKept(EndRecording(s, h)) /\ Aside(s, EndRecording(s, h))
           /\ EndRecording(s, h).lib[h].file = NoFile
<1> DEFINE x == [FreeHandle EXCEPT !.is = "ended", !.sub = s.lib[h].sub]
           o == IF s.lib[h].detached THEN s.open ELSE s.open \ {s.lib[h].file}
           e == EndRecording(s, h)
<1>1. s.lib \in [Handles -> Handle] /\ s.open \subseteq Files /\ NoFile \notin Files
  BY AddressesAssumption DEF State
<1>2. x.file = NoFile
  BY DEF FreeHandle
<1> HIDE DEF x
<1>3. e = [s EXCEPT !.open = o, !.lib = [s.lib EXCEPT ![h] = x]]
  BY DEF EndRecording, x, State
<1> HIDE DEF e
<1>4. /\ e.open = o /\ e.lib = [s.lib EXCEPT ![h] = x] /\ e.player = s.player /\ e.shift = s.shift
      /\ e.refused = s.refused /\ e.crossed = s.crossed
  BY <1>3 DEF State
<1>5. e.lib[h] = x /\ \A k \in Handles \ {h} : e.lib[k] = s.lib[k]
  BY <1>1, <1>4
<1>6. /\ o \subseteq s.open /\ (~s.lib[h].detached => s.lib[h].file \notin o)
      /\ \A f \in s.open : f \in o \/ (~s.lib[h].detached /\ f = s.lib[h].file)
  OBVIOUS
<1> HIDE DEF o
<1>7. \A f \in o : Held(s, f) => Held(e, f)
  BY <1>5, <1>6 DEF Held
<1>8. \A f : f # NoFile /\ Held(e, f) => Held(s, f)
  BY <1>2, <1>5 DEF Held
<1>9. Aside(s, e)
  BY <1>4, <1>6, <1>7 DEF Aside, AllHeld
<1>10. FileRecorded(e)
  BY <1>2, <1>5 DEF FilesKept, FileRecorded
<1>11. FileOwned(e)
  <2> SUFFICES ASSUME NEW k \in Handles, ~e.lib[k].detached, e.lib[k].file \notin {NoFile} \cup e.crossed
               PROVE  /\ e.lib[k].file \in e.open
                      /\ \A j \in Handles : e.lib[j].file = e.lib[k].file /\ ~e.lib[j].detached => j = k
    BY DEF FileOwned
  <2>1. k # h /\ e.lib[k] = s.lib[k]
    BY <1>2, <1>5
  <2>2. /\ s.lib[k].file \in s.open
        /\ \A j \in Handles : s.lib[j].file = s.lib[k].file /\ ~s.lib[j].detached => j = k
    BY <1>4, <2>1 DEF FilesKept, FileOwned
  <2>3. e.lib[k].file \in e.open
    BY <1>4, <1>6, <2>1, <2>2
  <2> QED BY <1>2, <1>5, <2>1, <2>2, <2>3
<1>12. FileClosable(e)
  BY <1>4, <1>6, <1>7 DEF FilesKept, FileClosable
<1>13. FilePlayed(e)
  <2> SUFFICES ASSUME s.shift \notin {NoFile, s.refused} \cup s.crossed
               PROVE  s.shift \in o /\ ~Held(e, s.shift)
    BY <1>4 DEF FilePlayed
  <2>1. s.shift \in s.open /\ ~Held(s, s.shift)
    BY DEF FilesKept, FilePlayed
  <2> QED BY <1>6, <1>8, <2>1 DEF Held
<1> QED BY <1>2, <1>5, <1>9, <1>10, <1>11, <1>12, <1>13 DEF e, FilesKept

LEMMA StopRecorderFiles ==
    ASSUME NEW s, Sound(s), FilesKept(s), NEW id \in Ids
    PROVE  FilesKept(StopRecorder(s, id)) /\ Aside(s, StopRecorder(s, id))
<1> DEFINE h == s.recs[id].rec
           e == EndRecording(s, h)
           t == StopRecorder(s, id)
<1>1. CASE h = NoHandle
  BY <1>1 DEF StopRecorder, Aside
<1>2. CASE h # NoHandle
  <2>1. h \in Handles /\ s.lib[h].is # "free" /\ s \in State
    BY <1>2, StateFields DEF Sound, Owned, Recorder
  <2>2. FilesKept(e) /\ Aside(s, e) /\ e \in State
    BY <2>1, EndRecordingFiles, EndRecordingSound DEF Sound
  <2> DEFINE y == [e.lib[h] EXCEPT !.sub = FALSE]
  <2>3. t = [e EXCEPT !.lib = [e.lib EXCEPT ![h] = y]]
    BY <1>2, <2>2 DEF State, StopRecorder
  <2>4. e.lib[h] \in Handle /\ e.lib \in [Handles -> Handle]
    BY <2>1, <2>2, StateFields DEF State
  <2>5. y.file = e.lib[h].file /\ y.detached = e.lib[h].detached /\ y.is = e.lib[h].is
    BY <2>4 DEF Handle
  <2> HIDE DEF e, h, y, t
  <2>6. /\ t.open = e.open /\ t.crossed = e.crossed /\ t.refused = e.refused /\ t.player = e.player /\ t.shift = e.shift
        /\ t.lib = [e.lib EXCEPT ![h] = y]
    BY <2>2, <2>3 DEF State
  <2>7. \A k \in Handles : /\ t.lib[k].file = e.lib[k].file
                           /\ t.lib[k].detached = e.lib[k].detached
                           /\ t.lib[k].is = e.lib[k].is
    BY <2>1, <2>4, <2>5, <2>6
  <2>8. FilesKept(t) /\ (AllHeld(e) => AllHeld(t))
    BY <2>2, <2>6, <2>7, SameFiles
  <2>9. Aside(s, t)
    BY <2>2, <2>6, <2>8 DEF Aside
  <2> QED BY <2>8, <2>9 DEF t
<1> QED BY <1>1, <1>2

LEMMA RemoveRecorderFiles ==
    ASSUME NEW s, Sound(s), FilesKept(s), NEW id \in Ids
    PROVE  FilesKept(RemoveRecorder(s, id)) /\ Aside(s, RemoveRecorder(s, id))
<1> DEFINE h == s.recs[id].rec
           e == EndRecording(s, h)
           t == RemoveRecorder(s, id)
           r == [s.recs EXCEPT ![id] = NoRecorder]
<1>0. s \in State
  BY DEF Sound
<1>1. CASE h = NoHandle
  <2>1. t = [s EXCEPT !.recs = r]
    BY <1>1 DEF RemoveRecorder
  <2> HIDE DEF r, t
  <2>2. /\ t.open = s.open /\ t.crossed = s.crossed /\ t.refused = s.refused /\ t.player = s.player /\ t.shift = s.shift
        /\ t.lib = s.lib
    BY <1>0, <2>1 DEF State
  <2> QED BY <2>2, SameFiles DEF t, Aside
<1>2. CASE h # NoHandle
  <2>1. h \in Handles /\ s.lib[h].is # "free"
    BY <1>2, StateFields DEF Sound, Owned, Recorder
  <2>2. FilesKept(e) /\ Aside(s, e) /\ e.lib[h].file = NoFile /\ e \in State /\ e.recs = s.recs
    BY <1>0, <2>1, EndRecordingFiles, EndRecordingSound DEF Sound
  <2> DEFINE y == [e.lib[h] EXCEPT !.is = "free"]
  <2>3. t = [e EXCEPT !.recs = r, !.lib = [e.lib EXCEPT ![h] = y]]
    BY <1>2, <2>2 DEF State, RemoveRecorder
  <2>4. e.lib[h] \in Handle /\ e.lib \in [Handles -> Handle]
    BY <2>1, <2>2, StateFields DEF State
  <2>5. y.file = e.lib[h].file /\ y.detached = e.lib[h].detached
    BY <2>4 DEF Handle
  <2> HIDE DEF e, h, y, t, r
  <2>6. /\ t.open = e.open /\ t.crossed = e.crossed /\ t.refused = e.refused /\ t.player = e.player /\ t.shift = e.shift
        /\ t.lib = [e.lib EXCEPT ![h] = y]
    BY <2>2, <2>3 DEF State
  <2>7. \A k \in Handles : /\ t.lib[k].file = e.lib[k].file
                           /\ t.lib[k].detached = e.lib[k].detached
                           /\ t.lib[k].file # NoFile => t.lib[k].is = e.lib[k].is
    BY <2>1, <2>2, <2>4, <2>5, <2>6
  <2>8. FilesKept(t) /\ (AllHeld(e) => AllHeld(t))
    BY <2>2, <2>6, <2>7, SameFiles
  <2>9. Aside(s, t)
    BY <2>2, <2>6, <2>8 DEF Aside
  <2> QED BY <2>8, <2>9 DEF t
<1> QED BY <1>1, <1>2

\* A slot rewritten, whatever is put there.
LEMMA SlotFiles ==
    ASSUME NEW s, s \in State, FilesKept(s), NEW id \in Ids, NEW p
    PROVE  FilesKept([s EXCEPT !.recs[id] = p]) /\ Aside(s, [s EXCEPT !.recs[id] = p])
<1> DEFINE r == [s.recs EXCEPT ![id] = p]
           t == [s EXCEPT !.recs = r]
<1>1. [s EXCEPT !.recs[id] = p] = t
  BY DEF State
<1> HIDE DEF r
<1>2. /\ t.open = s.open /\ t.crossed = s.crossed /\ t.refused = s.refused /\ t.player = s.player /\ t.shift = s.shift
      /\ t.lib = s.lib
  BY DEF State
<1> HIDE DEF t
<1> QED BY <1>1, <1>2, SameFiles DEF Aside

LEMMA StopRecordingFiles ==
    ASSUME NEW s, Sound(s), FilesKept(s), NEW id \in Ids
    PROVE  FilesKept(StopRecording(s, id)) /\ Aside(s, StopRecording(s, id))
<1> DEFINE t == StopRecorder(s, id)
           x == [t.recs[id] EXCEPT !.obs = "NULL"]
           u == [t EXCEPT !.recs[id] = x]
<1>1. CASE ~s.recs[id].on
  BY <1>1 DEF StopRecording, Aside
<1>2. CASE s.recs[id].on
  <2>1. /\ Sound(t) /\ Stopped(t, id) /\ FilesKept(t) /\ Aside(s, t) /\ t \in State
        /\ t.recs[id] \in Recorder
    BY StopRecorderSound, StopRecorderFiles, StateFields DEF Sound
  <2>2. /\ x \in Recorder /\ x.rec = t.recs[id].rec /\ x.obs = "NULL"
        /\ ~x.on => x = NoRecorder
    <3>1. x \in Recorder /\ x.rec = t.recs[id].rec /\ x.on = t.recs[id].on /\ x.obs = "NULL"
      BY <2>1 DEF Recorder
    <3>2. t.recs = s.recs
      BY StopRecorderSound
    <3> QED BY <1>2, <3>1, <3>2
  <2>3. [t EXCEPT !.recs[id].obs = "NULL"] = u
    BY <2>1 DEF State
  <2> HIDE DEF x, t
  <2>4. Sound(u)
    BY <2>1, <2>2, RewriteSlot
  <2>5. FilesKept(u) /\ Aside(t, u)
    BY <2>1, SlotFiles
  <2> HIDE DEF u
  <2>6. FilesKept(RemoveRecorder(u, id)) /\ Aside(u, RemoveRecorder(u, id))
    BY <2>4, <2>5, RemoveRecorderFiles
  <2>7. StopRecording(s, id) = RemoveRecorder(u, id)
    BY <1>2, <2>3 DEF StopRecording, t
  <2> QED BY <2>1, <2>5, <2>6, <2>7 DEF Aside
<1> QED BY <1>1, <1>2

LEMMA GetRecorderFiles ==
    ASSUME NEW s, Sound(s), FilesKept(s), NEW id \in Ids, NEW dev \in Devs
    PROVE  /\ FilesKept(GetRecorder(s, id, dev)) /\ Aside(s, GetRecorder(s, id, dev))
           /\ \A i \in Ids \ {id} : GetRecorder(s, id, dev).recs[i] = s.recs[i]
<1> DEFINE g == GetRecorder(s, id, dev)
           t == StopRecorder(s, id)
           p == [t.recs[id] EXCEPT !.dev = dev]
           n == [NoRecorder EXCEPT !.on = TRUE, !.dev = dev]
<1>0. s \in State
  BY DEF Sound
<1>1. CASE s.recs[id].on
  <2>1. t \in State /\ t.recs = s.recs /\ FilesKept(t) /\ Aside(s, t)
    BY StopRecorderSound, StopRecorderFiles DEF Sound
  <2>2. g = [t EXCEPT !.recs[id] = p]
    BY <1>1, <2>1 DEF GetRecorder, State
  <2> HIDE DEF p, t, g
  <2>3. FilesKept(g) /\ Aside(t, g)
    BY <2>1, <2>2, SlotFiles
  <2>4. \A i \in Ids \ {id} : g.recs[i] = t.recs[i]
    BY <2>1, <2>2 DEF State
  <2> QED BY <2>1, <2>3, <2>4 DEF Aside, g
<1>2. CASE ~s.recs[id].on
  <2>1. g = [s EXCEPT !.recs[id] = n] \/ g = s
    BY <1>2 DEF GetRecorder
  <2> HIDE DEF n, g
  <2>2. CASE g = s
    BY <2>2 DEF Aside, g
  <2>3. CASE g = [s EXCEPT !.recs[id] = n]
    <3>1. FilesKept(g) /\ Aside(s, g)
      BY <1>0, <2>3, SlotFiles
    <3>2. \A i \in Ids \ {id} : g.recs[i] = s.recs[i]
      BY <1>0, <2>3 DEF State
    <3> QED BY <3>1, <3>2 DEF g
  <2> QED BY <2>1, <2>2, <2>3
<1> QED BY <1>1, <1>2

\* The recorder's file is open, and it closes it.
OwnFile(s, id) ==
    s.recs[id].on => s.lib[s.recs[id].rec].file \in s.open /\ ~s.lib[s.recs[id].rec].detached

SameOthers(s, t, id) == \A i \in Ids \ {id} : t.recs[i] = s.recs[i]

\* A recording that starts has a file of its own: what is open has another address.
LEMMA StartRecordingFiles ==
    ASSUME NEW s, Sound(s), FilesKept(s), NEW id \in Ids, NEW dev \in Devs,
           NEW obs \in {"queue", "player"}, NEW a,
           a \in Allocations(GetRecorder(s, id, dev)), NEW t, t = StartRecording(s, id, dev, obs, a)
    PROVE  /\ FilesKept(t) /\ Aside(s, t)
           /\ SameOthers(s, t, id) /\ OwnFile(t, id)
<1> DEFINE g == GetRecorder(s, id, dev)
<1>1. /\ Sound(g) /\ g \in State /\ g.recs[id] \in Recorder /\ FilesKept(g) /\ Aside(s, g)
      /\ \A i \in Ids \ {id} : g.recs[i] = s.recs[i]
  BY GetRecorderSound, GetRecorderFiles, StateFields DEF Sound
<1>2. CASE ~g.recs[id].on
  <2>1. t = s /\ ~s.recs[id].on
    BY <1>2, GetRecorderSound DEF StartRecording
  <2> QED BY <2>1 DEF Aside, OwnFile, SameOthers
<1>3. CASE g.recs[id].on /\ a[1] = NoHandle
  <2>1. t = [g EXCEPT !.recs[id] = NoRecorder]
    BY <1>3 DEF StartRecording
  <2> HIDE DEF g
  <2>2. FilesKept(t) /\ Aside(g, t)
    BY <1>1, <2>1, SlotFiles
  <2>3. t.recs[id] = NoRecorder /\ \A i \in Ids \ {id} : t.recs[i] = g.recs[i]
    BY <1>1, <2>1 DEF State
  <2> QED BY <1>1, <2>2, <2>3 DEF Aside, NoRecorder, OwnFile, SameOthers
<1>4. CASE g.recs[id].on /\ a[1] # NoHandle
  <2> DEFINE h == a[1]
             f == a[2]
             y == [is |-> "recording", sub |-> TRUE, file |-> f, detached |-> FALSE]
             p == [g.recs[id] EXCEPT !.rec = h, !.obs = obs]
             r == [g.recs EXCEPT ![id] = p]
             l == [g.lib EXCEPT ![h] = y]
             c == IF Held(g, f) \/ g.shift = f THEN g.crossed ELSE g.crossed \ {f}
  <2>1. h \in Handles /\ f \in Files /\ g.lib[h].is = "free" /\ f \notin g.open
    BY <1>4 DEF Allocations
  <2>2. t = [g EXCEPT !.recs = r, !.lib = l, !.open = g.open \cup {f}, !.crossed = c]
    <3>1. t = [g EXCEPT !.recs[id] = p, !.lib[h] = y, !.open = g.open \cup {f}, !.crossed = c]
      BY <1>4 DEF StartRecording
    <3> HIDE DEF g, h, y, p, c
    <3> QED
      BY <3>1, <1>1 DEF State
  <2>3. p.rec = h /\ y.file = f /\ y.is = "recording" /\ y.detached = FALSE
    BY <1>1 DEF Recorder
  <2> HIDE DEF y, p, f, h, g
  <2>4. /\ r[id] = p /\ \A i \in Ids \ {id} : r[i] = g.recs[i]
        /\ l[h] = y /\ \A k \in Handles \ {h} : l[k] = g.lib[k]
    BY <1>1, <2>1 DEF State
  <2>c. /\ c \subseteq g.crossed
        /\ f \notin c => f \notin g.crossed \/ (~Held(g, f) /\ g.shift # f)
        /\ \A x : x # f /\ x \notin c => x \notin g.crossed
    OBVIOUS
  <2> HIDE DEF r, l, c
  <2>5. /\ t.recs = r /\ t.lib = l /\ t.player = g.player /\ t.shift = g.shift
        /\ t.refused = g.refused /\ t.crossed = c /\ t.open = g.open \cup {f}
    BY <1>1, <2>2 DEF State
  <2>6. t.lib[h] = y /\ \A k \in Handles \ {h} : t.lib[k] = g.lib[k]
    BY <2>4, <2>5
  <2>7. g.lib[h].file = NoFile /\ NoFile \notin g.open
    BY <1>1, <2>1, AddressesAssumption DEF FilesKept, FileRecorded, State
  <2>8. Held(t, f) /\ \A x \in g.open : Held(g, x) => Held(t, x)
    BY <2>1, <2>3, <2>6, <2>7 DEF Held
  <2>9. \A x : x # f /\ Held(t, x) => Held(g, x)
    BY <2>3, <2>6 DEF Held
  <2>10. Aside(g, t)
    BY <2>c, <2>5, <2>8 DEF Aside, AllHeld
  <2>11. FileRecorded(t)
    BY <1>1, <2>3, <2>6 DEF FilesKept, FileRecorded
  <2>12. FileOwned(t)
    <3> SUFFICES ASSUME NEW k \in Handles, ~t.lib[k].detached, t.lib[k].file \notin {NoFile} \cup t.crossed
                 PROVE  /\ t.lib[k].file \in t.open
                        /\ \A j \in Handles : t.lib[j].file = t.lib[k].file /\ ~t.lib[j].detached => j = k
      BY DEF FileOwned
    <3>1. \A j \in Handles \ {h} : ~g.lib[j].detached /\ g.lib[j].file \notin {NoFile} \cup g.crossed =>
             /\ g.lib[j].file \in g.open
             /\ \A i \in Handles : g.lib[i].file = g.lib[j].file /\ ~g.lib[i].detached => i = j
      BY <1>1 DEF FilesKept, FileOwned
    <3>n. f # NoFile
      BY <2>1, AddressesAssumption
    <3>2. f \notin c => ~Held(g, f)
      BY <1>1, <2>1, <2>c, <3>n DEF FilesKept, FileOwned, Held
    <3>3. CASE t.lib[k].file = f
      <4>1. \A j \in Handles \ {h} : t.lib[j].file # f \/ t.lib[j].detached
        BY <2>5, <2>6, <3>2, <3>3 DEF Held
      <4> QED BY <2>5, <3>3, <4>1
    <3>4. CASE t.lib[k].file # f
      <4>1. k # h /\ t.lib[k] = g.lib[k] /\ g.lib[k].file \notin g.crossed
        BY <2>c, <2>3, <2>5, <2>6, <3>4
      <4> QED BY <2>3, <2>5, <2>6, <3>1, <3>4, <4>1
    <3> QED BY <3>3, <3>4
  <2>13. FileClosable(t)
    BY <1>1, <2>5, <2>8 DEF FilesKept, FileClosable
  <2>14. FilePlayed(t)
    <3> SUFFICES ASSUME t.shift \notin {NoFile, t.refused} \cup t.crossed
                 PROVE  t.shift \in t.open /\ ~Held(t, t.shift)
      BY DEF FilePlayed
    <3>1. g.shift \notin {NoFile, g.refused} \cup g.crossed
      BY <2>c, <2>5
    <3>2. g.shift \in g.open /\ ~Held(g, g.shift) /\ g.shift # f
      BY <1>1, <2>1, <3>1 DEF FilesKept, FilePlayed
    <3> QED BY <2>5, <2>9, <3>2
  <2>15. FilesKept(t)
    BY <2>11, <2>12, <2>13, <2>14 DEF FilesKept
  <2>16. t.recs[id].rec = h
    BY <2>3, <2>4, <2>5
  <2>17. OwnFile(t, id)
    BY <2>3, <2>5, <2>6, <2>16 DEF OwnFile
  <2>18. SameOthers(s, t, id)
    BY <1>1, <2>4, <2>5 DEF SameOthers
  <2> QED BY <1>1, <2>10, <2>15, <2>17, <2>18 DEF Aside
<1> QED BY <1>2, <1>3, <1>4

\* releaseAll leaves no recording and no file of one.
LEMMA ReleaseRecordersFiles ==
    ASSUME NEW s, Sound(s), FilesKept(s), Silent(s), NEW t, t = ReleaseRecorders(s)
    PROVE  /\ FilesKept(t) /\ ~t.recs[Shift].on
           /\ t.player = s.player /\ t.shift = s.shift /\ t.refused = s.refused
           /\ \A h \in Handles : t.lib[h].is # "recording"
           /\ t.open \subseteq {s.player.tfile}
<1> DEFINE owned == {s.recs[id].rec : id \in Ids} \ {NoHandle}
           shut == {s.lib[h].file : h \in {g \in owned : ~s.lib[g].detached}}
           r == [id \in Ids |-> NoRecorder]
           l == [h \in Handles |-> IF h \in owned THEN FreeHandle ELSE s.lib[h]]
           o == s.open \ shut
<1>1. s \in State /\ NoFile \notin s.open
  BY AddressesAssumption DEF Sound, State
<1>2. t = [s EXCEPT !.recs = r, !.lib = l, !.open = o]
  BY DEF ReleaseRecorders
<1>3. \A h \in Handles : l[h] = IF h \in owned THEN FreeHandle ELSE s.lib[h]
  OBVIOUS
<1>4. \A h \in Handles : s.lib[h].file # NoFile => h \in owned
  <2> SUFFICES ASSUME NEW h \in Handles, s.lib[h].file # NoFile PROVE h \in owned
    OBVIOUS
  <2>1. PICK id \in Ids : s.recs[id].rec = h
    BY DEF FilesKept, FileRecorded, Sound, Owned
  <2> QED BY <2>1, AddressesAssumption
<1>5. \A h \in Handles : s.lib[h].is = "recording" => h \in owned
  <2> SUFFICES ASSUME NEW h \in Handles, s.lib[h].is = "recording" PROVE h \in owned
    OBVIOUS
  <2>1. PICK id \in Ids : s.recs[id].rec = h
    BY DEF Sound, Owned
  <2> QED BY <2>1, AddressesAssumption
<1>6. /\ o \subseteq s.open
      /\ \A h \in owned : ~s.lib[h].detached => s.lib[h].file \notin o
  OBVIOUS
<1>7. ~r[Shift].on
  BY DEF NoRecorder, Ids
<1> HIDE DEF r, l, o, owned
<1>8. /\ t.recs = r /\ t.lib = l /\ t.open = o /\ t.player = s.player /\ t.shift = s.shift
      /\ t.refused = s.refused
  BY <1>1, <1>2 DEF State
<1>9. \A h \in Handles : t.lib[h].file = NoFile /\ t.lib[h].is # "recording"
  BY <1>3, <1>4, <1>5, <1>8 DEF FreeHandle
<1>10. \A f \in t.open : f = t.player.tfile
  <2> SUFFICES ASSUME NEW f \in o, f # s.player.tfile PROVE FALSE
    BY <1>8
  <2>1. PICK h \in Handles : s.lib[h].file = f /\ ~s.lib[h].detached
    BY <1>6 DEF FilesKept, FileClosable, Held
  <2>2. h \in owned
    BY <1>1, <1>4, <1>6, <2>1
  <2> QED BY <1>6, <2>1, <2>2
<1>11. FileRecorded(t) /\ FileOwned(t)
  BY <1>9 DEF FileRecorded, FileOwned
<1>12. FileClosable(t)
  BY <1>10 DEF FileClosable
<1>13. FilePlayed(t)
  BY <1>8 DEF Silent, FilePlayed
<1> QED BY <1>7, <1>8, <1>9, <1>10, <1>11, <1>12, <1>13 DEF FilesKept

-----------------------------------------------------------------------------
(* The player and its file. *)

\* Nothing is played, nor does anything record for the player.
Idle(s) == Silent(s) /\ ~s.recs[Shift].on

\* A player that is another one, or none, or in another mode: the same file, or none.
LEMMA PlayerFiles ==
    ASSUME NEW s, s \in State, FilesKept(s), NEW p,
           p.tfile = s.player.tfile \/ (p.tfile = NoFile /\ AllHeld(s))
    PROVE  FilesKept([s EXCEPT !.player = p]) /\ (AllHeld(s) => AllHeld([s EXCEPT !.player = p]))
<1> DEFINE t == [s EXCEPT !.player = p]
<1>1. /\ t.open = s.open /\ t.crossed = s.crossed /\ t.refused = s.refused /\ t.shift = s.shift
      /\ t.lib = s.lib /\ t.player = p
  BY DEF State
<1> HIDE DEF t
<1>2. \A f : Held(t, f) <=> Held(s, f)
  BY <1>1 DEF Held
<1>3. FileRecorded(t) /\ FileOwned(t)
  BY <1>1 DEF FilesKept, FileRecorded, FileOwned
<1>4. FileClosable(t) /\ FilePlayed(t)
  BY <1>1, <1>2 DEF FilesKept, FileClosable, FilePlayed, AllHeld
<1> QED BY <1>1, <1>2, <1>3, <1>4 DEF FilesKept, AllHeld, t

\* tryCloseTFile: a recording whose file it closes has lost it, and its address counts as crossed.
LEMMA CloseTFileFiles ==
    ASSUME NEW s, s \in State, FilesKept(s), Silent(s), NEW t, t = CloseTFile(s)
    PROVE  /\ FilesKept(t) /\ AllHeld(t) /\ Silent(t)
           /\ t.recs = s.recs /\ t.player = s.player /\ t.update = s.update /\ t \in State
<1> DEFINE o == s.open \ {s.player.tfile}
           c == s.crossed \cup {f \in Files : f = s.player.tfile /\ Held(s, f)}
<1>1. t = [s EXCEPT !.open = o, !.crossed = c]
  BY DEF CloseTFile
<1>2. /\ o \subseteq s.open /\ s.player.tfile \notin o /\ \A f \in s.open : f \in o \/ f = s.player.tfile
      /\ s.crossed \subseteq c /\ (s.player.tfile \in Files /\ Held(s, s.player.tfile) => s.player.tfile \in c)
      /\ o \subseteq Files /\ c \subseteq Files
  BY DEF State
<1> HIDE DEF o, c
<1>3. /\ t.open = o /\ t.crossed = c /\ t.refused = s.refused /\ t.shift = s.shift /\ t.lib = s.lib
      /\ t.player = s.player /\ t.recs = s.recs /\ t.update = s.update /\ t \in State
  BY <1>1, <1>2 DEF State
<1>4. \A f : Held(t, f) <=> Held(s, f)
  BY <1>3 DEF Held
<1>5. AllHeld(t)
  BY <1>2, <1>3, <1>4 DEF FilesKept, FileClosable, AllHeld
<1>6. FileRecorded(t) /\ FileClosable(t) /\ FilePlayed(t) /\ Silent(t)
  BY <1>3, <1>5 DEF FilesKept, FileRecorded, FileClosable, FilePlayed, AllHeld, Silent
<1>7. FileOwned(t)
  <2> SUFFICES ASSUME NEW h \in Handles, ~s.lib[h].detached, s.lib[h].file \notin {NoFile} \cup c
               PROVE  /\ s.lib[h].file \in o
                      /\ \A k \in Handles : s.lib[k].file = s.lib[h].file /\ ~s.lib[k].detached => k = h
    BY <1>3 DEF FileOwned
  <2>1. /\ s.lib[h].file \in s.open
        /\ \A k \in Handles : s.lib[k].file = s.lib[h].file /\ ~s.lib[k].detached => k = h
    BY <1>2 DEF FilesKept, FileOwned
  <2>2. s.lib[h].file \in Files /\ Held(s, s.lib[h].file)
    BY <2>1 DEF State, Held
  <2> QED BY <1>2, <2>1, <2>2
<1> QED BY <1>3, <1>5, <1>6, <1>7 DEF FilesKept

LEMMA StopPlayerFiles ==
    ASSUME NEW s, Sound(s), FilesKept(s), s.recs[Shift].on => ~s.player.disabled,
           NEW refused \in BOOLEAN, NEW t, t = StopPlayer(s, refused)
    PROVE  FilesKept(t) /\ Idle(t) /\ t.player = s.player
<1> DEFINE w == IF s.player.disabled THEN s ELSE StopRecording(s, Shift)
           u == [w EXCEPT !.shift = NoFile, !.refused = NoFile]
           v == [w EXCEPT !.refused = s.shift]
<1>1. Shift \in Ids /\ ~NoRecorder.on
  BY DEF Ids, NoRecorder
<1>2. /\ Sound(w) /\ FilesKept(w) /\ w.player = s.player /\ w.shift = s.shift
      /\ ~w.recs[Shift].on /\ w \in State
  <2>1. CASE s.player.disabled
    BY <2>1 DEF Sound
  <2>2. CASE ~s.player.disabled
    <3>1. PICK x : x = StopRecording(s, Shift)
      OBVIOUS
    <3>2. Sound(x) /\ x.recs = [s.recs EXCEPT ![Shift] = NoRecorder] /\ FilesKept(x) /\ Aside(s, x)
      BY <1>1, <3>1, StopRecordingSound, StopRecordingFiles
    <3>3. ~x.recs[Shift].on
      BY <1>1, <3>2 DEF Sound, State
    <3>4. w = x
      BY <2>2, <3>1
    <3> QED BY <3>2, <3>3, <3>4 DEF Sound, Aside
  <2> QED BY <2>1, <2>2
<1>3. t = IF refused THEN v ELSE CloseTFile(u)
  BY DEF StopPlayer
<1> HIDE DEF w
<1>4. /\ u \in State /\ u.recs = w.recs /\ u.lib = w.lib /\ u.player = w.player /\ u.open = w.open
      /\ u.crossed = w.crossed /\ u.shift = NoFile
      /\ v.recs = w.recs /\ v.lib = w.lib /\ v.player = w.player /\ v.open = w.open
      /\ v.crossed = w.crossed /\ v.shift = s.shift /\ v.refused = s.shift
  BY <1>2 DEF State
<1> HIDE DEF u, v
<1>5. \A f : (Held(u, f) <=> Held(w, f)) /\ (Held(v, f) <=> Held(w, f))
  BY <1>4 DEF Held
<1>6. FilesKept(u) /\ Silent(u)
  BY <1>2, <1>4, <1>5 DEF FilesKept, FileRecorded, FileOwned, FileClosable, FilePlayed, Silent
<1>7. FilesKept(v) /\ Silent(v)
  BY <1>2, <1>4, <1>5 DEF FilesKept, FileRecorded, FileOwned, FileClosable, FilePlayed, Silent
<1>8. CASE refused
  BY <1>2, <1>3, <1>4, <1>7, <1>8 DEF Idle
<1>9. CASE ~refused
  <2>1. FilesKept(t) /\ Silent(t) /\ t.recs = u.recs /\ t.player = u.player
    BY <1>3, <1>4, <1>6, <1>9, CloseTFileFiles
  <2> QED BY <1>2, <1>4, <2>1 DEF Idle
<1> QED BY <1>8, <1>9

LEMMA DeletePlayerFiles ==
    ASSUME NEW s, s \in State, FilesKept(s), Idle(s), NEW d, d = DeletePlayer(s)
    PROVE  FilesKept(d) /\ Idle(d) /\ AllHeld(d) /\ d.player = Nobody
<1> DEFINE t == CloseTFile(s)
           Orphan(obs) == IF obs = "player" THEN "deleted" ELSE obs
           r == [id \in Ids |-> [t.recs[id] EXCEPT !.obs = Orphan(t.recs[id].obs)]]
           u == [t EXCEPT !.player = Nobody]
           q == Orphan(t.update)
<1>1. FilesKept(t) /\ t.recs = s.recs /\ AllHeld(t) /\ Silent(t) /\ t \in State
  BY CloseTFileFiles DEF Idle
<1>2. d = [t EXCEPT !.player = Nobody, !.update = q, !.recs = r]
  <2>1. t.recs \in [Ids -> Recorder]
    BY <1>1 DEF State
  <2> QED
    BY <2>1 DEF DeletePlayer, Idle
<1> HIDE DEF t, q
<1>3. ~r[Shift].on
  <2>1. Shift \in Ids /\ ~t.recs[Shift].on /\ t.recs[Shift] \in Recorder
    BY <1>1, StateFields DEF Ids, Idle
  <2>2. r[Shift] = [t.recs[Shift] EXCEPT !.obs = Orphan(t.recs[Shift].obs)]
    BY <2>1
  <2> HIDE DEF Orphan
  <2> QED BY <2>1, <2>2 DEF Recorder
<1> HIDE DEF r, Orphan
<1>4. /\ d.player = Nobody /\ d.recs = r /\ d.shift = t.shift /\ d.open = t.open
      /\ d.crossed = t.crossed /\ d.refused = t.refused /\ d.lib = t.lib
  BY <1>1, <1>2 DEF State
<1>5. FilesKept(u) /\ AllHeld(u)
  <2>1. Nobody.tfile = NoFile
    BY DEF Nobody
  <2> QED BY <1>1, <2>1, PlayerFiles
<1>6. /\ u.open = t.open /\ u.crossed = t.crossed /\ u.refused = t.refused /\ u.shift = t.shift
      /\ u.lib = t.lib /\ u.player = Nobody
  BY <1>1 DEF State
<1> HIDE DEF u
<1>7. FilesKept(d) /\ AllHeld(d)
  BY <1>4, <1>5, <1>6, SameFiles
<1> QED BY <1>1, <1>3, <1>4, <1>7 DEF Idle, Silent

LEMMA ReleasePlayerFiles ==
    ASSUME NEW s, Sound(s), FilesKept(s), ShiftKept(s), NEW refused \in BOOLEAN,
           NEW t, t = ReleasePlayer(s, refused)
    PROVE  Sound(t) /\ FilesKept(t) /\ Idle(t) /\ AllHeld(t) /\ t.player = Nobody
<1>1. Nobody.id = NoPlayer /\ Nobody.tfile = NoFile
  BY DEF Nobody
<1>2. CASE s.player.id = NoPlayer
  <2>1. NoFile \notin s.open
    BY AddressesAssumption DEF Sound, State
  <2>2. t = s /\ s.player = Nobody /\ Silent(s) /\ ~s.recs[Shift].on
    BY <1>2 DEF ReleasePlayer, ShiftKept
  <2>3. AllHeld(s)
    BY <1>1, <2>1, <2>2 DEF FilesKept, FileClosable, AllHeld
  <2> QED BY <2>2, <2>3 DEF Idle
<1>3. CASE s.player.id # NoPlayer
  <2>1. PICK u : u = StopPlayer(s, refused)
    OBVIOUS
  <2>2. FilesKept(u) /\ Idle(u) /\ Sound(u) /\ Unobserved(u)
    BY <2>1, StopPlayerFiles, StopPlayerSound DEF ShiftKept
  <2>3. t = DeletePlayer(u)
    BY <1>3, <2>1 DEF ReleasePlayer
  <2> QED BY <2>2, <2>3, DeletePlayerFiles, DeletePlayerSound DEF Sound
<1> QED BY <1>2, <1>3

\* getPlayer hands out a player that does not play.
LEMMA GetPlayerFiles ==
    ASSUME NEW s, Sound(s), FilesKept(s), ShiftKept(s), NEW id \in PlayerIds,
           NEW mode \in Modes, NEW prop \in BOOLEAN, NEW refused \in BOOLEAN,
           NEW g, g = GetPlayer(s, id, mode, prop, refused)
    PROVE  FilesKept(g) /\ Idle(g)
<1>1. s \in State /\ s.player \in Player
  BY StateFields DEF Sound
<1>2. CASE s.player.id = id
  <2> DEFINE p == [s.player EXCEPT !.mode = mode]
             t == [s EXCEPT !.player = p]
  <2>1. /\ p.id = s.player.id /\ p.disabled = s.player.disabled
        /\ p.tfile = s.player.tfile /\ p \in Player
    BY <1>1 DEF Player
  <2>2. g = StopPlayer(t, refused)
    <3>1. [s EXCEPT !.player.mode = mode] = t
      BY <1>1 DEF State
    <3> QED BY <1>2, <3>1 DEF GetPlayer
  <2> HIDE DEF p
  <2>3. FilesKept(t)
    BY <1>1, <2>1, PlayerFiles
  <2>4. t \in State /\ t.recs = s.recs /\ t.lib = s.lib /\ t.player = p
    BY <1>1, <2>1 DEF State
  <2> HIDE DEF t
  <2>5. Sound(t)
    BY <2>1, <2>4, SameRecorders
  <2>6. t.recs[Shift].on => ~t.player.disabled
    BY <2>1, <2>4 DEF ShiftKept
  <2> QED BY <2>2, <2>3, <2>5, <2>6, StopPlayerFiles
<1>3. CASE s.player.id # id
  <2>1. PICK t : t = ReleasePlayer(s, refused)
    OBVIOUS
  <2>2. Sound(t) /\ FilesKept(t) /\ Idle(t) /\ AllHeld(t) /\ t \in State
    BY <2>1, ReleasePlayerFiles DEF Sound
  <2> DEFINE p == [id |-> id, mode |-> mode, disabled |-> prop, tfile |-> NoFile]
  <2>3. g = [t EXCEPT !.player = p]
    BY <1>3, <2>1 DEF GetPlayer
  <2>4. p.tfile = NoFile
    OBVIOUS
  <2> HIDE DEF p
  <2>5. FilesKept(g)
    <3>1. FilesKept([t EXCEPT !.player = p])
      BY <2>2, <2>4, PlayerFiles
    <3> QED BY <2>3, <3>1
  <2>6. g.recs = t.recs /\ g.shift = t.shift /\ g.refused = t.refused
    BY <2>2, <2>3 DEF State
  <2> QED BY <2>2, <2>5, <2>6 DEF Idle, Silent
<1> QED BY <1>2, <1>3

\* A live play that may record has closed its file.
LEMMA ClearShiftFiles ==
    ASSUME NEW s, s \in State, FilesKept(s), Idle(s), NEW r, r = ClearShift(s)
    PROVE  FilesKept(r) /\ Idle(r) /\ (~s.player.disabled => AllHeld(r))
<1>1. r = IF s.player.disabled THEN s ELSE CloseTFile(s)
  BY DEF ClearShift, StopRecording, Idle
<1>2. CASE ~s.player.disabled
  <2>1. FilesKept(r) /\ r.recs = s.recs /\ AllHeld(r) /\ Silent(r)
    BY <1>1, <1>2, CloseTFileFiles DEF Idle
  <2> QED BY <2>1 DEF Idle
<1> QED BY <1>1, <1>2

\* A live play holds the file of its own recorder, or none, and plays from it.
LEMMA StartLiveFiles ==
    ASSUME NEW s, Sound(s), FilesKept(s), Idle(s), s.player.id # NoPlayer,
           ~s.player.disabled => AllHeld(s),
           NEW a \in Allocations(s), NEW got \in BOOLEAN, NEW plays \in BOOLEAN,
           NEW e, e = StartLive(s, a, got, plays)
    PROVE  FilesKept(e) /\ ShiftKept(e)
<1>1. s \in State /\ s.player \in Player
  BY StateFields DEF Sound
<1>2. CASE s.player.disabled
  <2> DEFINE p == [s.player EXCEPT !.mode = "plain"]
  <2>1. p.tfile = s.player.tfile /\ p.id = s.player.id
    BY <1>1 DEF Player
  <2>2. e = [s EXCEPT !.player = p]
    BY <1>1, <1>2 DEF StartLive, State
  <2> HIDE DEF p
  <2>3. FilesKept(e)
    BY <1>1, <2>1, <2>2, PlayerFiles
  <2>4. e.recs = s.recs /\ e.player = p
    BY <1>1, <2>2 DEF State
  <2> QED BY <2>1, <2>3, <2>4 DEF ShiftKept, Idle
<1>3. CASE ~s.player.disabled
  <2>1. Shift \in Ids /\ ShiftDev \in Devs
    BY DevsAssumption DEF Ids
  <2>2. a \in Allocations(GetRecorder(s, Shift, ShiftDev))
    <3>1. /\ GetRecorder(s, Shift, ShiftDev).lib = s.lib
          /\ GetRecorder(s, Shift, ShiftDev).open = s.open
      BY <2>1, GetRecorderSound DEF Idle
    <3> QED BY <3>1 DEF Allocations
  <2>3. PICK r : r = StartRecording(s, Shift, ShiftDev, "player", a)
    OBVIOUS
  <2> DEFINE h == r.recs[Shift].rec
             t == IF got THEN DetachFile(r, h) ELSE [r EXCEPT !.player.tfile = NoFile]
  <2>4. Sound(r) /\ r.player = s.player /\ (r.recs[Shift].on => h \in Handles)
    BY <2>1, <2>2, <2>3, <1>3, StartRecordingSound DEF Idle
  <2>5. /\ FilesKept(r) /\ AllHeld(r) /\ Silent(r)
        /\ r.recs[Shift].on => r.lib[h].file \in r.open /\ ~r.lib[h].detached
    <3> DEFINE obs == "player"
    <3>1. obs \in {"queue", "player"} /\ r = StartRecording(s, Shift, ShiftDev, obs, a)
      BY <2>3
    <3> HIDE DEF obs, h
    <3>2. FilesKept(r) /\ Aside(s, r) /\ OwnFile(r, Shift)
      BY <2>1, <2>2, <3>1, StartRecordingFiles
    <3>3. AllHeld(r) /\ Silent(r)
      BY <1>3, <3>2 DEF Aside, Idle, Silent
    <3> QED BY <3>2, <3>3 DEF h, OwnFile
  <2>6. e = IF ~r.recs[Shift].on THEN [r EXCEPT !.player.mode = "plain"]
            ELSE IF plays
            THEN [t EXCEPT !.player.mode = "timeshift", !.shift = t.player.tfile, !.refused = NoFile]
            ELSE [t EXCEPT !.player.mode = "plain"]
    BY <1>3, <2>3 DEF StartLive
  <2>7. r \in State /\ r.player \in Player /\ NoFile \notin r.open
    BY <2>4, StateFields, AddressesAssumption DEF Sound, State
  <2>8. CASE ~r.recs[Shift].on
    <3> DEFINE p == [r.player EXCEPT !.mode = "plain"]
    <3>1. p.tfile = r.player.tfile /\ p.id = s.player.id
      BY <2>4, <2>7 DEF Player
    <3>2. e = [r EXCEPT !.player = p]
      BY <2>6, <2>7, <2>8 DEF State
    <3> HIDE DEF p
    <3>3. FilesKept(e)
      BY <2>5, <2>7, <3>1, <3>2, PlayerFiles
    <3>4. e.recs = r.recs /\ e.player = p
      BY <2>7, <3>2 DEF State
    <3> QED BY <2>8, <3>1, <3>3, <3>4 DEF ShiftKept
  <2>9. CASE r.recs[Shift].on
    <3>1. h \in Handles /\ r.lib[h] \in Handle
      BY <2>4, <2>7, <2>9, StateFields
    <3> DEFINE f == r.lib[h].file
               y == [r.lib[h] EXCEPT !.detached = TRUE]
               p == [r.player EXCEPT !.tfile = f]
               q == [r.player EXCEPT !.tfile = NoFile]
               l == [r.lib EXCEPT ![h] = y]
    <3>2. /\ y \in Handle /\ y.is = r.lib[h].is /\ y.file = f /\ y.detached = TRUE
      BY <3>1 DEF Handle
    <3>3. /\ p \in Player /\ p.id = s.player.id /\ ~p.disabled /\ p.tfile = f
          /\ q \in Player /\ q.id = s.player.id /\ ~q.disabled /\ q.tfile = NoFile
      <4>1. f \in Files \cup {NoFile}
        BY <3>1 DEF Handle
      <4> HIDE DEF f
      <4> QED BY <1>3, <2>4, <2>7, <4>1 DEF Player
    <3>4. t = IF got THEN [r EXCEPT !.player = p, !.lib = l] ELSE [r EXCEPT !.player = q]
      BY <2>7, <3>1 DEF DetachFile, State
    <3>5. /\ f \in r.open /\ f # NoFile /\ ~r.lib[h].detached
          /\ f \notin r.crossed => \A k \in Handles : r.lib[k].file = f /\ ~r.lib[k].detached => k = h
      BY <2>5, <2>7, <2>9, <3>1 DEF FilesKept, FileOwned
    <3> DEFINE Played(x) == x \in {NoFile} \cup t.crossed \/ (x \in t.open /\ ~Held(t, x))
    <3>f. f = r.lib[h].file
      OBVIOUS
    <3> HIDE DEF y, p, q, t, f
    <3>6. l[h] = y /\ \A k \in Handles \ {h} : l[k] = r.lib[k]
      BY <2>7, <3>1 DEF State
    <3>7. l \in [Handles -> Handle]
      BY <2>7, <3>2 DEF State
    <3> HIDE DEF l, h
    <3>8. /\ FileRecorded(t) /\ FileOwned(t) /\ FileClosable(t) /\ Silent(t)
          /\ t.recs = r.recs /\ t \in State /\ t.player \in {p, q} /\ Played(t.player.tfile)
      <4>1. CASE got
        <5>1. /\ t.player = p /\ t.lib = l /\ t.recs = r.recs /\ t.open = r.open /\ t.crossed = r.crossed
              /\ t.shift = r.shift /\ t.refused = r.refused /\ t \in State
          BY <2>7, <3>3, <3>4, <3>7, <4>1 DEF State
        <5>2. t.lib[h] = y /\ \A k \in Handles \ {h} : t.lib[k] = r.lib[k]
          BY <3>6, <5>1
        <5>3. FileRecorded(t)
          BY <2>5, <3>1, <3>2, <3>f, <5>2 DEF FilesKept, FileRecorded
        <5>4. FileOwned(t)
          BY <2>5, <3>1, <3>2, <5>1, <5>2 DEF FilesKept, FileOwned
        <5>5. \A x : x # f /\ Held(r, x) => Held(t, x)
          BY <3>f, <5>2 DEF Held
        <5>6. FileClosable(t)
          BY <2>5, <3>3, <5>1, <5>5 DEF AllHeld, FileClosable
        <5>7. f \notin r.crossed => ~Held(t, f)
          BY <3>2, <3>5, <5>2 DEF Held
        <5>8. Played(t.player.tfile)
          BY <3>3, <3>5, <5>1, <5>7
        <5> QED BY <2>5, <5>1, <5>3, <5>4, <5>6, <5>8 DEF Silent
      <4>2. CASE ~got
        <5>1. t = [r EXCEPT !.player = q]
          BY <3>4, <4>2
        <5>2. FilesKept(t)
          BY <2>5, <2>7, <3>3, <5>1, PlayerFiles
        <5>3. /\ t.player = q /\ t.recs = r.recs /\ t.shift = r.shift /\ t.refused = r.refused
              /\ t \in State
          BY <2>7, <3>3, <5>1 DEF State
        <5> QED BY <2>5, <3>3, <5>2, <5>3 DEF Silent, FilesKept
      <4> QED BY <4>1, <4>2
    <3>9. t.player.id # NoPlayer /\ ~t.player.disabled /\ t.player \in Player
      BY <3>3, <3>8
    <3> DEFINE b == t.player
               m == IF plays THEN "timeshift" ELSE "plain"
               c == [b EXCEPT !.mode = m]
               z == IF plays THEN b.tfile ELSE t.shift
               n == IF plays THEN NoFile ELSE t.refused
    <3>10. e = [t EXCEPT !.player = c, !.shift = z, !.refused = n]
      <4>1. CASE plays
        BY <2>6, <2>9, <3>8, <4>1 DEF State
      <4>2. CASE ~plays
        BY <2>6, <2>9, <3>8, <4>2 DEF State
      <4> QED BY <4>1, <4>2
    <3>11. c.tfile = b.tfile /\ c.id = b.id /\ c.disabled = b.disabled /\ c.mode # "live"
      BY <3>9 DEF Player
    <3>12. z \in {NoFile, n} \/ Played(z)
      BY <3>8 DEF Silent
    <3> HIDE DEF c, z, n
    <3>13. /\ e.open = t.open /\ e.crossed = t.crossed /\ e.lib = t.lib /\ e.recs = t.recs
           /\ e.player = c /\ e.shift = z /\ e.refused = n
      BY <3>8, <3>10 DEF State
    <3>14. \A x : Held(e, x) <=> Held(t, x)
      BY <3>13 DEF Held
    <3>15. FileRecorded(e) /\ FileOwned(e) /\ FileClosable(e)
      BY <3>8, <3>11, <3>13, <3>14 DEF FileRecorded, FileOwned, FileClosable
    <3>16. FilePlayed(e)
      BY <3>12, <3>13, <3>14 DEF FilePlayed
    <3>17. ShiftKept(e)
      BY <3>9, <3>11, <3>13 DEF ShiftKept
    <3> QED BY <3>15, <3>16, <3>17 DEF FilesKept
  <2> QED BY <2>8, <2>9
<1> QED BY <1>2, <1>3

-----------------------------------------------------------------------------
(* Every step keeps the files so. *)

FilesInv == FilesKept(st) /\ ShiftKept(st)

LEMMA IdleShift ==
    ASSUME NEW s, Idle(s), s.player.id # NoPlayer \/ s.player = Nobody
    PROVE  ShiftKept(s)
BY DEF Idle, ShiftKept

\* The time shift of a state is that of another with the same player and the
\* same time-shift recorder.
LEMMA ShiftAside ==
    ASSUME NEW s, ShiftKept(s), NEW t, Aside(s, t), t.recs[Shift] = s.recs[Shift]
    PROVE  ShiftKept(t)
BY DEF ShiftKept, Aside, Silent

LEMMA InitFiles == Init => FilesInv
<1> SUFFICES ASSUME Init PROVE FilesInv
  OBVIOUS
<1> DEFINE r == [id \in Ids |-> NoRecorder]
           l == [h \in Handles |-> FreeHandle]
<1>1. ~r[Shift].on /\ \A h \in Handles : l[h].file = NoFile
  BY DEF NoRecorder, FreeHandle, Ids
<1>2. st = [recs |-> r, lib |-> l, open |-> {}, player |-> Nobody, shift |-> NoFile,
            refused |-> NoFile, crossed |-> {}, update |-> "none"]
  BY DEF Init
<1> HIDE DEF r, l
<1>3. /\ st.recs = r /\ st.lib = l /\ st.open = {} /\ st.player = Nobody /\ st.shift = NoFile
  BY <1>2
<1>4. ShiftKept(st)
  BY <1>1, <1>3 DEF ShiftKept, Silent
<1> QED BY <1>1, <1>3, <1>4 DEF FilesInv, FilesKept, FileRecorded, FileOwned, FileClosable, FilePlayed

LEMMA RecordingFiles ==
    ASSUME NotReserved, IInv, FilesInv,
           PrepareRecording \/ DoStartRecording \/ DoStopRecording \/ RecordEnds
    PROVE  FilesInv'
<1>1. Sound(st) /\ st \in State /\ RecIds \subseteq Ids /\ Shift \in Ids /\ Shift \notin RecIds
  BY DEF IInv, Sound, Ids, NotReserved
<1>2. PICK t : t = st'
  OBVIOUS
<1>3. SUFFICES FilesKept(t) /\ Aside(st, t) /\ t.recs[Shift] = st.recs[Shift]
  BY <1>2, ShiftAside DEF FilesInv
<1>4. CASE PrepareRecording
  <2>1. PICK id \in RecIds, dev \in Devs : t = GetRecorder(st, id, dev)
    BY <1>2, <1>4 DEF PrepareRecording
  <2> QED BY <1>1, <2>1, GetRecorderFiles DEF FilesInv
<1>5. CASE DoStartRecording
  <2>1. PICK id \in RecIds, dev \in Devs :
            \E a \in Allocations(GetRecorder(st, id, dev)) :
                t = StartRecording(st, id, dev, "queue", a)
    BY <1>2, <1>5 DEF DoStartRecording
  <2>2. PICK a \in Allocations(GetRecorder(st, id, dev)) :
            t = StartRecording(st, id, dev, "queue", a)
    BY <2>1
  <2> DEFINE obs == "queue"
  <2>3. obs \in {"queue", "player"} /\ t = StartRecording(st, id, dev, obs, a)
    BY <2>2
  <2> HIDE DEF obs
  <2>4. FilesKept(t) /\ Aside(st, t) /\ SameOthers(st, t, id)
    BY <1>1, <2>2, <2>3, StartRecordingFiles DEF FilesInv
  <2> QED BY <1>1, <2>4 DEF SameOthers
<1>6. CASE DoStopRecording
  <2>1. PICK id \in RecIds : t = StopRecording(st, id)
    BY <1>2, <1>6 DEF DoStopRecording
  <2>2. FilesKept(t) /\ Aside(st, t) /\ t.recs = [st.recs EXCEPT ![id] = NoRecorder]
    BY <1>1, <2>1, StopRecordingFiles, StopRecordingSound DEF FilesInv
  <2> QED BY <1>1, <2>2 DEF State
<1>7. CASE RecordEnds
  <2>1. PICK h \in Handles : st.lib[h].is = "recording" /\ t = EndRecording(st, h)
    BY <1>2, <1>7 DEF RecordEnds
  <2>2. t.recs = st.recs
    BY <1>1, <2>1, EndRecordingSound
  <2> QED BY <1>1, <2>1, <2>2, EndRecordingFiles DEF FilesInv
<1> QED BY <1>4, <1>5, <1>6, <1>7

LEMMA StartPlayLiveFiles ==
    ASSUME IInv, FilesInv, StartPlayLive
    PROVE  FilesInv'
<1>1. Sound(st) /\ st \in State /\ FilesKept(st) /\ ShiftKept(st)
  BY DEF IInv, Sound, FilesInv
<1>2. "live" \in Modes
  BY DEF Modes
<1>3. PICK id \in PlayerIds, prop \in BOOLEAN, refused \in BOOLEAN :
          LET g == GetPlayer(st, id, "live", prop, refused)
              r == ClearShift([g EXCEPT !.player.disabled = @ \/ prop])
          IN  \E a \in Allocations(r), got \in BOOLEAN, plays \in BOOLEAN :
                  st' = StartLive(r, a, got, plays)
  BY DEF StartPlayLive
<1>4. PICK g : g = GetPlayer(st, id, "live", prop, refused)
  OBVIOUS
<1>5. Sound(g) /\ Unobserved(g) /\ g.player.id = id /\ FilesKept(g) /\ Idle(g)
  <2> DEFINE mode == "live"
  <2>1. mode \in Modes /\ g = GetPlayer(st, id, mode, prop, refused)
    BY <1>2, <1>4
  <2> HIDE DEF mode
  <2>2. Sound(g) /\ Unobserved(g) /\ g.player.id = id
    BY <1>1, <2>1, GetPlayerSound
  <2> QED BY <1>1, <2>1, <2>2, GetPlayerFiles
<1>6. g \in State /\ g.player \in Player
  BY <1>5, StateFields DEF Sound
<1> DEFINE d == g.player.disabled \/ prop
           p == [g.player EXCEPT !.disabled = d]
           t == [g EXCEPT !.player = p]
           r == ClearShift(t)
<1>7. [g EXCEPT !.player.disabled = g.player.disabled \/ prop] = t
  BY <1>6 DEF State
<1>8. \E a \in Allocations(r), got \in BOOLEAN, plays \in BOOLEAN :
          st' = StartLive(r, a, got, plays)
  BY <1>3, <1>4, <1>7
<1>9. d \in BOOLEAN
  BY <1>6 DEF Player
<1> HIDE DEF d
<1>10. p \in Player /\ p.id = id /\ p.tfile = g.player.tfile
  BY <1>5, <1>6, <1>9 DEF Player
<1> HIDE DEF p
<1>11. FilesKept(t)
  BY <1>5, <1>6, <1>10, PlayerFiles
<1>12. /\ t \in State /\ t.recs = g.recs /\ t.lib = g.lib /\ t.player = p /\ t.shift = g.shift
       /\ t.refused = g.refused
  BY <1>6, <1>10 DEF State
<1> HIDE DEF t
<1>13. Sound(t) /\ Idle(t)
  <2>1. Sound(t)
    BY <1>5, <1>10, <1>12, SameRecorders, PlayersAssumption
  <2> QED BY <2>1, <1>5, <1>12 DEF Idle, Silent
<1>14. /\ FilesKept(r) /\ Idle(r) /\ Sound(r) /\ r.player = t.player
       /\ r.player.id # NoPlayer /\ (~r.player.disabled => AllHeld(r))
  BY <1>10, <1>11, <1>12, <1>13, ClearShiftSound, ClearShiftFiles, PlayersAssumption
<1> HIDE DEF r
<1>15. PICK a \in Allocations(r), got \in BOOLEAN, plays \in BOOLEAN :
           st' = StartLive(r, a, got, plays)
  BY <1>8
<1>16. PICK e : e = st'
  OBVIOUS
<1>17. FilesKept(e) /\ ShiftKept(e)
  BY <1>14, <1>15, <1>16, StartLiveFiles
<1> QED BY <1>16, <1>17 DEF FilesInv

LEMMA StartPlayOtherFiles ==
    ASSUME IInv, FilesInv, StartPlayOther
    PROVE  FilesInv'
<1>1. Sound(st) /\ st \in State /\ FilesKept(st) /\ ShiftKept(st)
  BY DEF IInv, Sound, FilesInv
<1>2. PICK id \in PlayerIds, mode \in Modes, prop \in BOOLEAN,
           refused \in BOOLEAN, ok \in BOOLEAN :
          LET g == GetPlayer(st, id, mode, prop, refused)
          IN  st' = IF mode = "timeshift" /\ ok
                    THEN [g EXCEPT !.player.mode = "live"] ELSE g
  BY DEF StartPlayOther
<1>3. PICK g : g = GetPlayer(st, id, mode, prop, refused)
  OBVIOUS
<1>4. Sound(g) /\ g.player.id = id /\ g \in State /\ g.player \in Player
  <2>1. Sound(g) /\ g.player.id = id
    BY <1>1, <1>3, GetPlayerSound
  <2> QED BY <2>1, StateFields DEF Sound
<1>5. FilesKept(g) /\ Idle(g)
  BY <1>1, <1>3, GetPlayerFiles
<1> DEFINE p == [g.player EXCEPT !.mode = "live"]
           t == [g EXCEPT !.player = p]
<1>6. st' = t \/ st' = g
  <2>1. [g EXCEPT !.player.mode = "live"] = t
    BY <1>4 DEF State
  <2> QED BY <1>2, <1>3, <2>1
<1>7. p.id = id /\ p.tfile = g.player.tfile
  BY <1>4 DEF Player
<1> HIDE DEF p
<1>8. FilesKept(t)
  BY <1>4, <1>5, <1>7, PlayerFiles
<1>9. t.player = p /\ t.recs = g.recs /\ t.shift = g.shift /\ t.refused = g.refused
  BY <1>4 DEF State
<1> HIDE DEF t
<1>10. Idle(t)
  BY <1>5, <1>9 DEF Idle, Silent
<1>11. ShiftKept(t) /\ ShiftKept(g)
  BY <1>4, <1>5, <1>7, <1>9, <1>10, IdleShift, PlayersAssumption
<1>12. PICK e : e = st'
  OBVIOUS
<1>13. FilesKept(e) /\ ShiftKept(e)
  BY <1>5, <1>6, <1>8, <1>11, <1>12
<1> QED BY <1>12, <1>13 DEF FilesInv

LEMMA StopPlayFiles ==
    ASSUME IInv, FilesInv, StopPlay \/ PausePlay \/ FindPlayer \/ PlayUpdate
    PROVE  FilesInv'
<1>1. Sound(st) /\ st \in State /\ FilesKept(st) /\ ShiftKept(st)
  BY DEF IInv, Sound, FilesInv
<1>2. PICK t : t = st'
  OBVIOUS
<1>3. SUFFICES FilesKept(t) /\ ShiftKept(t)
  BY <1>2 DEF FilesInv
<1>4. CASE StopPlay
  <2>1. PICK refused \in BOOLEAN : t = DeletePlayer(StopPlayer(st, refused))
    BY <1>2, <1>4 DEF StopPlay
  <2>2. PICK u : u = StopPlayer(st, refused)
    OBVIOUS
  <2>3. Sound(u) /\ u \in State /\ t = DeletePlayer(u)
    BY <1>1, <2>1, <2>2, StopPlayerSound DEF Sound
  <2>4. FilesKept(u) /\ Idle(u)
    BY <1>1, <2>2, StopPlayerFiles DEF ShiftKept
  <2>5. FilesKept(t) /\ Idle(t) /\ t.player = Nobody
    BY <2>3, <2>4, DeletePlayerFiles
  <2> QED BY <2>5, IdleShift
<1>5. ~PausePlay
  BY <1>1 DEF ShiftKept, PausePlay
<1>6. CASE FindPlayer \/ PlayUpdate
  <2>1. t = [st EXCEPT !.update = "player"] \/ t = [st EXCEPT !.update = "none"]
    BY <1>2, <1>6 DEF FindPlayer, PlayUpdate
  <2>2. /\ t.player = st.player /\ t.shift = st.shift /\ t.recs = st.recs /\ t.lib = st.lib
        /\ t.open = st.open /\ t.crossed = st.crossed /\ t.refused = st.refused
    BY <1>1, <2>1 DEF State
  <2> QED BY <1>1, <2>2, SameFiles DEF ShiftKept, Silent
<1> QED BY <1>4, <1>5, <1>6

LEMMA ReleaseAllFiles ==
    ASSUME IInv, FilesInv, ReleaseAll
    PROVE  /\ FilesInv'
           /\ \A h \in Handles : st'.lib[h].is # "recording"
           /\ st'.shift \in {NoFile, st'.refused}
           /\ st'.open = {}
<1>1. Sound(st) /\ FilesKept(st) /\ ShiftKept(st)
  BY DEF IInv, FilesInv
<1>2. PICK t : t = st'
  OBVIOUS
<1>3. PICK refused \in BOOLEAN : t = ReleaseRecorders(ReleasePlayer(st, refused))
  BY <1>2 DEF ReleaseAll
<1>4. PICK u : u = ReleasePlayer(st, refused)
  OBVIOUS
<1>5. Sound(u) /\ FilesKept(u) /\ Idle(u) /\ u.player = Nobody /\ u \in State /\ t = ReleaseRecorders(u)
  BY <1>1, <1>3, <1>4, ReleasePlayerFiles DEF Sound
<1>6. /\ FilesKept(t) /\ ~t.recs[Shift].on
      /\ t.player = Nobody /\ t.shift = u.shift /\ t.refused = u.refused
      /\ \A h \in Handles : t.lib[h].is # "recording"
      /\ t.open \subseteq {Nobody.tfile}
  BY <1>5, ReleaseRecordersFiles DEF Idle
<1>7. t.open = {}
  <2>1. NoFile \notin t.open
    <3>1. Sound(t)
      BY <1>5, ReleaseRecordersSound
    <3> QED BY <3>1, AddressesAssumption DEF Sound, State
  <2> QED BY <1>6, <2>1 DEF Nobody
<1>8. Idle(t)
  BY <1>5, <1>6 DEF Idle, Silent
<1>9. ShiftKept(t)
  BY <1>6, <1>8, IdleShift
<1> QED BY <1>2, <1>6, <1>7, <1>8, <1>9 DEF FilesInv, Idle, Silent

LEMMA FilesAlways ==
    ASSUME NotReserved
    PROVE  Spec => [](IInv /\ FilesInv)
<1>1. IInv /\ FilesInv /\ [Next]_vars => FilesInv'
  <2>1. IInv /\ FilesInv /\ UNCHANGED vars => FilesInv'
    BY DEF FilesInv, vars
  <2>2. IInv /\ FilesInv /\ Next => FilesInv'
    BY RecordingFiles, StartPlayLiveFiles, StartPlayOtherFiles, StopPlayFiles,
       ReleaseAllFiles DEF Next
  <2> QED BY <2>1, <2>2
<1> QED BY <1>1, InitFiles, RecordersOwned, PTL DEF Spec

\* The file that is played from is open, whatever ends the recording beside it and
\* whichever address the next file gets: unless the library would not stop playing
\* from it, or a player has closed a recording's file at its address.  For clients
\* that name their recordings otherwise than the time shift's.
THEOREM ShiftFileStaysOpen ==
    ASSUME NotReserved
    PROVE  Spec => []ShiftFileOpen
<1>1. FilesInv => ShiftFileOpen
  BY DEF FilesInv, FilesKept, FilePlayed, ShiftFileOpen
<1> QED BY <1>1, FilesAlways, PTL

\* Leaving the tuner ends every recording and closes every file, and ends what is
\* played unless the library refuses: for the same clients.
THEOREM LeavingLeavesNothing ==
    ASSUME NotReserved
    PROVE  Spec => NothingLeft
<1> DEFINE Clean == /\ \A h \in Handles : st'.lib[h].is # "recording"
                    /\ st'.shift \in {NoFile, st'.refused}
                    /\ st'.open = {}
<1>1. IInv /\ FilesInv /\ [Next]_vars => [ReleaseAll => Clean]_vars
  BY ReleaseAllFiles
<1> HIDE DEF Clean
<1>2. Spec => [][ReleaseAll => Clean]_vars
  BY <1>1, FilesAlways, PTL DEF Spec
<1> QED BY <1>2 DEF NothingLeft, Clean

-----------------------------------------------------------------------------
(* What is read from a recording's file (TimeShift: readMediaInfoFromFile). *)

LEMMA MinOfTwo ==
  ASSUME NEW a \in Int, NEW b \in Int
  PROVE  Min({a, b}) = IF a <= b THEN a ELSE b
<1> DEFINE m == IF a <= b THEN a ELSE b
<1>1. m \in {a, b} /\ \A y \in {a, b} : m <= y
  OBVIOUS
<1>2. \A x \in {a, b} : (\A y \in {a, b} : x <= y) => x = m
  OBVIOUS
<1> HIDE DEF m
<1>3. Min({a, b}) = m
  BY <1>1, <1>2 DEF Min
<1> QED BY <1>3 DEF m

\* A number has one quotient and one remainder.
LEMMA Quotient ==
  ASSUME NEW x \in Int, NEW d \in Nat \ {0}
  PROVE  x \div d \in Int /\ (x \div d) * d <= x /\ x < (x \div d) * d + d
OBVIOUS

LEMMA SeqOfTracks ==
  ASSUME NEW w \in Nat, NEW tracks \in Seq([1 .. w -> Int])
  PROVE  /\ FlattenSeq(tracks) \in Seq(Int) /\ Len(tracks) \in Nat
         /\ Len(FlattenSeq(tracks)) = w * Len(tracks)
         /\ \A k \in 1 .. Len(tracks) : \A j \in 1 .. w :
              (k - 1) * w + j \in 1 .. (w * Len(tracks)) /\ FlattenSeq(tracks)[(k - 1) * w + j] = tracks[k][j]
<1> DEFINE n == Len(tracks)
           F == FlattenSeq(tracks)
<1>1. n \in Nat /\ tracks \in [1 .. n -> [1 .. w -> Int]] /\ DOMAIN tracks = 1 .. n
  BY LenProperties
<1>2. \A k \in 1 .. n : tracks[k] \in Seq(Int) /\ Len(tracks[k]) = w
  <2> TAKE k \in 1 .. n
  <2>1. tracks[k] \in [1 .. w -> Int]
    BY <1>1
  <2> QED BY <2>1
<1> HIDE DEF n
<1>3. tracks \in Seq(Seq(Int))
  <2>1. tracks \in [1 .. n -> Seq(Int)]
    BY <1>1, <1>2
  <2> QED BY <1>1, <2>1
<1>4. F \in Seq(Int)
  BY <1>3, FlattenHolds
<1>5. CASE n # 0
  <2>1. /\ Len(F) = (n - 1) * w + Len(tracks[n])
        /\ \A k \in 1 .. n : \A j \in 1 .. Len(tracks[k]) :
              (k - 1) * w + j \in 1 .. Len(F) /\ F[(k - 1) * w + j] = tracks[k][j]
    <3>1. \A k \in 1 .. (n - 1) : Len(tracks[k]) = w
      BY <1>1, <1>2
    <3> QED BY <1>3, <1>5, <3>1, FlattenEven DEF n
  <2>2. n \in 1 .. n /\ Len(tracks[n]) = w
    BY <1>1, <1>2, <1>5
  <2>3. Len(F) = w * n
    BY <1>1, <2>1, <2>2
  <2>4. \A k \in 1 .. n : \A j \in 1 .. w : (k - 1) * w + j \in 1 .. (w * n) /\ F[(k - 1) * w + j] = tracks[k][j]
    BY <1>2, <2>1, <2>3
  <2> QED BY <1>1, <1>4, <2>3, <2>4 DEF n
<1>6. CASE n = 0
  <2>1. tracks = <<>>
    BY <1>1, <1>6
  <2>2. PICK f \in [0 .. n -> Seq(Int)] : Flattens(f, tracks) /\ F = f[n]
    BY <1>3, FlattenIs DEF n
  <2>3. F = <<>>
    BY <1>6, <2>2 DEF Flattens
  <2>4. Len(F) = 0 /\ w * n = 0 /\ 1 .. n = {}
    BY <1>6, <2>3
  <2> QED BY <1>1, <1>4, <2>4 DEF n
<1> QED BY <1>5, <1>6

Joined(u, s, t, c, d) ==
  /\ u \in Seq(Int) /\ Len(u) = c + d
  /\ \A i \in 1 .. c : u[i] = s[i]
  /\ \A i \in 1 .. d : u[c + i] = t[i]

LEMMA JoinAt ==
  ASSUME NEW s \in Seq(Int), NEW t \in Seq(Int), NEW c \in Nat, NEW d \in Nat, Len(s) = c, Len(t) = d
  PROVE  Joined(s \o t, s, t, c, d)
BY DEF Joined

\* Where the numbers of the media information stand.
Stands(w, m) ==
  LET na == Len(m.auds)
      ns == Len(m.subs)
      nt == Len(m.ttxs)
      sb == 6 + 3 * na
      tt == sb + 1 + 7 * ns
  IN  /\ w[1] = m.duration /\ w[2] = m.name /\ w[3] = m.vid[1] /\ w[4] = m.vid[2]
      /\ w[5] = na /\ \A i \in 1 .. (3 * na) : w[5 + i] = FlattenSeq(m.auds)[i]
      /\ w[sb] = ns /\ \A i \in 1 .. (7 * ns) : w[sb + i] = FlattenSeq(m.subs)[i]
      /\ w[tt] = nt /\ \A i \in 1 .. (4 * nt) : w[tt + i] = FlattenSeq(m.ttxs)[i]

LEMMA InfoStands ==
  ASSUME NEW m \in MediaInfos
  PROVE  /\ InfoAsWords(m) \in Seq(Int) /\ Stands(InfoAsWords(m), m)
         /\ Len(m.auds) \in Nat /\ Len(m.subs) \in Nat /\ Len(m.ttxs) \in Nat
         /\ Len(InfoAsWords(m)) = 7 + 3 * Len(m.auds) + 7 * Len(m.subs) + 4 * Len(m.ttxs)
<1> DEFINE A == FlattenSeq(m.auds)
           B == FlattenSeq(m.subs)
           C == FlattenSeq(m.ttxs)
           na == Len(m.auds)
           ns == Len(m.subs)
           nt == Len(m.ttxs)
<1>1. /\ m.duration \in Int /\ m.name \in Int /\ m.vid \in Int \X Int
      /\ m.auds \in Seq([1 .. 3 -> Int]) /\ m.subs \in Seq([1 .. 7 -> Int]) /\ m.ttxs \in Seq([1 .. 4 -> Int])
  BY DEF MediaInfos
<1>2. A \in Seq(Int) /\ na \in Nat /\ Len(A) = 3 * na
  <2>1. 3 \in Nat
    OBVIOUS
  <2> QED BY <1>1, <2>1, SeqOfTracks
<1>3. B \in Seq(Int) /\ ns \in Nat /\ Len(B) = 7 * ns
  <2>1. 7 \in Nat
    OBVIOUS
  <2> QED BY <1>1, <2>1, SeqOfTracks
<1>4. C \in Seq(Int) /\ nt \in Nat /\ Len(C) = 4 * nt
  <2>1. 4 \in Nat
    OBVIOUS
  <2> QED BY <1>1, <2>1, SeqOfTracks
<1> DEFINE v0 == <<m.duration, m.name>> \o m.vid
           v1 == v0 \o <<na>>
           v2 == v1 \o A
           v3 == v2 \o <<ns>>
           v4 == v3 \o B
           v5 == v4 \o <<nt>>
           v6 == v5 \o C
           a == 3 * na
           b == 7 * ns
           c == 4 * nt
           sb == 6 + a
           tt == sb + 1 + b
<1>5. InfoAsWords(m) = v6
  BY DEF InfoAsWords
<1>6. v0 \in Seq(Int) /\ Len(v0) = 4 /\ v0[1] = m.duration /\ v0[2] = m.name /\ v0[3] = m.vid[1] /\ v0[4] = m.vid[2]
  <2>1. PICK x \in Int, y \in Int : m.vid = <<x, y>>
    <3>1. \A z \in Int \X Int : \E x \in Int, y \in Int : z = <<x, y>>
      OBVIOUS
    <3>2. m.vid \in Int \X Int
      BY <1>1
    <3> QED BY <3>1, <3>2, Zenon
  <2>2. m.vid[1] = x /\ m.vid[2] = y
    BY <2>1
  <2>3. v0 = <<m.duration, m.name>> \o <<x, y>>
    BY <2>1
  <2> HIDE DEF v0
  <2>4. ASSUME NEW p \in Int, NEW q \in Int
        PROVE  LET s == <<p, q>> \o <<x, y>> IN
                 s \in Seq(Int) /\ Len(s) = 4 /\ s[1] = p /\ s[2] = q /\ s[3] = x /\ s[4] = y
    OBVIOUS
  <2>5. LET s == <<m.duration, m.name>> \o <<x, y>> IN
          s \in Seq(Int) /\ Len(s) = 4 /\ s[1] = m.duration /\ s[2] = m.name /\ s[3] = x /\ s[4] = y
    BY <1>1, <2>4, Zenon
  <2> QED BY <2>2, <2>3, <2>5
<1>7. ASSUME NEW x \in Nat PROVE <<x>> \in Seq(Int) /\ Len(<<x>>) = 1 /\ <<x>>[1] = x
  OBVIOUS
<1>8. a \in Nat /\ b \in Nat /\ c \in Nat /\ 5 + a \in Nat /\ sb \in Nat /\ sb + b \in Nat /\ tt \in Nat
      /\ 1 \in Nat /\ 4 \in Nat /\ 5 \in Nat
  <2>1. a \in Nat /\ b \in Nat /\ c \in Nat
    BY <1>2, <1>3, <1>4
  <2> HIDE DEF a, b, c
  <2> QED BY <2>1
<1>8a. 4 + 1 = 5 /\ (5 + a) + 1 = sb /\ (sb + b) + 1 = tt
  <2> HIDE DEF a, b
  <2> QED BY <1>8
<1>8b. Len(A) = a /\ Len(B) = b /\ Len(C) = c
  BY <1>2, <1>3, <1>4
<1> HIDE DEF v0, A, B, C, na, ns, nt, a, b, c, sb, tt
<1>9. v1 \in Seq(Int) /\ Len(v1) = 5 /\ v1[5] = na /\ \A i \in 1 .. 4 : v1[i] = v0[i]
  <2>1. <<na>> \in Seq(Int) /\ Len(<<na>>) = 1 /\ <<na>>[1] = na
    BY <1>2, <1>7
  <2>0. Joined(v1, v0, <<na>>, 4, 1)
    BY <1>6, <1>8, <2>1, JoinAt
  <2> HIDE DEF v1
  <2>2. /\ v1 \in Seq(Int) /\ Len(v1) = 4 + 1 /\ \A i \in 1 .. 4 : v1[i] = v0[i]
        /\ \A i \in 1 .. 1 : v1[4 + i] = <<na>>[i]
    BY <2>0 DEF Joined
  <2> QED BY <2>1, <2>2
<1> HIDE DEF v1
<1>10. v2 \in Seq(Int) /\ Len(v2) = 5 + a /\ (\A i \in 1 .. a : v2[5 + i] = A[i]) /\ \A i \in 1 .. 5 : v2[i] = v1[i]
  <2>1. Joined(v2, v1, A, 5, a)
    BY <1>2, <1>8, <1>8b, <1>9, JoinAt
  <2> HIDE DEF v2
  <2> QED BY <2>1 DEF Joined
<1> HIDE DEF v2
<1>11. v3 \in Seq(Int) /\ Len(v3) = sb /\ v3[sb] = ns /\ \A i \in 1 .. (5 + a) : v3[i] = v2[i]
  <2>1. <<ns>> \in Seq(Int) /\ Len(<<ns>>) = 1 /\ <<ns>>[1] = ns
    BY <1>3, <1>7
  <2>0. Joined(v3, v2, <<ns>>, (5 + a), 1)
    BY <1>8, <1>10, <2>1, JoinAt
  <2> HIDE DEF v3
  <2>2. /\ v3 \in Seq(Int) /\ Len(v3) = (5 + a) + 1 /\ \A i \in 1 .. (5 + a) : v3[i] = v2[i]
        /\ \A i \in 1 .. 1 : v3[(5 + a) + i] = <<ns>>[i]
    BY <2>0 DEF Joined
  <2>3. v3[(5 + a) + 1] = ns
    BY <2>1, <2>2
  <2> QED BY <1>8a, <2>2, <2>3
<1> HIDE DEF v3
<1>13. v4 \in Seq(Int) /\ Len(v4) = sb + b /\ (\A i \in 1 .. b : v4[sb + i] = B[i]) /\ \A i \in 1 .. sb : v4[i] = v3[i]
  <2>1. Joined(v4, v3, B, sb, b)
    BY <1>3, <1>8, <1>8b, <1>11, JoinAt
  <2> HIDE DEF v4
  <2> QED BY <2>1 DEF Joined
<1> HIDE DEF v4
<1>14. v5 \in Seq(Int) /\ Len(v5) = tt /\ v5[tt] = nt /\ \A i \in 1 .. (sb + b) : v5[i] = v4[i]
  <2>1. <<nt>> \in Seq(Int) /\ Len(<<nt>>) = 1 /\ <<nt>>[1] = nt
    BY <1>4, <1>7
  <2>0. Joined(v5, v4, <<nt>>, (sb + b), 1)
    BY <1>8, <1>13, <2>1, JoinAt
  <2> HIDE DEF v5
  <2>2. /\ v5 \in Seq(Int) /\ Len(v5) = (sb + b) + 1 /\ \A i \in 1 .. (sb + b) : v5[i] = v4[i]
        /\ \A i \in 1 .. 1 : v5[(sb + b) + i] = <<nt>>[i]
    BY <2>0 DEF Joined
  <2>3. v5[(sb + b) + 1] = nt
    BY <2>1, <2>2
  <2> QED BY <1>8a, <2>2, <2>3
<1> HIDE DEF v5
<1>16. v6 \in Seq(Int) /\ Len(v6) = tt + c /\ (\A i \in 1 .. c : v6[tt + i] = C[i]) /\ \A i \in 1 .. tt : v6[i] = v5[i]
  <2>1. Joined(v6, v5, C, tt, c)
    BY <1>4, <1>8, <1>8b, <1>14, JoinAt
  <2> HIDE DEF v6
  <2> QED BY <2>1 DEF Joined
<1> HIDE DEF v6
<1>17. ASSUME NEW i \in 1 .. (sb + b) PROVE v6[i] = v4[i]
  <2>1. i \in 1 .. tt
    BY <1>8, <1>8a
  <2> QED BY <1>14, <1>16, <2>1
<1>18. ASSUME NEW i \in 1 .. sb PROVE v6[i] = v3[i]
  <2>1. i \in 1 .. (sb + b)
    BY <1>8
  <2> QED BY <1>13, <1>17, <2>1
<1>19. ASSUME NEW i \in 1 .. (5 + a) PROVE v6[i] = v2[i]
  <2>1. i \in 1 .. sb
    BY <1>8, <1>8a
  <2> QED BY <1>11, <1>18, <2>1
<1>20. ASSUME NEW i \in 1 .. 5 PROVE v6[i] = v1[i]
  <2>1. i \in 1 .. (5 + a)
    BY <1>8
  <2> QED BY <1>10, <1>19, <2>1
<1>21. ASSUME NEW i \in 1 .. 4 PROVE v6[i] = v0[i]
  <2>1. i \in 1 .. 5
    OBVIOUS
  <2> QED BY <1>9, <1>20, <2>1
<1>22. v6[1] = m.duration /\ v6[2] = m.name /\ v6[3] = m.vid[1] /\ v6[4] = m.vid[2] /\ v6[5] = na
  <2>1. 1 \in 1 .. 4 /\ 2 \in 1 .. 4 /\ 3 \in 1 .. 4 /\ 4 \in 1 .. 4 /\ 5 \in 1 .. 5
    OBVIOUS
  <2> QED BY <1>6, <1>9, <1>20, <1>21, <2>1
<1>23. ASSUME NEW i \in 1 .. a PROVE v6[5 + i] = A[i]
  <2>1. 5 + i \in 1 .. (5 + a)
    BY <1>8
  <2> QED BY <1>10, <1>19, <2>1
<1>24. v6[sb] = ns
  <2>1. sb \in 1 .. sb
    BY <1>8 DEF sb
  <2> QED BY <1>11, <1>18, <2>1
<1>25. ASSUME NEW i \in 1 .. b PROVE v6[sb + i] = B[i]
  <2>1. sb + i \in 1 .. (sb + b)
    BY <1>8
  <2> QED BY <1>13, <1>17, <2>1
<1>26. v6[tt] = nt
  <2>1. tt \in 1 .. tt
    BY <1>8, <1>8a
  <2> QED BY <1>14, <1>16, <2>1
<1>27. Stands(v6, m)
  <2>1. \A i \in 1 .. c : v6[tt + i] = C[i]
    BY <1>16
  <2> QED BY <1>22, <1>23, <1>24, <1>25, <1>26, <2>1 DEF Stands, A, B, C, na, ns, nt, a, b, c, sb, tt
<1>28. tt + c = 7 + a + b + c
  BY <1>8 DEF sb, tt
<1>29. Len(v6) = 7 + 3 * na + 7 * ns + 4 * nt
  BY <1>16, <1>28 DEF a, b, c
<1> QED BY <1>2, <1>3, <1>4, <1>5, <1>16, <1>27, <1>29 DEF na, ns, nt

\* What begins with the numbers of the media information is read as that information.
LEMMA MediaRead ==
  ASSUME NEW m \in MediaInfos, NEW r \in Seq(Int), Len(r) >= Len(InfoAsWords(m)),
         \A k \in 1 .. Len(InfoAsWords(m)) : r[k] = InfoAsWords(m)[k]
  PROVE  MediaOf(r) = m
<1> DEFINE w == InfoAsWords(m)
           L == Len(w)
           ReadInt(i) == IF i <= Len(r) THEN r[i] ELSE 0
           Lang(i) == IF i = Len(r) + 1 THEN Garbage ELSE ReadInt(i)
           Group(first, n, size) ==
             [k \in 1..n |-> [j \in 1..size |->
                LET i == first + (k - 1) * size + j - 1 IN IF j = size THEN Lang(i) ELSE ReadInt(i)]]
           na == Len(m.auds)
           ns == Len(m.subs)
           nt == Len(m.ttxs)
           sb == 6 + 3 * na
           tt == sb + 1 + 7 * ns
           subsAt == 6 + 3 * ReadInt(5)
           ttxsAt == subsAt + 1 + 7 * ReadInt(subsAt)
<1>1. MediaOf(r) = [duration |-> ReadInt(1), name |-> ReadInt(2), vid |-> <<ReadInt(3), ReadInt(4)>>,
                    auds |-> Group(6, ReadInt(5), 3), subs |-> Group(subsAt + 1, ReadInt(subsAt), 7),
                    ttxs |-> Group(ttxsAt + 1, ReadInt(ttxsAt), 4)]
  BY DEF MediaOf
<1>2. /\ w \in Seq(Int) /\ Stands(w, m) /\ na \in Nat /\ ns \in Nat /\ nt \in Nat
      /\ L = 7 + 3 * na + 7 * ns + 4 * nt
  BY InfoStands
<1>3. /\ m.duration \in Int /\ m.name \in Int /\ m.vid \in Int \X Int
      /\ m.auds \in Seq([1 .. 3 -> Int]) /\ m.subs \in Seq([1 .. 7 -> Int]) /\ m.ttxs \in Seq([1 .. 4 -> Int])
      /\ m = [duration |-> m.duration, name |-> m.name, vid |-> m.vid, auds |-> m.auds, subs |-> m.subs, ttxs |-> m.ttxs]
  BY DEF MediaInfos
<1> HIDE DEF w, L, na, ns, nt
<1>4. ASSUME NEW i \in 1 .. L PROVE ReadInt(i) = w[i] /\ Lang(i) = w[i]
  <2>1. i <= Len(r) /\ r[i] = w[i] /\ Len(r) \in Nat /\ i # Len(r) + 1
    <3>1. Len(r) \in Nat /\ L \in Nat
      BY <1>2 DEF L
    <3>2. r[i] = w[i] /\ L <= Len(r)
      BY <3>1 DEF w, L
    <3> QED BY <3>1, <3>2
  <2> QED BY <2>1
<1> HIDE DEF ReadInt, Lang
<1>5. ASSUME NEW first \in Nat, NEW size \in Nat, NEW tracks \in Seq([1 .. size -> Int]),
             \A i \in 1 .. (size * Len(tracks)) :
                ReadInt(first - 1 + i) = FlattenSeq(tracks)[i] /\ Lang(first - 1 + i) = FlattenSeq(tracks)[i]
      PROVE  Group(first, Len(tracks), size) = tracks
  <2> DEFINE n == Len(tracks)
             F == FlattenSeq(tracks)
  <2>1. n \in Nat /\ tracks \in [1 .. n -> [1 .. size -> Int]]
    BY LenProperties
  <2>2. \A k \in 1 .. n : \A j \in 1 .. size :
          (k - 1) * size + j \in 1 .. (size * n) /\ F[(k - 1) * size + j] = tracks[k][j]
    BY SeqOfTracks
  <2>3. \A i \in 1 .. (size * n) : ReadInt(first - 1 + i) = F[i] /\ Lang(first - 1 + i) = F[i]
    BY <1>5
  <2> HIDE DEF n, F
  <2>4. ASSUME NEW k \in 1 .. n, NEW j \in 1 .. size
        PROVE  (IF j = size THEN Lang(first + (k - 1) * size + j - 1) ELSE ReadInt(first + (k - 1) * size + j - 1))
                 = tracks[k][j]
    <3> DEFINE p == (k - 1) * size
               i == p + j
    <3>1. p \in Int
      BY <2>1
    <3>2. i \in 1 .. (size * n) /\ F[i] = tracks[k][j]
      BY <2>2
    <3> HIDE DEF p
    <3>3. first + p + j - 1 = first - 1 + i
      BY <3>1
    <3> HIDE DEF i
    <3>4. ReadInt(first - 1 + i) = F[i] /\ Lang(first - 1 + i) = F[i]
      BY <2>3, <3>2
    <3> QED BY <3>2, <3>3, <3>4 DEF p
  <2> DEFINE g == Group(first, n, size)
  <2>5. \A k \in 1 .. n : g[k] = tracks[k]
    <3> TAKE k \in 1 .. n
    <3> DEFINE v(j) == IF j = size THEN Lang(first + (k - 1) * size + j - 1) ELSE ReadInt(first + (k - 1) * size + j - 1)
    <3>1. g[k] = [j \in 1 .. size |-> v(j)]
      OBVIOUS
    <3>2. \A j \in 1 .. size : v(j) = tracks[k][j]
      BY <2>4
    <3>3. tracks[k] \in [1 .. size -> Int]
      BY <2>1
    <3> HIDE DEF v, g
    <3> QED BY <3>1, <3>2, <3>3
  <2>6. g = [k \in 1 .. n |-> g[k]]
    OBVIOUS
  <2> HIDE DEF g
  <2>7. g = tracks
    BY <2>1, <2>5, <2>6
  <2> QED BY <2>7 DEF g, n
<1> HIDE DEF Group
<1>6. L \in Nat /\ sb \in 1 .. L /\ tt \in 1 .. L /\ 1 \in 1 .. L /\ 2 \in 1 .. L /\ 3 \in 1 .. L /\ 4 \in 1 .. L /\ 5 \in 1 .. L
      /\ sb \in Nat /\ tt \in Nat
  BY <1>2
<1>7. ReadInt(5) = na /\ ReadInt(sb) = ns /\ ReadInt(tt) = nt
  <2>1. w[5] = na /\ w[sb] = ns /\ w[tt] = nt
    BY <1>2 DEF Stands, na, ns, nt
  <2> HIDE DEF sb, tt
  <2> QED BY <1>4, <1>6, <2>1
<1>8. subsAt = sb /\ ttxsAt = tt
  BY <1>7
<1>9. /\ \A i \in 1 .. (3 * na) : w[5 + i] = FlattenSeq(m.auds)[i]
      /\ \A i \in 1 .. (7 * ns) : w[sb + i] = FlattenSeq(m.subs)[i]
      /\ \A i \in 1 .. (4 * nt) : w[tt + i] = FlattenSeq(m.ttxs)[i]
  BY <1>2 DEF Stands, na, ns, nt
<1>10. Group(6, na, 3) = m.auds
  <2>1. ASSUME NEW i \in 1 .. (3 * na)
        PROVE  ReadInt(6 - 1 + i) = FlattenSeq(m.auds)[i] /\ Lang(6 - 1 + i) = FlattenSeq(m.auds)[i]
    <3>1. 6 - 1 + i = 5 + i /\ 5 + i \in 1 .. L
      BY <1>2
    <3> QED BY <1>4, <1>9, <3>1
  <2>2. 6 \in Nat /\ 3 \in Nat
    OBVIOUS
  <2> QED BY <1>3, <1>5, <2>1, <2>2 DEF na
<1>11. Group(sb + 1, ns, 7) = m.subs
  <2>1. ASSUME NEW i \in 1 .. (7 * ns)
        PROVE  ReadInt((sb + 1) - 1 + i) = FlattenSeq(m.subs)[i] /\ Lang((sb + 1) - 1 + i) = FlattenSeq(m.subs)[i]
    <3>1. (sb + 1) - 1 + i = sb + i /\ sb + i \in 1 .. L
      BY <1>2
    <3>2. w[sb + i] = FlattenSeq(m.subs)[i]
      BY <1>9
    <3> HIDE DEF sb
    <3> QED BY <1>4, <3>1, <3>2
  <2>2. sb + 1 \in Nat /\ 7 \in Nat
    BY <1>6
  <2> HIDE DEF sb
  <2> QED BY <1>3, <1>5, <2>1, <2>2 DEF ns
<1>12. Group(tt + 1, nt, 4) = m.ttxs
  <2>1. ASSUME NEW i \in 1 .. (4 * nt)
        PROVE  ReadInt((tt + 1) - 1 + i) = FlattenSeq(m.ttxs)[i] /\ Lang((tt + 1) - 1 + i) = FlattenSeq(m.ttxs)[i]
    <3> DEFINE c == 4 * nt
    <3>0. L = tt + c /\ c \in Nat
      BY <1>2
    <3> HIDE DEF c
    <3>0a. i \in 1 .. c
      BY DEF c
    <3> HIDE DEF tt
    <3>1. (tt + 1) - 1 + i = tt + i /\ tt + i \in 1 .. L
      BY <1>6, <3>0, <3>0a
    <3>2. w[tt + i] = FlattenSeq(m.ttxs)[i]
      BY <1>9
    <3> QED BY <1>4, <3>1, <3>2
  <2>2. tt + 1 \in Nat /\ 4 \in Nat
    BY <1>6
  <2> HIDE DEF tt
  <2> QED BY <1>3, <1>5, <2>1, <2>2 DEF nt
<1>13. /\ ReadInt(1) = m.duration /\ ReadInt(2) = m.name /\ <<ReadInt(3), ReadInt(4)>> = m.vid
  <2>1. w[1] = m.duration /\ w[2] = m.name /\ w[3] = m.vid[1] /\ w[4] = m.vid[2]
    BY <1>2 DEF Stands
  <2>2. \A z \in Int \X Int : <<z[1], z[2]>> = z
    OBVIOUS
  <2>3. ReadInt(1) = w[1] /\ ReadInt(2) = w[2] /\ ReadInt(3) = w[3] /\ ReadInt(4) = w[4]
    BY <1>4, <1>6
  <2> QED BY <1>3, <2>1, <2>2, <2>3
<1> HIDE DEF subsAt, ttxsAt, sb, tt
<1> QED BY <1>1, <1>3, <1>7, <1>8, <1>10, <1>11, <1>12, <1>13

LEMMA Slice ==
  ASSUME NEW w, NEW x \in Int, NEW y \in Int, \A i \in x .. y : w[i] \in Int
  PROVE  /\ SubSeq(w, x, y) \in Seq(Int)
         /\ Len(SubSeq(w, x, y)) = IF x <= y THEN y - x + 1 ELSE 0
         /\ \A j \in 1 .. (y - x + 1) : SubSeq(w, x, y)[j] = w[x + j - 1]
BY SubSeqProperties

\* Packet k of a sequence of n packets' words: its numbers follow the header.
Packet(w, d, k) == <<Garbage>> \o SubSeq(w, (k - 1) * d + 1, Min({k * d, Len(w)}))
Split(w, d, n) == (n - 1) * d < Len(w) /\ Len(w) <= n * d
InPacket(w, d, n, k, c) ==
  LET p == Packet(w, d, k) IN
  /\ c \in Nat /\ c = (IF k = n THEN Len(w) ELSE k * d) - (k - 1) * d
  /\ p \in Seq(Int) /\ Len(p) = c + 1
  /\ \A j \in 1 .. c : (k - 1) * d + j \in 1 .. Len(w) /\ p[j + 1] = w[(k - 1) * d + j]
LEMMA PacketOf ==
  ASSUME NEW w \in Seq(Int), NEW d \in Nat \ {0}, NEW n \in Nat \ {0}, Len(w) # 0, Split(w, d, n), NEW k \in 1 .. n
  PROVE  \E c \in Nat : InPacket(w, d, n, k, c)
<1> DEFINE a == (k - 1) * d
           b == k * d
           L == Len(w)
           last == Min({b, L})
           t == SubSeq(w, a + 1, last)
<1>0. L \in Nat \ {0} /\ (n - 1) * d < L /\ L <= n * d
  BY LenProperties DEF Split
<1> HIDE DEF L
<1>1. L \in Nat /\ a \in Nat /\ b \in Nat /\ b = a + d
  <2>1. L \in Nat
    BY <1>0
  <2>2. a \in Nat /\ b \in Nat
    OBVIOUS
  <2>3. b = a + d
    OBVIOUS
  <2> QED BY <2>1, <2>2, <2>3
<1>2. a < L /\ (k = n => L <= b) /\ (k # n => b < L)
  <2>1. a <= (n - 1) * d
    <3>1. k - 1 <= n - 1 /\ k - 1 \in Nat /\ n - 1 \in Nat
      OBVIOUS
    <3> QED BY <3>1
  <2>2. k # n => b <= (n - 1) * d
    <3>1. k # n => k <= n - 1 /\ n - 1 \in Nat
      OBVIOUS
    <3> QED BY <3>1
  <2> DEFINE x == (n - 1) * d
  <2>3. x \in Int /\ x < L
    BY <1>0
  <2> HIDE DEF a, b, x
  <2>4. a <= x /\ (k # n => b <= x)
    BY <2>1, <2>2 DEF x
  <2>5. k = n => L <= b
    BY <1>0 DEF b
  <2> QED BY <1>1, <2>3, <2>4, <2>5
<1> HIDE DEF a, b
<1>3. last = IF k = n THEN L ELSE b
  <2>1. b \in Int /\ L \in Int
    BY <1>1
  <2>2. last = IF b <= L THEN b ELSE L
    BY <2>1, MinOfTwo
  <2> HIDE DEF last
  <2> QED BY <1>1, <1>2, <2>2
<1>4. last \in Nat /\ last <= L /\ a < last
  <2> HIDE DEF last
  <2> QED BY <1>1, <1>2, <1>3
<1> HIDE DEF last
<1>5. t \in Seq(Int) /\ Len(t) = last - a /\ \A j \in 1 .. (last - a) : a + j \in 1 .. L /\ t[j] = w[a + j]
  <2>1. a + 1 \in Int /\ last \in Int /\ a + 1 <= last
    BY <1>1, <1>4
  <2>2. \A i \in a + 1 .. last : w[i] \in Int
    <3> TAKE i \in a + 1 .. last
    <3>1. i \in 1 .. Len(w)
      BY <1>1, <1>4 DEF L
    <3> QED BY <3>1, ElementOfSeq
  <2>3. /\ t \in Seq(Int)
        /\ Len(t) = IF a + 1 <= last THEN last - (a + 1) + 1 ELSE 0
        /\ \A j \in 1 .. (last - (a + 1) + 1) : t[j] = w[(a + 1) + j - 1]
    BY <2>1, <2>2, Slice
  <2>4. Len(t) = last - (a + 1) + 1
    BY <2>1, <2>3
  <2>5. \A j \in 1 .. (last - (a + 1) + 1) : t[j] = w[(a + 1) + j - 1]
    BY <2>3
  <2> HIDE DEF t
  <2>6. last - (a + 1) + 1 = last - a
    BY <1>1, <1>4
  <2>7. ASSUME NEW j \in 1 .. (last - a) PROVE a + j \in 1 .. L /\ t[j] = w[a + j]
    <3>1. (a + 1) + j - 1 = a + j /\ a + j \in 1 .. L
      BY <1>1, <1>4
    <3> QED BY <2>5, <2>6, <3>1
  <2> QED BY <2>3, <2>4, <2>6, <2>7
<1> HIDE DEF t
<1> DEFINE p == <<Garbage>> \o t
           c == last - a
<1>6. c \in Nat
  BY <1>1, <1>4
<1>7. <<Garbage>> \in Seq(Int) /\ Len(<<Garbage>>) = 1 /\ 1 \in Nat
  BY DEF Garbage
<1>8. Joined(p, <<Garbage>>, t, 1, c)
  BY <1>5, <1>6, <1>7, JoinAt
<1> HIDE DEF p
<1>9. p \in Seq(Int) /\ Len(p) = 1 + c /\ \A j \in 1 .. c : p[1 + j] = t[j]
  BY <1>8 DEF Joined
<1>10. ASSUME NEW j \in 1 .. c PROVE a + j \in 1 .. L /\ p[j + 1] = w[a + j]
  <2>1. j + 1 = 1 + j
    OBVIOUS
  <2> QED BY <1>5, <1>9, <2>1
<1>11. Len(p) = c + 1
  BY <1>6, <1>9
<1>12. c = (IF k = n THEN L ELSE b) - a
  BY <1>3 DEF c
<1> HIDE DEF c
<1>13. p = Packet(w, d, k)
  BY DEF p, t, last, a, b, L, Packet
<1>14. InPacket(w, d, n, k, c)
  BY <1>6, <1>9, <1>10, <1>11, <1>12, <1>13 DEF InPacket, a, b, L
<1> QED BY <1>6, <1>14

\* Every number stands in its packet, after the headers of its and the earlier packets.
InTurn(w, u, d, n) ==
  /\ n \in Nat \ {0} /\ Len(w) <= n * d /\ Len(u) = Len(w) + n
  /\ \A k \in 1 .. Len(w) : k + 1 + (k - 1) \div d \in 1 .. Len(u) /\ u[k + 1 + (k - 1) \div d] = w[k]
LEMMA PacketsHold ==
  ASSUME NEW w \in Seq(Int), Len(w) # 0
  PROVE  \E n \in Nat : InTurn(w, InPackets(w), PacketWords - 1, n)
<1> DEFINE d == PacketWords - 1
           L == Len(w)
           n == (L + d - 1) \div d
           ss == [k \in 1 .. n |-> Packet(w, d, k)]
<1>1. d \in Nat \ {0} /\ L \in Nat \ {0}
  BY TimeShiftAssumption
<1>2. InPackets(w) = FlattenSeq(ss)
  BY DEF InPackets, Packet
<1> HIDE DEF d, L
<1>3. n \in Int /\ n * d <= L + d - 1 /\ L + d - 1 < n * d + d
  <2>1. L + d - 1 \in Int
    BY <1>1
  <2> QED BY <1>1, <2>1, Quotient
<1> HIDE DEF n
<1>4. n \in Nat \ {0} /\ L <= n * d /\ (n - 1) * d < L
  <2> DEFINE x == n * d
  <2>1. x \in Int /\ (n - 1) * d = x - d
    BY <1>1, <1>3
  <2>2. x <= L + d - 1 /\ L + d - 1 < x + d
    BY <1>3
  <2>3. n >= 1
    <3>1. SUFFICES ASSUME n <= 0 PROVE FALSE
      BY <1>3
    <3>2. x <= 0
      BY <1>1, <1>3, <3>1
    <3> HIDE DEF x
    <3> QED BY <1>1, <2>1, <2>2, <3>2
  <2>4. L <= x /\ x - d < L
    <3> HIDE DEF x
    <3> QED BY <1>1, <2>1, <2>2
  <2> QED BY <1>3, <2>1, <2>3, <2>4
<1> DEFINE size(k) == (IF k = n THEN L ELSE k * d) - (k - 1) * d
<1>5. ASSUME NEW k \in 1 .. n
      PROVE  /\ Packet(w, d, k) \in Seq(Int) /\ Len(Packet(w, d, k)) = size(k) + 1 /\ size(k) \in Nat
             /\ \A j \in 1 .. size(k) : (k - 1) * d + j \in 1 .. L /\ Packet(w, d, k)[j + 1] = w[(k - 1) * d + j]
  <2>1. Split(w, d, n)
    BY <1>4 DEF Split, L
  <2>2. Len(w) # 0
    BY <1>1 DEF L
  <2>3. PICK c \in Nat : InPacket(w, d, n, k, c)
    BY <1>1, <1>4, <2>1, <2>2, PacketOf
  <2>4. c = size(k)
    BY <2>3 DEF InPacket, L
  <2> HIDE DEF size
  <2> QED BY <2>3, <2>4 DEF InPacket, L
<1>6. ss \in Seq(Seq(Int)) /\ Len(ss) = n /\ \A k \in 1 .. n : ss[k] = Packet(w, d, k)
  <2>1. ss \in [1 .. n -> Seq(Int)] /\ \A k \in 1 .. n : ss[k] = Packet(w, d, k)
    BY <1>5
  <2> HIDE DEF ss
  <2> QED BY <1>4, <2>1, LenProperties
<1> HIDE DEF ss
<1>7. \A k \in 1 .. (n - 1) : Len(ss[k]) = d + 1
  <2> TAKE k \in 1 .. (n - 1)
  <2>1. k \in 1 .. n /\ k # n /\ k \in Int
    BY <1>4
  <2>2. Len(ss[k]) = k * d - (k - 1) * d + 1
    BY <1>5, <1>6, <2>1
  <2>3. k * d - (k - 1) * d = d
    BY <1>1, <2>1
  <2> QED BY <2>2, <2>3
<1> DEFINE F == FlattenSeq(ss)
<1> DEFINE e == d + 1
<1>8. /\ Len(F) = (n - 1) * e + Len(ss[n])
      /\ \A k \in 1 .. n : \A j \in 1 .. Len(ss[k]) : (k - 1) * e + j \in 1 .. Len(F) /\ F[(k - 1) * e + j] = ss[k][j]
  <2>1. e \in Nat /\ Len(ss) # 0
    BY <1>1, <1>4, <1>6
  <2>2. \A k \in 1 .. (Len(ss) - 1) : Len(ss[k]) = e
    BY <1>6, <1>7
  <2> HIDE DEF e
  <2>3. /\ Len(F) = (Len(ss) - 1) * e + Len(ss[Len(ss)])
        /\ \A k \in 1 .. Len(ss) : \A j \in 1 .. Len(ss[k]) :
             (k - 1) * e + j \in 1 .. Len(F) /\ F[(k - 1) * e + j] = ss[k][j]
    BY <1>6, <2>1, <2>2, FlattenEven
  <2> QED BY <1>6, <2>3
<1> HIDE DEF F
<1>9. Len(F) = L + n
  <2>1. n \in 1 .. n
    BY <1>4
  <2>2. Len(ss[n]) = L - (n - 1) * d + 1
    BY <1>5, <1>6, <2>1
  <2> DEFINE x == (n - 1) * d
  <2>3. (n - 1) * e = x + (n - 1) /\ x \in Int
    BY <1>1, <1>4
  <2>4. Len(ss[n]) = L - x + 1
    BY <2>2
  <2> HIDE DEF x, e
  <2> QED BY <1>1, <1>4, <1>8, <2>3, <2>4
<1>10. ASSUME NEW k \in 1 .. L
       PROVE  k + 1 + (k - 1) \div d \in 1 .. Len(F) /\ F[k + 1 + (k - 1) \div d] = w[k]
  <2> DEFINE q == (k - 1) \div d
             x == q * d
             j == k - x
  <2>1. q \in Int /\ x <= k - 1 /\ k - 1 < x + d /\ k - 1 \in Nat
    <3>1. k - 1 \in Int /\ k - 1 \in Nat
      BY <1>1
    <3> QED BY <1>1, <3>1, Quotient
  <2> HIDE DEF q
  <2>2. x \in Int
    BY <1>1, <2>1
  <2>3. q \in Nat
    <3>1. SUFFICES ASSUME q <= -1 PROVE FALSE
      BY <2>1
    <3>2. x + d <= 0
      BY <1>1, <2>1, <3>1
    <3> HIDE DEF x
    <3> QED BY <1>1, <2>1, <2>2, <3>2
  <2>4. q + 1 \in 1 .. n
    <3>1. SUFFICES ASSUME q >= n PROVE FALSE
      BY <1>4, <2>3
    <3>2. x >= n * d
      BY <1>1, <1>4, <2>3, <3>1
    <3> DEFINE y == n * d
    <3>3. L <= y /\ y \in Int
      BY <1>1, <1>4
    <3>4. x >= y
      BY <3>2
    <3> HIDE DEF x, y
    <3> QED BY <1>1, <2>1, <2>2, <3>3, <3>4
  <2> DEFINE z == q + 1
  <2>c. z \in 1 .. n
    BY <2>4
  <2>6. (z - 1) * d = x /\ (z - 1) * e = x + q /\ z * d = x + d
    <3>1. z - 1 = q
      BY <2>3
    <3>2. q * e = x + q /\ (q + 1) * d = x + d
      BY <1>1, <2>3
    <3> QED BY <3>1, <3>2
  <2> HIDE DEF z
  <2>5a. size(z) = (IF z = n THEN L ELSE x + d) - x
    BY <2>6
  <2>5. j \in 1 .. size(z)
    <3> HIDE DEF x, size
    <3> QED BY <1>1, <2>1, <2>2, <2>5a
  <2>7. Len(ss[z]) = size(z) + 1 /\ ss[z][j + 1] = w[x + j] /\ size(z) \in Nat
    <3> HIDE DEF j, size, x
    <3>1. ss[z] = Packet(w, d, z)
      BY <1>6, <2>c
    <3>2. Len(Packet(w, d, z)) = size(z) + 1 /\ Packet(w, d, z)[j + 1] = w[(z - 1) * d + j] /\ size(z) \in Nat
      BY <1>5, <2>c, <2>5
    <3> QED BY <2>6, <3>1, <3>2
  <2>8. x + j = k /\ j \in Int
    <3> HIDE DEF x
    <3> QED BY <2>2
  <2> HIDE DEF j, size, x
  <2>9. j + 1 \in 1 .. Len(ss[z])
    BY <2>5, <2>7, <2>8
  <2>10. (x + q) + (j + 1) \in 1 .. Len(F) /\ F[(x + q) + (j + 1)] = ss[z][j + 1]
    <3> HIDE DEF e
    <3>1. \A i \in 1 .. Len(ss[z]) : (z - 1) * e + i \in 1 .. Len(F) /\ F[(z - 1) * e + i] = ss[z][i]
      BY <1>8, <2>c
    <3> QED BY <2>6, <2>9, <3>1
  <2>11. (x + q) + (j + 1) = k + 1 + q
    BY <2>1, <2>2, <2>8
  <2> QED BY <2>7, <2>8, <2>10, <2>11 DEF q
<1>11. InTurn(w, F, d, n)
  BY <1>4, <1>9, <1>10 DEF InTurn, L
<1> QED BY <1>2, <1>4, <1>11 DEF F, d


\* A whole file is read as what was written: no number is taken for a header, and none is missing.
LEMMA WholeFileRead ==
  ASSUME NEW f \in DOMAIN MediaFiles, MediaFiles[f].whole
  PROVE  TracksOf[f] = MediaFiles[f].info
<1> DEFINE m == MediaFiles[f].info
           W == MediaFiles[f].words
           w == InfoAsWords(m)
           packets == InPackets(w)
           read == Min({BufferWords, Len(W)})
           P == PacketWords
           d == P - 1
           h == (read + P - 1) \div P
           L == Len(w)
           r == WithoutHeaders(W)
<1>1. /\ m \in MediaInfos /\ W \in Seq(Int) /\ Len(packets) <= read
      /\ \A i \in 1 .. Len(packets) : W[i] = packets[i]
  BY MediaAssumption
<1>2. w \in Seq(Int) /\ L \in Nat \ {0}
  <2>1. /\ Len(m.auds) \in Nat /\ Len(m.subs) \in Nat /\ Len(m.ttxs) \in Nat /\ w \in Seq(Int)
        /\ L = 7 + 3 * Len(m.auds) + 7 * Len(m.subs) + 4 * Len(m.ttxs)
    BY <1>1, InfoStands
  <2> DEFINE a == Len(m.auds)
             b == Len(m.subs)
             c == Len(m.ttxs)
  <2> HIDE DEF w, m, L, a, b, c
  <2>2. a \in Nat /\ b \in Nat /\ c \in Nat /\ L = 7 + 3 * a + 7 * b + 4 * c
    BY <2>1 DEF a, b, c
  <2>3. L \in Nat \ {0}
    BY <2>2
  <2> QED BY <2>1, <2>3
<1>3. PICK n \in Nat : InTurn(w, packets, d, n)
  <2> HIDE DEF w
  <2>1. Len(w) # 0
    BY <1>2
  <2>2. \E n \in Nat : InTurn(w, InPackets(w), PacketWords - 1, n)
    BY <1>2, <2>1, PacketsHold, Zenon
  <2> QED BY <2>2, Zenon
<1>3a. /\ n \in Nat \ {0} /\ L <= n * d /\ Len(packets) = L + n
       /\ \A k \in 1 .. L : k + 1 + (k - 1) \div d \in 1 .. Len(packets) /\ packets[k + 1 + (k - 1) \div d] = w[k]
  <2> HIDE DEF w, packets, d
  <2> QED BY <1>3 DEF InTurn
<1>4. P \in Nat \ {0, 1} /\ d \in Nat \ {0}
  BY TimeShiftAssumption
<1>5. read \in Nat /\ read <= Len(W) /\ Len(W) \in Nat
  <2>1. BufferWords \in Nat
    <3>1. PacketWords \in Nat \ {0} /\ InfoWords \in Nat
      BY TimeShiftAssumption
    <3>2. InfoWords \div PacketWords \in Nat
      BY <3>1
    <3> QED BY <3>1, <3>2 DEF BufferWords
  <2>2. Len(W) \in Nat
    BY <1>1, LenProperties
  <2>3. read = IF BufferWords <= Len(W) THEN BufferWords ELSE Len(W)
    BY <2>1, <2>2, MinOfTwo
  <2> HIDE DEF read
  <2> QED BY <2>1, <2>2, <2>3
<1>6. r = [k \in 1 .. (read - h) |-> W[k + 1 + (k - 1) \div d]]
  BY DEF WithoutHeaders
<1> HIDE DEF r, h, L, packets, w, W, read, m
<1>7. h \in Int /\ h * P <= read + P - 1 /\ read + P - 1 < h * P + P
  <2>1. read + P - 1 \in Int
    BY <1>4, <1>5
  <2> QED BY <1>4, <2>1, Quotient DEF h
<1>8. h \in Nat
  <2> DEFINE x == h * P
  <2>1. SUFFICES ASSUME h <= -1 PROVE FALSE
    BY <1>7
  <2>2. x + P <= 0 /\ x \in Int
    BY <1>4, <1>7, <2>1
  <2>3. read + P - 1 < x + P
    BY <1>7
  <2> HIDE DEF x
  <2> QED BY <1>4, <1>5, <2>2, <2>3
<1> DEFINE x == h * P
<1>9. x \in Int /\ h * d = x - h /\ x <= read + P - 1 /\ read <= x
  <2>1. x \in Int /\ h * d = x - h
    BY <1>4, <1>8
  <2>2. x <= read + P - 1 /\ read + P - 1 < x + P
    BY <1>7
  <2>3. read <= x
    <3> HIDE DEF x
    <3> QED BY <1>4, <1>5, <2>1, <2>2
  <2> QED BY <2>1, <2>2, <2>3
<1>10. L <= read - h
  <2>1. CASE h <= n
    BY <1>1, <1>2, <1>3a, <1>5, <1>8, <2>1
  <2>2. CASE h >= n + 1
    <3>1. (h - 1) * d = x - h - d
      <4>1. (h - 1) * d = h * d - d
        BY <1>4, <1>8
      <4> QED BY <1>9, <4>1
    <3>2. n * d <= (h - 1) * d
      <4>1. n <= h - 1 /\ n \in Nat /\ h - 1 \in Nat
        BY <1>3a, <1>8, <2>2
      <4> QED BY <1>4, <4>1
    <3> DEFINE y == n * d
    <3>3. y \in Int /\ L <= y /\ y <= x - h - d
      BY <1>3a, <1>4, <3>1, <3>2
    <3> HIDE DEF x, y
    <3> QED BY <1>2, <1>4, <1>5, <1>8, <1>9, <3>3
  <2> QED BY <1>3a, <1>8, <2>1, <2>2
<1>11. ASSUME NEW k \in 1 .. (read - h) PROVE k + 1 + (k - 1) \div d \in 1 .. Len(W)
  <2> DEFINE q == (k - 1) \div d
             u == q * d
  <2>1. k - 1 \in Nat /\ k \in Int
    BY <1>5, <1>8
  <2>2. q \in Int /\ u <= k - 1 /\ k - 1 < u + d
    <3> HIDE DEF d
    <3> DEFINE a == k - 1
    <3>1. a \in Int
      BY <2>1
    <3> HIDE DEF a
    <3>2. a \div d \in Int /\ (a \div d) * d <= a /\ a < (a \div d) * d + d
      BY <1>4, <3>1, Quotient
    <3> QED BY <3>2 DEF a
  <2> HIDE DEF q
  <2>3. u \in Int
    BY <1>4, <2>2
  <2>4. q >= 0
    <3>1. SUFFICES ASSUME q <= -1 PROVE FALSE
      BY <2>2
    <3>2. u + d <= 0
      BY <1>4, <2>2, <3>1
    <3> HIDE DEF u
    <3> QED BY <1>4, <2>1, <2>2, <2>3, <3>2
  <2>5. q < h
    <3>1. SUFFICES ASSUME q >= h PROVE FALSE
      BY <1>8, <2>2
    <3>2. h * d <= u
      BY <1>4, <1>8, <2>2, <3>1
    <3>3. x - h <= u
      BY <1>9, <3>2
    <3>4. k <= read - h
      BY <1>5, <1>8
    <3> HIDE DEF u, x
    <3> QED BY <1>5, <1>8, <1>9, <2>1, <2>2, <2>3, <3>3, <3>4
  <2>6. k + 1 + q \in 1 .. read
    <3>1. k \in 1 .. (read - h)
      OBVIOUS
    <3> QED BY <1>5, <1>8, <2>2, <2>4, <2>5, <3>1
  <2> QED BY <1>5, <2>6 DEF q
<1>12. r \in Seq(Int) /\ Len(r) = read - h
  <2>1. \A k \in 1 .. (read - h) : W[k + 1 + (k - 1) \div d] \in Int
    <3> TAKE k \in 1 .. (read - h)
    <3> DEFINE i == k + 1 + (k - 1) \div d
    <3>1. i \in 1 .. Len(W)
      BY <1>11
    <3> HIDE DEF i
    <3>2. W[i] \in Int
      BY <1>1, <3>1, ElementOfSeq
    <3> QED BY <3>2 DEF i
  <2>2. r \in [1 .. (read - h) -> Int]
    BY <1>6, <2>1
  <2>3. read - h \in Nat
    BY <1>2, <1>5, <1>8, <1>10
  <2> QED BY <2>2, <2>3, LenProperties
<1>13. ASSUME NEW k \in 1 .. L PROVE r[k] = w[k]
  <2> DEFINE i == k + 1 + (k - 1) \div d
  <2>1. i \in 1 .. Len(packets) /\ packets[i] = w[k]
    BY <1>3a
  <2>2. k \in 1 .. (read - h)
    BY <1>2, <1>5, <1>8, <1>10
  <2>3. r[k] = W[i]
    BY <1>6, <2>2
  <2> HIDE DEF i
  <2> QED BY <1>1, <2>1, <2>3
<1>14. MediaOf(r) = m
  <2>1. Len(r) >= Len(w)
    BY <1>2, <1>10, <1>12 DEF L
  <2>2. \A k \in 1 .. Len(w) : r[k] = w[k]
    BY <1>13 DEF L
  <2> QED BY <1>1, <1>12, <2>1, <2>2, MediaRead DEF w
<1>15. TracksOf[f] = MediaOf(r)
  BY DEF TracksOf, r, W
<1> QED BY <1>14, <1>15 DEF m

-----------------------------------------------------------------------------
(* The sessions of the AV library (TimeShift). *)

\* The tracks are those read from the file, if there is one.
TracksHeld(file, tracks) ==
    file = {} \/ \E f \in DOMAIN MediaFiles : file = {f} /\ tracks = TracksOf[f]

LEMMA NoTracks == ASSUME NEW tracks PROVE TracksHeld({}, tracks)
BY DEF TracksHeld

LEMMA TracksRead == ASSUME NEW f \in DOMAIN MediaFiles PROVE TracksHeld({f}, TracksOf[f])
BY DEF TracksHeld


\* What a player and its sessions are, as far as the proof asks.
PlaySound(s) ==
    /\ s = [id |-> s.id, kind |-> s.kind, mode |-> s.mode, changed |-> s.changed,
            disabled |-> s.disabled, playing |-> s.playing, source |-> s.source,
            recorder |-> s.recorder, live |-> s.live, session |-> s.session,
            file |-> s.file, tracks |-> s.tracks, paused |-> s.paused,
            speed |-> s.speed, refused |-> s.refused]
    /\ s.kind \in {"dtv", "atv"}
    /\ s.mode \in {"live", "rec", "timeshift", "plain"}
    /\ TracksHeld(s.file, s.tracks)

\* A live stream is one that plays, from the tuner.
LiveHeld(s) == s.live => s.playing /\ s.source = "dtv"

\* No session, or one the library refused to stop.
Over(s) == s.session = "none" \/ s.refused

\* A session is that of a player which exists, in its mode.
SessionHeld(s) ==
    Over(s) \/ /\ s.id # NoId2 /\ s.kind = "dtv"
               /\ s.mode = (IF s.session = "rec" THEN "rec" ELSE "timeshift")

AtRest(s) == PlaySound(s) /\ LiveHeld(s) /\ Over(s)
PlayHeld(s) == PlaySound(s) /\ LiveHeld(s) /\ SessionHeld(s)

SamePlayer(s, t) == t.id = s.id /\ t.kind = s.kind /\ t.mode = s.mode
SameSession(s, t) == t.session = s.session /\ t.refused = s.refused

LEMMA StopPlayingHeld ==
    ASSUME NEW s, PlaySound(s), LiveHeld(s), NEW t, t = StopPlayingTs(s)
    PROVE  /\ PlaySound(t) /\ LiveHeld(t) /\ ~t.live
           /\ SamePlayer(s, t) /\ SameSession(s, t) /\ t.source = s.source
<1>1. CASE s.playing
  <2>1. t = [s EXCEPT !.playing = FALSE, !.live = s.live /\ s.source # "dtv"]
    BY <1>1 DEF StopPlayingTs
  <2> DEFINE v == s.live /\ s.source # "dtv"
  <2>2. ~v
    BY DEF LiveHeld
  <2>3. t = [s EXCEPT !.playing = FALSE, !.live = v]
    BY <2>1
  <2> HIDE DEF v
  <2>4. /\ t.live = v /\ t.id = s.id /\ t.kind = s.kind /\ t.mode = s.mode
        /\ t.session = s.session /\ t.refused = s.refused /\ t.source = s.source
    BY <2>3 DEF PlaySound
  <2>5. PlaySound(t)
    BY <2>3 DEF PlaySound
  <2> QED BY <2>2, <2>4, <2>5 DEF LiveHeld, SamePlayer, SameSession
<1>2. CASE ~s.playing
  BY <1>2 DEF StopPlayingTs, LiveHeld, SamePlayer, SameSession
<1> QED BY <1>1, <1>2

LEMMA SwitchHeld ==
    ASSUME NEW s, PlaySound(s), LiveHeld(s), NEW source, NEW t, t = SwitchTs(s, source)
    PROVE  /\ PlaySound(t) /\ LiveHeld(t) /\ t.source = source
           /\ SamePlayer(s, t) /\ SameSession(s, t)
<1>1. CASE s.source = source
  BY <1>1 DEF SwitchTs, SamePlayer, SameSession
<1>2. CASE s.source # source
  <2>1. PICK u : u = StopPlayingTs(s)
    OBVIOUS
  <2>2. /\ PlaySound(u) /\ ~u.live /\ SamePlayer(s, u) /\ SameSession(s, u)
    BY <2>1, StopPlayingHeld
  <2>3. t = [u EXCEPT !.source = source]
    BY <1>2, <2>1 DEF SwitchTs
  <2>4. /\ PlaySound(t) /\ t.source = source /\ ~t.live
        /\ SamePlayer(u, t) /\ SameSession(u, t)
    BY <2>2, <2>3 DEF PlaySound, SamePlayer, SameSession
  <2> QED BY <2>2, <2>4 DEF LiveHeld, SamePlayer, SameSession
<1> QED BY <1>1, <1>2

\* Only what is not asked about is written.
LEMMA OtherFields ==
    ASSUME NEW s, PlaySound(s), NEW v, NEW w,
           NEW t, t \in {[s EXCEPT !.recorder = v], [s EXCEPT !.disabled = v],
                         [s EXCEPT !.paused = v], [s EXCEPT !.speed = v],
                         [s EXCEPT !.changed = v], [s EXCEPT !.paused = v, !.speed = w]}
    PROVE  /\ PlaySound(t) /\ (LiveHeld(s) => LiveHeld(t))
           /\ SamePlayer(s, t) /\ SameSession(s, t)
BY DEF PlaySound, LiveHeld, SamePlayer, SameSession

LEMMA StopSessionHeld ==
    ASSUME NEW s, PlaySound(s), LiveHeld(s), NEW ok, NEW t, t = StopSession(s, ok)
    PROVE  AtRest(t) /\ SamePlayer(s, t)
<1>1. CASE s.session = "none"
  BY <1>1 DEF StopSession, AtRest, Over, SamePlayer
<1>2. CASE s.session # "none" /\ ok
  <2>1. t = [s EXCEPT !.session = "none", !.file = {}, !.tracks = NoMedia, !.paused = FALSE,
                      !.speed = 0, !.refused = FALSE]
    BY <1>2 DEF StopSession
  <2>2. PlaySound(t) /\ SamePlayer(s, t)
    BY <2>1, NoTracks DEF PlaySound, SamePlayer
  <2>3. /\ t.session = "none" /\ t.live = s.live /\ t.playing = s.playing /\ t.source = s.source
    BY <2>1 DEF PlaySound
  <2> QED BY <2>2, <2>3 DEF AtRest, LiveHeld, Over
<1>3. CASE s.session # "none" /\ ~ok
  <2>1. t = [s EXCEPT !.refused = TRUE]
    BY <1>3 DEF StopSession
  <2>2. PlaySound(t) /\ SamePlayer(s, t)
    BY <2>1 DEF PlaySound, SamePlayer
  <2>3. /\ t.refused /\ t.live = s.live /\ t.playing = s.playing /\ t.source = s.source
    BY <2>1 DEF PlaySound
  <2> QED BY <2>2, <2>3 DEF AtRest, LiveHeld, Over
<1> QED BY <1>1, <1>2, <1>3

\* The player's stop ends its session or is refused, whatever mode it was given before.
LEMMA PlayerStopsHeld ==
    ASSUME NEW s, PlaySound(s), LiveHeld(s), s.kind # "dtv" => Over(s),
           NEW ok, NEW t, t = PlayerStops(s, ok)
    PROVE  AtRest(t) /\ SamePlayer(s, t)
<1>1. CASE s.kind = "atv"
  <2>1. t = StopPlayingTs(s)
    BY <1>1 DEF PlayerStops
  <2>2. PlaySound(t) /\ LiveHeld(t) /\ SamePlayer(s, t) /\ SameSession(s, t)
    BY <2>1, StopPlayingHeld
  <2> QED BY <1>1, <2>2 DEF AtRest, Over, SameSession
<1>2. CASE s.kind # "atv"
  <2>1. PICK r : r = IF s.disabled THEN s ELSE [s EXCEPT !.recorder = FALSE]
    OBVIOUS
  <2>2. PICK u : u = StopPlayingTs(r)
    OBVIOUS
  <2>3. t = StopSession(u, ok)
    BY <1>2, <2>1, <2>2 DEF PlayerStops
  <2>4. PlaySound(r) /\ LiveHeld(r) /\ SamePlayer(s, r)
    <3>1. CASE r = s
      BY <3>1 DEF SamePlayer
    <3>2. CASE r = [s EXCEPT !.recorder = FALSE]
      BY <3>2 DEF PlaySound, LiveHeld, SamePlayer
    <3> QED BY <2>1, <3>1, <3>2
  <2>5. PlaySound(u) /\ LiveHeld(u) /\ SamePlayer(r, u)
    BY <2>2, <2>4, StopPlayingHeld
  <2>6. AtRest(t) /\ SamePlayer(u, t)
    BY <2>3, <2>5, StopSessionHeld
  <2> QED BY <2>4, <2>5, <2>6 DEF SamePlayer
<1> QED BY <1>1, <1>2

\* Set up or not: the session is not touched.
LEMMA SetUpHeld ==
    ASSUME NEW s, PlaySound(s), LiveHeld(s), NEW p,
           p.mode \in {"live", "rec", "timeshift", "plain"}, NEW t, t = SetUp(s, p)
    PROVE  /\ PlaySound(t) /\ LiveHeld(t) /\ SameSession(s, t) /\ t.id = s.id /\ t.kind = s.kind
<1>1. CASE t = s
  BY <1>1 DEF SameSession
<1>2. CASE t = [s EXCEPT !.mode = p.mode, !.changed = TRUE]
  <2> DEFINE m == p.mode
  <2>1. m \in {"live", "rec", "timeshift", "plain"} /\ t = [s EXCEPT !.mode = m, !.changed = TRUE]
    BY <1>2
  <2> HIDE DEF m
  <2> QED BY <2>1 DEF PlaySound, LiveHeld, SameSession
<1> QED BY <1>1, <1>2 DEF SetUp

LEMMA ReleasePlayerHeld ==
    ASSUME NEW s, PlayHeld(s), NEW ok, NEW t, t = ReleasePlayerTs(s, ok)
    PROVE  AtRest(t) /\ t.id = NoId2
<1>1. CASE s.id = NoId2
  BY <1>1 DEF ReleasePlayerTs, PlayHeld, AtRest, SessionHeld
<1>2. CASE s.id # NoId2
  <2>1. PICK u : u = PlayerStops(s, ok)
    OBVIOUS
  <2>2. AtRest(u)
    BY <2>1, PlayerStopsHeld DEF PlayHeld, SessionHeld
  <2>3. t = [u EXCEPT !.id = NoId2]
    BY <1>2, <2>1 DEF ReleasePlayerTs
  <2> QED BY <2>2, <2>3 DEF AtRest, PlaySound, LiveHeld, Over
<1> QED BY <1>1, <1>2

\* getPlayer hands out a player at rest, or none.
LEMMA GetPlayerHeld ==
    ASSUME NEW s, PlayHeld(s), NEW id \in PlayIds, NEW p \in PlayParams, NEW prop, NEW ok,
           NEW t, t = GetPlayerTs(s, id, p, prop, ok)
    PROVE  AtRest(t) /\ (t.id = id \/ t.id = NoId2)
<1>1. p.mode \in {"live", "rec", "timeshift", "plain"} /\ p.type \in {"dtv", "atv", "unknown"}
  BY DEF PlayParams
<1>2. CASE s.id = id
  <2>1. PICK u : u = SetUp(s, p)
    OBVIOUS
  <2>2. t = PlayerStops(u, ok)
    BY <1>2, <2>1 DEF GetPlayerTs
  <2>3. /\ PlaySound(u) /\ LiveHeld(u) /\ SameSession(s, u) /\ u.id = s.id /\ u.kind = s.kind
    BY <1>1, <2>1, SetUpHeld DEF PlayHeld
  <2>4. u.kind # "dtv" => Over(u)
    BY <2>3 DEF PlayHeld, SessionHeld, Over, SameSession
  <2>5. AtRest(t) /\ SamePlayer(u, t)
    BY <2>2, <2>3, <2>4, PlayerStopsHeld
  <2> QED BY <1>2, <2>3, <2>5 DEF SamePlayer
<1>3. CASE s.id # id
  <2>1. PICK r : r = ReleasePlayerTs(s, ok)
    OBVIOUS
  <2>2. AtRest(r) /\ r.id = NoId2
    BY <2>1, ReleasePlayerHeld
  <2>3. CASE p.type = "unknown"
    BY <1>3, <2>1, <2>2, <2>3 DEF GetPlayerTs
  <2>4. CASE p.type # "unknown"
    <3> DEFINE k == p.type
    <3>1. k \in {"dtv", "atv"}
      BY <1>1, <2>4
    <3>2. PICK u : u = [r EXCEPT !.id = id, !.kind = k, !.mode = "live", !.changed = TRUE,
                                 !.disabled = prop]
      OBVIOUS
    <3>3. t = SetUp(u, p)
      BY <1>3, <2>1, <2>4, <3>2 DEF GetPlayerTs
    <3> HIDE DEF k
    <3>4. PlaySound(u) /\ LiveHeld(u) /\ Over(u) /\ u.id = id
      BY <2>2, <3>1, <3>2 DEF AtRest, PlaySound, LiveHeld, Over
    <3>5. PlaySound(t) /\ LiveHeld(t) /\ SameSession(u, t) /\ t.id = u.id
      BY <1>1, <3>3, <3>4, SetUpHeld
    <3> QED BY <3>4, <3>5 DEF AtRest, Over, SameSession
  <2> QED BY <2>3, <2>4
<1> QED BY <1>2, <1>3

\* playDtvProgramUnlocked.
LEMMA PlayLiveHeld ==
    ASSUME NEW s, PlaySound(s), LiveHeld(s), NEW ok, NEW t, t = PlayLiveTs(s, ok)
    PROVE  PlaySound(t) /\ LiveHeld(t) /\ SamePlayer(s, t) /\ SameSession(s, t)
<1>1. PICK u : u = SwitchTs(s, "dtv")
  OBVIOUS
<1>2. /\ PlaySound(u) /\ u.source = "dtv" /\ SamePlayer(s, u) /\ SameSession(s, u)
  BY <1>1, SwitchHeld
<1>3. t = [u EXCEPT !.playing = TRUE, !.live = ok]
  BY <1>1 DEF PlayLiveTs
<1>4. /\ PlaySound(t) /\ t.playing /\ t.source = u.source /\ SamePlayer(u, t) /\ SameSession(u, t)
  BY <1>2, <1>3 DEF PlaySound, SamePlayer, SameSession
<1> QED BY <1>2, <1>4 DEF LiveHeld, SamePlayer, SameSession

\* startTimeShift and its like.
LEMMA StartSessionHeld ==
    ASSUME NEW s, PlaySound(s), LiveHeld(s), NEW ok, NEW is,
           NEW file, ok => file = {} \/ \E f \in DOMAIN MediaFiles : file = {f},
           NEW t, t = StartSession(s, ok, is, file)
    PROVE  /\ PlaySound(t) /\ LiveHeld(t) /\ SamePlayer(s, t)
           /\ t.session = (IF ok THEN is ELSE s.session) /\ t.refused = s.refused
<1>1. CASE ~ok
  BY <1>1 DEF StartSession, SamePlayer
<1>2. CASE ok
  <2>1. PICK x : x = IF file = {} THEN NoMedia ELSE TracksOf[CHOOSE f \in file : TRUE]
    OBVIOUS
  <2>2. t = [s EXCEPT !.session = is, !.file = file, !.paused = FALSE, !.speed = 0, !.tracks = x]
    BY <1>2, <2>1 DEF StartSession
  <2>2a. TracksHeld(file, x)
    <3>1. CASE file = {}
      BY <3>1, NoTracks
    <3>2. ASSUME NEW f \in DOMAIN MediaFiles, file = {f} PROVE TracksHeld(file, x)
      <4>1. x = TracksOf[f]
        BY <2>1, <3>2
      <4> QED BY <3>2, <4>1, TracksRead
    <3> QED BY <1>2, <3>1, <3>2
  <2>3. PlaySound(t) /\ SamePlayer(s, t) /\ t.session = is /\ t.refused = s.refused
    BY <2>2, <2>2a DEF PlaySound, SamePlayer
  <2>4. t.live = s.live /\ t.playing = s.playing /\ t.source = s.source
    BY <2>2 DEF PlaySound
  <2> QED BY <1>2, <2>3, <2>4 DEF LiveHeld
<1> QED BY <1>1, <1>2

\* A live play: a time shift in that mode, or no session.
LEMMA StartLiveHeld ==
    ASSUME NEW s, AtRest(s), s.id # NoId2, s.kind = "dtv", NEW c, NEW t, t = StartLiveTs(s, c)
    PROVE  PlayHeld(t)
<1>1. PICK dis : dis = (s.disabled \/ c.prop)
  OBVIOUS
<1>2. PICK d : d = [s EXCEPT !.disabled = dis]
  OBVIOUS
<1>3. PICK r : r = IF ~d.disabled /\ d.changed THEN [d EXCEPT !.recorder = c.recorder] ELSE d
  OBVIOUS
<1>4. PICK w : w = SwitchTs(r, "dtv")
  OBVIOUS
<1>5. PICK x : x = [w EXCEPT !.playing = TRUE]
  OBVIOUS
<1>6. PICK shift : shift = StartSession(x, c.start, "shift", {})
  OBVIOUS
<1>7. PICK y : y = IF r.recorder /\ ~r.disabled THEN shift ELSE r
  OBVIOUS
<1>8. PICK l : l = PlayLiveTs(y, c.plays)
  OBVIOUS
<1>9. t = IF r.recorder /\ ~r.disabled /\ c.start THEN [shift EXCEPT !.mode = "timeshift"]
          ELSE [l EXCEPT !.mode = "plain"]
  <2>1. d = [s EXCEPT !.disabled = @ \/ c.prop]
    BY <1>1, <1>2 DEF AtRest, PlaySound
  <2> QED BY <2>1, <1>3, <1>4, <1>5, <1>6, <1>7, <1>8 DEF StartLiveTs
<1>10. PlaySound(d) /\ LiveHeld(d) /\ SamePlayer(s, d) /\ SameSession(s, d)
  BY <1>2, OtherFields DEF AtRest
<1>11. PlaySound(r) /\ LiveHeld(r) /\ SamePlayer(d, r) /\ SameSession(d, r)
  <2>1. CASE r = d
    BY <1>10, <2>1 DEF SamePlayer, SameSession
  <2>2. CASE r # d
    <3>1. PICK v : v = c.recorder
      OBVIOUS
    <3>2. r = [d EXCEPT !.recorder = v]
      BY <1>3, <2>2, <3>1
    <3> QED BY <1>10, <3>2, OtherFields
  <2> QED BY <2>1, <2>2
<1>12. PlaySound(w) /\ LiveHeld(w) /\ SamePlayer(r, w) /\ SameSession(r, w)
  BY <1>4, <1>11, SwitchHeld
<1>13. PlaySound(x) /\ LiveHeld(x) /\ SamePlayer(w, x) /\ SameSession(w, x)
  <2>1. PlaySound(x) /\ SamePlayer(w, x) /\ SameSession(w, x)
    BY <1>5, <1>12 DEF PlaySound, SamePlayer, SameSession
  <2>2. x.playing /\ x.source = w.source /\ x.live = w.live
    BY <1>5, <1>12 DEF PlaySound
  <2> QED BY <2>1, <2>2, <1>12 DEF LiveHeld
<1>14. /\ PlaySound(shift) /\ LiveHeld(shift) /\ SamePlayer(x, shift)
       /\ shift.session = (IF c.start THEN "shift" ELSE x.session) /\ shift.refused = x.refused
  <2> DEFINE is == "shift"
  <2>1. PICK ok : ok = c.start
    OBVIOUS
  <2>2. shift = StartSession(x, ok, is, {})
    BY <1>6, <2>1
  <2> HIDE DEF is
  <2>3. /\ PlaySound(shift) /\ LiveHeld(shift) /\ SamePlayer(x, shift)
        /\ shift.session = (IF ok THEN is ELSE x.session) /\ shift.refused = x.refused
    BY <1>13, <2>2, StartSessionHeld
  <2>4. CASE ok
    BY <2>1, <2>3, <2>4 DEF is
  <2>5. CASE ~ok
    BY <2>1, <2>3, <2>5
  <2> QED BY <2>4, <2>5
<1>15. SamePlayer(s, shift)
  BY <1>10, <1>11, <1>12, <1>13, <1>14 DEF SamePlayer
<1>16. CASE r.recorder /\ ~r.disabled /\ c.start
  <2>1. t = [shift EXCEPT !.mode = "timeshift"]
    BY <1>9, <1>16
  <2>2. shift.session = "shift"
    BY <1>14, <1>16
  <2>3. /\ PlaySound(t) /\ t.mode = "timeshift" /\ t.session = "shift" /\ t.id = shift.id
        /\ t.kind = shift.kind
    BY <1>14, <2>1, <2>2 DEF PlaySound
  <2>4. LiveHeld(t)
    BY <1>14, <2>1 DEF PlaySound, LiveHeld
  <2> QED BY <1>15, <2>3, <2>4 DEF PlayHeld, SessionHeld, SamePlayer
<1>17. CASE ~(r.recorder /\ ~r.disabled /\ c.start)
  <2>1. t = [l EXCEPT !.mode = "plain"]
    BY <1>9, <1>17
  <2>2. Over(r)
    BY <1>10, <1>11 DEF AtRest, Over, SameSession
  <2>3. Over(y) /\ PlaySound(y) /\ LiveHeld(y)
    <3>1. CASE y = r
      BY <1>11, <2>2, <3>1
    <3>2. CASE y = shift /\ ~c.start
      <4>1. shift.session = r.session /\ shift.refused = r.refused
        BY <1>12, <1>13, <1>14, <3>2 DEF SameSession
      <4>2. Over(shift)
        BY <2>2, <4>1 DEF Over
      <4> QED BY <1>14, <3>2, <4>2
    <3> QED BY <1>7, <1>17, <3>1, <3>2
  <2>4. PICK ok : ok = c.plays
    OBVIOUS
  <2>5. l = PlayLiveTs(y, ok)
    BY <1>8, <2>4
  <2>6. PlaySound(l) /\ LiveHeld(l) /\ SameSession(y, l)
    BY <2>3, <2>5, PlayLiveHeld
  <2>7. Over(l)
    BY <2>3, <2>6 DEF Over, SameSession
  <2> QED BY <2>1, <2>6, <2>7 DEF PlaySound, LiveHeld, Over, PlayHeld, SessionHeld
<1> QED BY <1>16, <1>17

\* A recording that is played back is one of the files.
LEMMA FileChosen ==
    ASSUME NEW c \in ChancesIn["rec"], c.start
    PROVE  \E f \in DOMAIN MediaFiles : {c.file} = {f}
<1> DEFINE refused == [free |-> FALSE, prop |-> FALSE, recorder |-> FALSE, start |-> FALSE, plays |-> FALSE,
                       file |-> CHOOSE f \in DOMAIN MediaFiles : TRUE]
<1>1. c \in {refused} \cup ({[refused EXCEPT !.free = TRUE, !.start = TRUE, !.file = f] : f \in DOMAIN MediaFiles}
                                \cup {[refused EXCEPT !.free = TRUE]})
  BY DEF ChancesIn
<1>2. ~refused.start /\ ~[refused EXCEPT !.free = TRUE].start
  OBVIOUS
<1>3. PICK f \in DOMAIN MediaFiles : c = [refused EXCEPT !.free = TRUE, !.start = TRUE, !.file = f]
  BY <1>1, <1>2
<1>4. c.file = f
  BY <1>3
<1> QED BY <1>4

\* start, of a player at rest.
LEMMA PlayerStartsHeld ==
    ASSUME NEW s, AtRest(s), s.id # NoId2, NEW c \in ChancesIn[s.mode], NEW t, t = PlayerStarts(s, c)
    PROVE  PlayHeld(t)
<1>1. PlayHeld(s) /\ PlaySound(s) /\ LiveHeld(s) /\ Over(s)
  BY DEF AtRest, PlayHeld, SessionHeld
<1>2. CASE s.kind = "atv"
  <2>1. PICK w : w = SwitchTs(s, "tv")
    OBVIOUS
  <2>2. PlaySound(w) /\ LiveHeld(w) /\ SameSession(s, w)
    BY <1>1, <2>1, SwitchHeld
  <2>3. t = [w EXCEPT !.playing = TRUE]
    BY <1>2, <2>1 DEF PlayerStarts
  <2>4. PlaySound(t) /\ SameSession(w, t) /\ t.playing /\ t.live = w.live /\ t.source = w.source
    BY <2>2, <2>3 DEF PlaySound, SameSession
  <2> QED BY <1>1, <2>2, <2>4 DEF PlayHeld, LiveHeld, SessionHeld, Over, SameSession
<1>3. CASE s.kind # "atv" /\ ~c.free
  BY <1>1, <1>3 DEF PlayerStarts
<1>4. CASE s.kind # "atv" /\ c.free
  <2>0. s.kind = "dtv"
    BY <1>1, <1>4 DEF PlaySound
  <2> DEFINE u == CASE s.mode = "live" -> StartLiveTs(s, c)
                    [] s.mode = "timeshift" -> [PlayLiveTs(s, c.plays) EXCEPT !.mode = "live"]
                    [] s.mode = "rec" -> StartSession([s EXCEPT !.playing = TRUE], c.start, "rec", {c.file})
                    [] s.mode = "plain" -> s
  <2>1. t = [u EXCEPT !.changed = FALSE]
    BY <1>4 DEF PlayerStarts
  <2>2. /\ s.mode = "live" => u = StartLiveTs(s, c)
        /\ s.mode = "timeshift" => u = [PlayLiveTs(s, c.plays) EXCEPT !.mode = "live"]
        /\ s.mode = "rec" => u = StartSession([s EXCEPT !.playing = TRUE], c.start, "rec", {c.file})
        /\ s.mode = "plain" => u = s
    OBVIOUS
  <2> HIDE DEF u
  <2>3. PlayHeld(u)
    <3>1. CASE s.mode = "live"
      BY <2>0, <2>2, <3>1, StartLiveHeld
    <3>2. CASE s.mode = "timeshift"
      <4>1. PICK ok : ok = c.plays
        OBVIOUS
      <4>2. PICK l : l = PlayLiveTs(s, ok)
        OBVIOUS
      <4>3. u = [l EXCEPT !.mode = "live"]
        BY <2>2, <3>2, <4>1, <4>2
      <4>4. PlaySound(l) /\ LiveHeld(l) /\ SameSession(s, l)
        BY <1>1, <4>2, PlayLiveHeld
      <4> QED BY <1>1, <4>3, <4>4 DEF PlayHeld, PlaySound, LiveHeld, SessionHeld, Over, SameSession
    <3>3. CASE s.mode = "rec"
      <4>1. PICK x : x = [s EXCEPT !.playing = TRUE]
        OBVIOUS
      <4>2. PICK ok : ok = c.start
        OBVIOUS
      <4> DEFINE is == "rec"
      <4>3. u = StartSession(x, ok, is, {c.file})
        BY <2>2, <3>3, <4>1, <4>2
      <4> HIDE DEF is
      <4>3a. ok => \E f \in DOMAIN MediaFiles : {c.file} = {f}
        BY <3>3, <4>2, FileChosen
      <4>4. PlaySound(x) /\ LiveHeld(x) /\ SamePlayer(s, x) /\ SameSession(s, x)
        BY <1>1, <4>1 DEF PlaySound, LiveHeld, SamePlayer, SameSession
      <4>5. /\ PlaySound(u) /\ LiveHeld(u) /\ SamePlayer(x, u)
            /\ u.session = (IF ok THEN is ELSE x.session) /\ u.refused = x.refused
        BY <4>3, <4>3a, <4>4, StartSessionHeld
      <4>6. u.id # NoId2 /\ u.kind = "dtv" /\ u.mode = "rec"
        BY <2>0, <3>3, <4>4, <4>5 DEF SamePlayer
      <4>7. CASE ok
        BY <4>5, <4>6, <4>7 DEF PlayHeld, SessionHeld, is
      <4>8. CASE ~ok
        BY <1>1, <4>4, <4>5, <4>8 DEF PlayHeld, SessionHeld, Over, SameSession
      <4> QED BY <4>7, <4>8
    <3>4. CASE s.mode = "plain"
      BY <1>1, <2>2, <3>4
    <3> QED BY <1>1, <3>1, <3>2, <3>3, <3>4 DEF PlaySound
  <2> QED BY <2>1, <2>3 DEF PlayHeld, PlaySound, LiveHeld, SessionHeld, Over
<1> QED BY <1>2, <1>3, <1>4

\* SetSourceSwitchInput's and StopTvLock's releasing.
LEMMA ReleaseAllHeld ==
    ASSUME NEW s, PlayHeld(s), NEW ok, NEW t, t = ReleaseAllTs(s, ok)
    PROVE  PlayHeld(t)
<1>1. PICK r : r = ReleasePlayerTs(s, ok)
  OBVIOUS
<1>2. AtRest(r)
  BY <1>1, ReleasePlayerHeld
<1>3. t = [r EXCEPT !.recorder = FALSE]
  BY <1>1 DEF ReleaseAllTs
<1> QED BY <1>2, <1>3 DEF AtRest, PlayHeld, PlaySound, LiveHeld, SessionHeld, Over

LEMMA SessionInit == TsInit => PlayHeld(pb)
BY NoTracks DEF TsInit, PlayHeld, PlaySound, LiveHeld, SessionHeld, Over

\* Every command keeps it so.
LEMMA SessionStep ==
    ASSUME PlayHeld(pb), TsNext
    PROVE  PlayHeld(pb')
<1>1. PICK t : t = pb'
  OBVIOUS
<1>2. SUFFICES PlayHeld(t)
  BY <1>1
<1>3. PlaySound(pb) /\ LiveHeld(pb) /\ SessionHeld(pb)
  BY DEF PlayHeld
<1>4. CASE PlayUpdateTs
  BY <1>1, <1>4 DEF PlayUpdateTs
<1>5. CASE StartPlayTs
  <2>1. PICK id \in PlayIds : \E p \in PlayParams, ok \in Stops,
                                 prop \in (IF pb.id = id THEN {FALSE} ELSE BOOLEAN) :
              LET s == GetPlayerTs(pb, id, p, prop, ok) IN
              \E c \in ChancesIn[s.mode] : pb' = IF s.id = id THEN PlayerStarts(s, c) ELSE s
    BY <1>5 DEF StartPlayTs
  <2>2. PICK p \in PlayParams, ok \in Stops,
             prop \in (IF pb.id = id THEN {FALSE} ELSE BOOLEAN) :
              LET s == GetPlayerTs(pb, id, p, prop, ok) IN
              \E c \in ChancesIn[s.mode] : pb' = IF s.id = id THEN PlayerStarts(s, c) ELSE s
    BY <2>1
  <2>3. PICK s : s = GetPlayerTs(pb, id, p, prop, ok)
    OBVIOUS
  <2>4. PICK c \in ChancesIn[s.mode] : t = IF s.id = id THEN PlayerStarts(s, c) ELSE s
    BY <1>1, <2>2, <2>3
  <2>5. AtRest(s)
    BY <2>3, GetPlayerHeld
  <2>6. id # NoId2
    BY PlayIdsAssumption
  <2>7. CASE s.id = id
    BY <2>4, <2>5, <2>6, <2>7, PlayerStartsHeld
  <2>8. CASE s.id # id
    BY <2>4, <2>5, <2>8 DEF AtRest, PlayHeld, SessionHeld
  <2> QED BY <2>7, <2>8
<1>6. CASE StopPlayTs
  <2>1. PICK ok : t = [PlayerStops(pb, ok) EXCEPT !.id = NoId2]
    BY <1>1, <1>6 DEF StopPlayTs
  <2>2. PICK u : u = PlayerStops(pb, ok)
    OBVIOUS
  <2>3. AtRest(u)
    BY <1>3, <2>2, PlayerStopsHeld DEF SessionHeld
  <2>4. t = [u EXCEPT !.id = NoId2]
    BY <2>1, <2>2
  <2> QED BY <2>3, <2>4 DEF AtRest, PlayHeld, PlaySound, LiveHeld, SessionHeld, Over
<1>7. CASE PausePlayTs
  <2>1. CASE t = [StartSession(pb, TRUE, "shift", {})
                     EXCEPT !.mode = "timeshift", !.paused = TRUE]
    <3> DEFINE is == "shift"
    <3>1. PICK u : u = StartSession(pb, TRUE, is, {})
      OBVIOUS
    <3>2. t = [u EXCEPT !.mode = "timeshift", !.paused = TRUE]
      BY <2>1, <3>1
    <3>3. PICK ok : ok = TRUE
      OBVIOUS
    <3>4. u = StartSession(pb, ok, is, {})
      BY <3>1, <3>3
    <3> HIDE DEF is
    <3>5. PlaySound(u) /\ LiveHeld(u) /\ SamePlayer(pb, u) /\ u.session = (IF ok THEN is ELSE pb.session)
      BY <1>3, <3>4, StartSessionHeld
    <3>6. u.session = "shift"
      BY <3>3, <3>5 DEF is
    <3>7. /\ PlaySound(t) /\ t.session = "shift" /\ t.mode = "timeshift" /\ t.id = u.id /\ t.kind = u.kind
      BY <3>2, <3>5, <3>6 DEF PlaySound
    <3>8. LiveHeld(t)
      BY <3>2, <3>5 DEF PlaySound, LiveHeld
    <3>9. pb.id # NoId2 /\ pb.kind = "dtv"
      BY <1>7 DEF PausePlayTs
    <3> QED BY <3>5, <3>7, <3>8, <3>9 DEF PlayHeld, SessionHeld, SamePlayer
  <2>2. CASE t = [pb EXCEPT !.paused = TRUE]
    BY <1>3, <2>2 DEF PlayHeld, PlaySound, LiveHeld, SessionHeld, Over
  <2> QED BY <1>1, <1>7, <2>1, <2>2 DEF PausePlayTs
<1>8. CASE ResumePlayTs \/ SeekPlayTs
  <2>1. t = [pb EXCEPT !.paused = FALSE, !.speed = 0] \/ t = [pb EXCEPT !.paused = FALSE]
    BY <1>1, <1>8 DEF ResumePlayTs, SeekPlayTs
  <2> QED BY <1>3, <2>1 DEF PlayHeld, PlaySound, LiveHeld, SessionHeld, Over
<1>9. CASE SetPlayTs
  <2>1. PICK x : t = [pb EXCEPT !.speed = x]
    BY <1>1, <1>9 DEF SetPlayTs
  <2> QED BY <1>3, <2>1 DEF PlayHeld, PlaySound, LiveHeld, SessionHeld, Over
<1>10. CASE RecordTs
  <2>1. PICK x : t = [pb EXCEPT !.recorder = x]
    BY <1>1, <1>10 DEF RecordTs
  <2> QED BY <1>3, <2>1 DEF PlayHeld, PlaySound, LiveHeld, SessionHeld, Over
<1>11. CASE LeaveTuner
  <2>1. PICK ok, released : t = SwitchTs(IF released THEN ReleaseAllTs(pb, ok) ELSE pb, "other")
    BY <1>1, <1>11 DEF LeaveTuner
  <2>2. PICK u : u = IF released THEN ReleaseAllTs(pb, ok) ELSE pb
    OBVIOUS
  <2>3. t = SwitchTs(u, "other")
    BY <2>1, <2>2
  <2>4. PlayHeld(u)
    BY <2>2, ReleaseAllHeld
  <2>5. PlaySound(t) /\ LiveHeld(t) /\ SamePlayer(u, t) /\ SameSession(u, t)
    BY <2>3, <2>4, SwitchHeld DEF PlayHeld
  <2> QED BY <2>4, <2>5 DEF PlayHeld, SessionHeld, Over, SamePlayer, SameSession
<1>12. CASE StopTvTs
  <2>1. PICK ok : t = [StopPlayingTs(IF pb.source \in {"dtv", "tv"}
                                     THEN ReleaseAllTs(pb, ok) ELSE pb) EXCEPT !.source = "other"]
    BY <1>1, <1>12 DEF StopTvTs
  <2>2. PICK u : u = IF pb.source \in {"dtv", "tv"} THEN ReleaseAllTs(pb, ok) ELSE pb
    OBVIOUS
  <2>3. PICK w : w = StopPlayingTs(u)
    OBVIOUS
  <2>4. t = [w EXCEPT !.source = "other"]
    BY <2>1, <2>2, <2>3
  <2>5. PlayHeld(u)
    BY <2>2, ReleaseAllHeld
  <2>6. PlaySound(w) /\ LiveHeld(w) /\ ~w.live /\ SamePlayer(u, w) /\ SameSession(u, w)
    BY <2>3, <2>5, StopPlayingHeld DEF PlayHeld
  <2>7. SessionHeld(w)
    BY <2>5, <2>6 DEF PlayHeld, SessionHeld, Over, SamePlayer, SameSession
  <2> QED BY <2>4, <2>6, <2>7 DEF PlayHeld, PlaySound, LiveHeld, SessionHeld, Over
<1> QED BY <1>4, <1>5, <1>6, <1>7, <1>8, <1>9, <1>10, <1>11, <1>12 DEF TsNext

\* No session and no live stream is left that no player can stop, for any
\* players, files and commands, but for a stop that the library refused.
THEOREM SessionsAreHeld == TsSpec => []NoLooseSession
<1>1. PlayHeld(pb) /\ [TsNext]_tsVars => PlayHeld(pb)'
  <2>1. PlayHeld(pb) /\ UNCHANGED tsVars => PlayHeld(pb')
    BY DEF tsVars
  <2> QED BY <2>1, SessionStep
<1>2. PlayHeld(pb) => NoLooseSession
  BY DEF PlayHeld, LiveHeld, SessionHeld, Over, NoLooseSession
<1> QED BY <1>1, <1>2, SessionInit, PTL DEF TsSpec

\* A recording whose file is whole is played with the tracks it was written with, whatever they are
\* and however long a packet is, for any players and commands.
THEOREM TracksAsWritten == TsSpec => []PlaysAsWritten
<1>1. PlayHeld(pb) /\ [TsNext]_tsVars => PlayHeld(pb)'
  <2>1. PlayHeld(pb) /\ UNCHANGED tsVars => PlayHeld(pb')
    BY DEF tsVars
  <2> QED BY <2>1, SessionStep
<1>2. PlayHeld(pb) => PlaysAsWritten
  <2> SUFFICES ASSUME PlayHeld(pb), NEW f \in pb.file, MediaFiles[f].whole
               PROVE  pb.tracks = MediaFiles[f].info
    BY DEF PlaysAsWritten
  <2>1. f \in DOMAIN MediaFiles /\ pb.tracks = TracksOf[f]
    BY DEF PlayHeld, PlaySound, TracksHeld
  <2> QED BY <2>1, WholeFileRead
<1> QED BY <1>1, <1>2, SessionInit, PTL DEF TsSpec

=============================================================================
