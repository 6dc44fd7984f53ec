---------------------------- MODULE Parts_proofs ----------------------------
(***************************************************************************)
(* Proofs about parts of the server: the MAC address worker, the video     *)
(* layer, the AV library's events, the program database, the HDMI inputs,  *)
(* the settings, keys and audio curve, and what a scan stores.             *)
(***************************************************************************)
EXTENDS MacWorker, VideoLayer, ProgramDb, HdmiInputs, Settings, KeyData, ScanStore,
        DataLemmas, FiniteSetTheorems, SequenceTheorems, TLAPS

-----------------------------------------------------------------------------
(* The MAC address worker.  The threads are numbered in the order they     *)
(* were created; a call that overlaps no other finds every thread ended    *)
(* when it creates one.                                                    *)

WorkerTypes ==
  /\ \E n \in Nat : Threads = 1 .. n
  /\ workers = [w \in Threads |-> workers[w]]
  /\ macPc = [c \in MacCallers |-> macPc[c]]
  /\ workerId = NoWorker \/ workerId \in Threads

AllEnded == \A w \in Threads : workers[w] = "ended"
OneCaller == \A c, d \in MacCallers : macPc[c] # "idle" /\ macPc[d] # "idle" => c = d

WorkerInv ==
  /\ WorkerTypes
  /\ crossed \in BOOLEAN
  /\ crossed = FALSE =>
       /\ OneMacWorker /\ OneCaller
       /\ \A c \in MacCallers : macPc[c] = "creates" => AllEnded

LEMMA NextThread ==
  ASSUME NEW n \in Nat, Threads = 1 .. n
  PROVE  Cardinality(Threads) + 1 = n + 1 /\ n + 1 \notin Threads /\ Threads \cup {n + 1} = 1 .. (n + 1)
<1>1. Cardinality(1 .. n) = n
  BY FS_Interval
<1> QED BY <1>1

LEMMA WorkerInit == MacInit => WorkerInv
<1> SUFFICES ASSUME MacInit PROVE WorkerInv
  OBVIOUS
<1>1. Threads = 1 .. 0
  BY DEF MacInit, Threads, NotYet
<1>2. workers = [w \in Threads |-> workers[w]]
  BY DEF MacInit, Threads, NotYet
<1>3. WorkerTypes
  BY <1>1, <1>2 DEF MacInit, WorkerTypes
<1>4. AllEnded
  BY <1>1 DEF AllEnded
<1>5. OneMacWorker /\ OneCaller
  BY <1>1 DEF MacInit, OneMacWorker, OneCaller
<1> QED BY <1>3, <1>4, <1>5 DEF MacInit, WorkerInv

\* A caller that is at work is the only one, and stays so.
LEMMA OnlyCallerGoes ==
  ASSUME macPc = [c \in MacCallers |-> macPc[c]], OneCaller, NEW c \in MacCallers, NEW from, NEW to,
         from # "idle", CallerGoes(c, from, to)
  PROVE  OneCaller'
<1>1. macPc[c] = from /\ \A d \in MacCallers : d # c => macPc'[d] = macPc[d]
  BY DEF CallerGoes
<1>2. \A d \in MacCallers : d # c => macPc[d] = "idle"
  BY <1>1 DEF OneCaller
<1> QED BY <1>1, <1>2 DEF OneCaller

(* Steps that leave the threads as they are. *)
LEMMA CallerStep ==
  ASSUME WorkerInv, NEW c \in MacCallers, NEW from, NEW to, from # "idle", CallerGoes(c, from, to),
         UNCHANGED workers, workerId' = workerId \/ (workerId' = NoWorker /\ (~crossed => AllEnded)),
         crossed' = TRUE \/ (crossed' = crossed /\ (crossed = FALSE /\ to = "creates" => AllEnded))
  PROVE  WorkerInv'
<1>1. WorkerTypes'
  BY DEF WorkerInv, WorkerTypes, CallerGoes, Threads
<1>2. ASSUME crossed' = FALSE PROVE OneMacWorker' /\ OneCaller'
  <2>1. crossed = FALSE /\ OneMacWorker /\ OneCaller
    BY <1>2 DEF WorkerInv
  <2>2. OneCaller'
    BY <2>1, OnlyCallerGoes DEF WorkerInv, WorkerTypes
  <2>3. OneMacWorker'
    <3>1. UNCHANGED <<workers, Threads>>
      BY DEF Threads
    <3>2. \A w \in Threads : workers[w] # "ended" => w = workerId
      BY <2>1 DEF OneMacWorker
    <3>3. CASE workerId' = workerId
      BY <3>1, <3>2, <3>3 DEF OneMacWorker
    <3>4. CASE \A w \in Threads : workers[w] = "ended"
      BY <3>1, <3>4 DEF OneMacWorker
    <3> QED BY <1>2, <2>1, <3>3, <3>4 DEF AllEnded
  <2> QED BY <2>2, <2>3
<1>3. ASSUME crossed' = FALSE, NEW d \in MacCallers, macPc'[d] = "creates" PROVE AllEnded'
  BY <1>3 DEF WorkerInv, WorkerTypes, CallerGoes, Threads, AllEnded
<1>4. crossed' \in BOOLEAN
  BY DEF WorkerInv
<1> QED BY <1>1, <1>2, <1>3, <1>4 DEF WorkerInv

LEMMA WorkerStep == WorkerInv /\ [MacNext]_macVars => WorkerInv'
<1> SUFFICES ASSUME WorkerInv, [MacNext]_macVars PROVE WorkerInv'
  OBVIOUS
<1>1. ASSUME NEW c \in MacCallers, Create(c) PROVE WorkerInv'
  <2>1. WorkerTypes'
    BY <1>1 DEF Create, CallerGoes, WorkerInv, WorkerTypes, Threads
  <2>2. crossed' \in BOOLEAN
    BY <1>1 DEF Create, WorkerInv
  <2>3. ASSUME crossed' = FALSE PROVE (OneMacWorker /\ OneCaller)'
    BY <1>1, <2>3 DEF Create, CallerGoes, WorkerInv, WorkerTypes, OneMacWorker, OneCaller, Threads
  <2>4. ASSUME crossed' = FALSE, NEW d \in MacCallers, macPc'[d] = "creates" PROVE AllEnded'
    BY <1>1, <2>4 DEF Create, CallerGoes, WorkerInv, WorkerTypes, AllEnded, Threads
  <2> QED BY <2>1, <2>2, <2>3, <2>4 DEF WorkerInv
<1>2. ASSUME NEW c \in MacCallers, Decide(c) PROVE WorkerInv'
  <2>1. workerId = NoWorker /\ crossed = FALSE => AllEnded
    BY DEF WorkerInv, WorkerTypes, OneMacWorker, AllEnded, NoWorker
  <2>2. PICK to : CallerGoes(c, "decides", to) /\ (to = "creates" => workerId = NoWorker)
    BY <1>2 DEF Decide, Decides
  <2> QED BY <1>2, <2>1, <2>2, CallerStep DEF Decide
<1>3. ASSUME NEW c \in MacCallers, TurnOff(c) \/ SeenEnded(c) \/ GiveUp(c) PROVE WorkerInv'
  BY <1>3, CallerStep DEF TurnOff, SeenEnded, GiveUp
<1>4. ASSUME NEW c \in MacCallers, Join(c) PROVE WorkerInv'
  <2>1. crossed = FALSE => AllEnded
    BY <1>4 DEF Join, WorkerInv, WorkerTypes, OneMacWorker, AllEnded, NoWorker
  <2> QED BY <1>4, <2>1, CallerStep DEF Join, WorkerInv
<1>5. ASSUME NEW c \in MacCallers, TurnOnAndCreate(c) PROVE WorkerInv'
  <2> DEFINE w == Cardinality(Threads) + 1
  <2>1. CallerGoes(c, "creates", "idle") /\ UNCHANGED crossed
    BY <1>5 DEF TurnOnAndCreate
  <2>2. CASE UNCHANGED <<workerId, workers>>
    BY <2>1, <2>2, CallerStep
  <2>3. CASE workerId' = w /\ workers' = [t \in Threads \cup {w} |-> IF t = w THEN "starts" ELSE workers[t]]
    <3>1. PICK n \in Nat : Threads = 1 .. n
      BY DEF WorkerInv, WorkerTypes
    <3>2. w = n + 1 /\ n + 1 \notin Threads /\ Threads \cup {n + 1} = 1 .. (n + 1)
      BY <3>1, NextThread
    <3> HIDE DEF w
    <3>3. Threads' = 1 .. (n + 1) /\ w \in Threads'
      BY <2>3, <3>2 DEF Threads
    <3>4. WorkerTypes'
      <4>1. workers' = [t \in Threads' |-> workers'[t]]
        BY <2>3 DEF Threads
      <4>2. macPc' = [d \in MacCallers |-> macPc'[d]]
        BY <2>1 DEF WorkerInv, WorkerTypes, CallerGoes
      <4> QED BY <2>3, <3>3, <4>1, <4>2 DEF WorkerTypes
    <3>5. ASSUME crossed = FALSE PROVE (OneMacWorker /\ OneCaller)'
      <4>1. AllEnded
        BY <2>1, <3>5 DEF WorkerInv, CallerGoes
      <4>2. OneMacWorker'
        BY <2>3, <4>1 DEF OneMacWorker, AllEnded, Threads
      <4>3. OneCaller'
        <5>1. OneCaller /\ macPc = [d \in MacCallers |-> macPc[d]]
          BY <2>1, <3>5 DEF WorkerInv, WorkerTypes
        <5> QED BY <2>1, <5>1, OnlyCallerGoes
      <4> QED BY <4>2, <4>3
    <3>6. ASSUME crossed = FALSE, NEW d \in MacCallers PROVE macPc'[d] # "creates"
      <4>1. OneCaller /\ macPc = [e \in MacCallers |-> macPc[e]] /\ macPc[c] = "creates"
        BY <2>1, <3>6 DEF WorkerInv, WorkerTypes, CallerGoes
      <4>2. d # c => macPc[d] = "idle"
        BY <4>1 DEF OneCaller
      <4>3. macPc' = [macPc EXCEPT ![c] = "idle"]
        BY <2>1 DEF CallerGoes
      <4> QED BY <4>1, <4>2, <4>3
    <3>7. crossed' = crossed /\ crossed' \in BOOLEAN
      BY <2>1 DEF WorkerInv
    <3>8. ASSUME crossed' = FALSE
          PROVE  /\ OneMacWorker' /\ OneCaller'
                 /\ \A d \in MacCallers : macPc'[d] = "creates" => AllEnded'
      BY <3>5, <3>6, <3>7, <3>8
    <3> QED BY <3>4, <3>7, <3>8 DEF WorkerInv
  <2>4. \/ UNCHANGED <<workerId, workers>>
        \/ workerId' = w /\ workers' = [t \in Threads \cup {w} |-> IF t = w THEN "starts" ELSE workers[t]]
    BY <1>5 DEF TurnOnAndCreate
  <2> HIDE DEF w
  <2> QED BY <2>2, <2>3, <2>4
<1>6. ASSUME NEW w \in Threads, MacWork(w) PROVE WorkerInv'
  <2>1. PICK from, to : WorkerGoes(w, from, to) /\ from # "ended"
    BY <1>6 DEF MacWork, Starts, Looks, Down, Up, Leaves
  <2>2. UNCHANGED <<workerId, macPc, crossed>> /\ Threads' = Threads
    BY <1>6, <2>1 DEF MacWork, WorkerGoes, Threads
  <2>3. WorkerTypes'
    BY <2>1, <2>2 DEF WorkerGoes, WorkerInv, WorkerTypes, Threads
  <2>4. workers[w] # "ended" /\ \A v \in Threads : v # w => workers'[v] = workers[v]
    BY <2>1 DEF WorkerGoes, WorkerInv, WorkerTypes
  <2>5. crossed = FALSE => (OneMacWorker /\ OneCaller)'
    BY <2>2, <2>4 DEF WorkerInv, OneMacWorker, OneCaller
  <2>6. crossed = FALSE => \A d \in MacCallers : macPc'[d] # "creates"
    BY <2>2, <2>4 DEF WorkerInv, AllEnded
  <2> QED BY <2>2, <2>3, <2>5, <2>6 DEF WorkerInv
<1>7. CASE UNCHANGED macVars
  BY <1>7 DEF macVars, WorkerInv, WorkerTypes, OneMacWorker, OneCaller, AllEnded, Threads
<1> QED BY <1>1, <1>2, <1>3, <1>4, <1>5, <1>6, <1>7 DEF MacNext

(* As long as calls do not overlap and no thread takes a minute to end, no two threads work on  *)
(* the interface, however many calls are made and threads created                               *)
(* (CreateMacAddressStartWorkThread, KillMacAddressStartWorkThread).                            *)
THEOREM OneThreadWorks == MacSpec => []OneMacWorker
<1>1. WorkerInv => OneMacWorker
  BY DEF WorkerInv, OneMacWorker
<1> QED BY <1>1, WorkerInit, WorkerStep, PTL DEF MacSpec

-----------------------------------------------------------------------------
(* The video layer.  What an actor has left to do is the rest of a call of *)
(* CAv's; of one that no other overlapped, the layer is where the call's   *)
(* first steps have left it.                                               *)

Colours == {"black", "blue"}
Doing(w, do, what) == w # <<>> /\ Head(w) = Act(do, what)

Recorded ==
  /\ layer.state = "enable" => layer.on = TRUE
  /\ layer.state \in Colours => layer.colour = layer.state
Fine == Recorded /\ (tv.stopped = TRUE /\ tv.late = FALSE => layer.state # "enable")
FineUnlessDoubt == doubt = FALSE => Fine
Painted == layer.state \in Colours /\ layer.colour = layer.state
MayShow == tv.stopped = FALSE \/ tv.late = TRUE
Left == tv.source = "none" /\ tv.playing = FALSE

(* The rest of StopTv after the layer is off. *)
Cleared(w) == Doing(w, "clear", "off") /\ Tail(w) = <<>>
Given(w) == Doing(w, "state", "none") /\ Cleared(Tail(w))
Stopped(w) == Doing(w, "flags", "stopped") /\ (Given(Tail(w)) \/ Cleared(Tail(w)))
LeavesSource(w) == Doing(w, "flags", "leave") /\ Stopped(Tail(w))

Off(w, of) == Doing(w, "video", "off") /\ IF of = "StopTv" THEN LeavesSource(Tail(w)) ELSE Tail(w) = <<>>
Paints(w, c, of) == Doing(w, "paint", c) /\ Off(Tail(w), of)
Hides(w, c, of) == Doing(w, "state", c) /\ Paints(Tail(w), c, of)
Stops(w) == Doing(w, "flags", "stoping") /\ Hides(Tail(w), "black", "StopTv")

On(w) == Doing(w, "video", "on") /\ Tail(w) = <<>>
PaintsOn(w) == Doing(w, "paint", "black") /\ On(Tail(w))
Shows(w) == Doing(w, "state", "enable") /\ (On(Tail(w)) \/ PaintsOn(Tail(w)))
Tests(w) == Doing(w, "test", "enable") /\ Shows(Tail(w))
Waits(w) == Doing(w, "wait", "frames") /\ Tests(Tail(w))
Clears(w) == Doing(w, "clear", "on") /\ Tail(w) = <<>>
Gives(w) == Doing(w, "state", "none") /\ Tail(w) = <<>>

HideStage(w, alone, of) ==
  \/ \E c \in Colours : Hides(w, c, of)
  \/ \E c \in Colours : Paints(w, c, of) /\ (alone = TRUE => layer.state = c)
  \/ Off(w, of) /\ (alone = TRUE => Painted)
ShowStage(w, alone) ==
  \/ (Waits(w) \/ Tests(w)) /\ (alone = TRUE => MayShow /\ FineUnlessDoubt)
  \/ Shows(w) /\ (alone = TRUE => MayShow)
  \/ (On(w) \/ PaintsOn(w)) /\ (alone = TRUE => MayShow /\ layer.state = "enable")
OtherStage(w, alone) == Gives(w) \/ (Clears(w) /\ (alone = TRUE => FineUnlessDoubt))
StopStage(w, alone) ==
  \/ Stops(w)
  \/ HideStage(w, alone, "StopTv")
  \/ LeavesSource(w) /\ (alone = TRUE => Painted)
  \/ Stopped(w) /\ Left /\ (alone = TRUE => Painted)
  \/ Given(w)
  \/ Cleared(w) /\ (alone = TRUE => Painted \/ layer.state = "none")
Stage(t, w, alone) ==
  HideStage(w, alone, "call") \/ ShowStage(w, alone) \/ OtherStage(w, alone) \/ (t = "client" /\ StopStage(w, alone))

LayerTypes ==
  /\ layer = [state |-> layer.state, on |-> layer.on, colour |-> layer.colour]
  /\ tv = [source |-> tv.source, playing |-> tv.playing, stoping |-> tv.stoping, stopped |-> tv.stopped,
           late |-> tv.late, snow |-> tv.snow, blackout |-> tv.blackout, colour |-> tv.colour]
  /\ tv.playing \in BOOLEAN /\ tv.stopped \in BOOLEAN /\ tv.late \in BOOLEAN /\ tv.colour \in Colours
  /\ work = [t \in Actors |-> work[t]]
  /\ solo \in [Actors -> BOOLEAN]
  /\ doubt \in BOOLEAN
StoppedLeft == tv.stopped = TRUE => Left
Alone == \A t \in Actors : work[t] # <<>> /\ solo[t] = TRUE => \A u \in Actors \ {t} : work[u] = <<>>
AloneUnlessDoubt == doubt = FALSE => \A t \in Actors : work[t] # <<>> => solo[t] = TRUE
LayerInv ==
  /\ LayerTypes /\ StoppedLeft /\ Alone /\ AloneUnlessDoubt
  /\ work["client"] = <<>> \/ work["poll"] = <<>>
  /\ \A t \in Actors : work[t] = <<>> \/ Stage(t, work[t], solo[t])
  /\ NobodyAtWork => FineUnlessDoubt

LEMMA LayerInitInv == VideoInit => LayerInv
<1> SUFFICES ASSUME VideoInit PROVE LayerInv
  OBVIOUS
<1>1. PICK set \in VideoSettings :
        tv = [source |-> "none", playing |-> FALSE, stoping |-> FALSE, stopped |-> TRUE, late |-> FALSE,
              snow |-> set.snow, blackout |-> set.blackout, colour |-> set.colour]
  BY DEF VideoInit
<1>2. LayerTypes
  BY <1>1, VideoLayerAssumption DEF VideoLayerAssumption, VideoInit, LayerTypes, Colours
<1>3. Fine /\ StoppedLeft
  BY <1>1 DEF VideoInit, Fine, Recorded, Colours, StoppedLeft, Left
<1> QED BY <1>2, <1>3 DEF VideoInit, LayerInv, Alone, AloneUnlessDoubt, FineUnlessDoubt, Actors

(* The steps of a call. *)
Goes(t, w) == work' = [work EXCEPT ![t] = w]

LEMMA StateStep ==
  ASSUME NEW t \in Actors, LayerStep(t), NEW what, Doing(work[t], "state", what)
  PROVE  /\ layer' = [layer EXCEPT !.state = what] /\ Goes(t, Tail(work[t])) /\ tv' = tv
         /\ what = "none" => doubt' = (doubt /\ ~solo[t])
         /\ what # "none" => doubt' = doubt
BY DEF LayerStep, Doing, Act, Goes, RightAgain

LEMMA PaintStep ==
  ASSUME NEW t \in Actors, LayerStep(t), NEW what, Doing(work[t], "paint", what)
  PROVE  layer' = [layer EXCEPT !.colour = what] /\ Goes(t, Tail(work[t])) /\ tv' = tv /\ doubt' = doubt
BY DEF LayerStep, Doing, Act, Goes

LEMMA VideoStep ==
  ASSUME NEW t \in Actors, LayerStep(t), NEW what, Doing(work[t], "video", what)
  PROVE  /\ Goes(t, Tail(work[t])) /\ tv' = tv
         /\ \/ layer' = [layer EXCEPT !.on = (what = "on")] /\ doubt' = (doubt /\ ~solo[t])
            \/ layer' = layer /\ doubt' = TRUE
BY DEF LayerStep, Doing, Act, Goes, RightAgain

LEMMA ClearStep ==
  ASSUME NEW t \in Actors, LayerStep(t), NEW what, Doing(work[t], "clear", what)
  PROVE  layer' = [layer EXCEPT !.on = (what = "on")] /\ Goes(t, Tail(work[t])) /\ tv' = tv /\ doubt' = doubt
BY DEF LayerStep, Doing, Act, Goes

LEMMA TestStep ==
  ASSUME NEW t \in Actors, LayerStep(t), NEW what, Doing(work[t], "test", what)
  PROVE  layer' = layer /\ (Goes(t, Tail(work[t])) \/ Goes(t, <<>>)) /\ tv' = tv /\ doubt' = doubt
BY DEF LayerStep, Doing, Act, Goes

LEMMA WaitStep ==
  ASSUME NEW t \in Actors, LayerStep(t), NEW what, Doing(work[t], "wait", what)
  PROVE  layer' = layer /\ (Goes(t, Tail(work[t])) \/ Goes(t, <<>>)) /\ tv' = tv /\ doubt' = doubt
BY DEF LayerStep, Doing, Act, Goes

LEMMA FlagsStep ==
  ASSUME NEW t \in Actors, LayerStep(t), NEW what \in {"stoping", "leave", "stopped"}, Doing(work[t], "flags", what)
  PROVE  /\ layer' = layer /\ Goes(t, Tail(work[t])) /\ doubt' = doubt
         /\ tv' = CASE what = "stoping" -> [tv EXCEPT !.stoping = TRUE]
                    [] what = "leave" -> [tv EXCEPT !.source = "none", !.playing = FALSE]
                    [] what = "stopped" -> [tv EXCEPT !.stoping = FALSE, !.stopped = TRUE, !.late = FALSE]
BY DEF LayerStep, Doing, Act, Goes

(* A call that another overlapped goes on whatever the layer is. *)
LEMMA NotAlone ==
  ASSUME NEW u \in Actors, NEW x, NEW b, b # TRUE, Stage(u, x, b), u # "client" \/ tv' = tv
  PROVE  Stage(u, x, b)'
<1>1. HideStage(x, b, "call") => HideStage(x, b, "call")'
  BY DEF HideStage
<1>2. ShowStage(x, b) => ShowStage(x, b)'
  BY DEF ShowStage
<1>3. OtherStage(x, b) => OtherStage(x, b)'
  BY DEF OtherStage
<1>4. u = "client" /\ StopStage(x, b) => StopStage(x, b)'
  <2>1. HideStage(x, b, "StopTv") => HideStage(x, b, "StopTv")'
    BY DEF HideStage
  <2> QED BY <2>1 DEF StopStage, Left
<1> QED BY <1>1, <1>2, <1>3, <1>4 DEF Stage

LEMMA StepKeeps ==
  ASSUME LayerInv, NEW t \in Actors, NEW w, Goes(t, w), UNCHANGED solo, work[t] # <<>>,
         t # "client" => tv' = tv,
         doubt' \in BOOLEAN, doubt' = FALSE => doubt = FALSE \/ solo[t] = TRUE,
         LayerTypes', StoppedLeft',
         w = <<>> \/ Stage(t, w, solo[t])',
         w = <<>> /\ solo[t] = TRUE => FineUnlessDoubt'
  PROVE  LayerInv'
<1>1. work'[t] = w /\ \A u \in Actors \ {t} : work'[u] = work[u]
  BY DEF Goes, LayerInv, LayerTypes
<1>2. Alone'
  BY <1>1 DEF Alone, LayerInv
<1>3. solo[t] = TRUE => \A u \in Actors \ {t} : work[u] = <<>>
  BY DEF Alone, LayerInv
<1>4. AloneUnlessDoubt'
  <2>1. ASSUME doubt' = FALSE, NEW u \in Actors, work'[u] # <<>> PROVE solo[u] = TRUE
    <3>1. CASE doubt = FALSE
      BY <1>1, <2>1, <3>1 DEF AloneUnlessDoubt, LayerInv
    <3>2. CASE solo[t] = TRUE
      BY <1>1, <1>3, <2>1, <3>2
    <3> QED BY <2>1, <3>1, <3>2
  <2> QED BY <2>1 DEF AloneUnlessDoubt
<1>5. (work["client"] = <<>> \/ work["poll"] = <<>>)'
  BY <1>1 DEF LayerInv, Actors
<1>6. ASSUME NEW u \in Actors PROVE work'[u] = <<>> \/ Stage(u, work[u], solo[u])'
  <2>1. CASE u = t
    BY <1>1, <2>1 DEF Goes
  <2>2. CASE u # t /\ work[u] # <<>>
    <3>1. solo[u] = FALSE
      BY <2>2 DEF LayerInv, Alone, LayerTypes
    <3>2. PICK x, b : x = work[u] /\ b = solo[u]
      OBVIOUS
    <3>3. Stage(u, x, b)
      BY <2>2, <3>2 DEF LayerInv
    <3>4. b # TRUE
      BY <3>1, <3>2
    <3>5. u # "client" \/ tv' = tv
      BY <2>2
    <3>6. Stage(u, x, b)'
      BY <3>3, <3>4, <3>5, NotAlone
    <3>7. work'[u] = x /\ solo'[u] = b
      BY <1>1, <2>2, <3>2
    <3> QED BY <3>6, <3>7
  <2> QED BY <1>1, <2>1, <2>2
<1>7. NobodyAtWork' => FineUnlessDoubt'
  <2> SUFFICES ASSUME NobodyAtWork', doubt' = FALSE PROVE Fine'
    BY DEF FineUnlessDoubt
  <2>1. w = <<>>
    BY <1>1 DEF NobodyAtWork
  <2>2. solo[t] = TRUE
    BY DEF AloneUnlessDoubt, LayerInv
  <2> QED BY <2>1, <2>2 DEF FineUnlessDoubt
<1> QED BY <1>2, <1>4, <1>5, <1>6, <1>7 DEF LayerInv

LEMMA TypesGo ==
  ASSUME LayerInv, NEW t \in Actors, NEW w, Goes(t, w), UNCHANGED solo, doubt' \in BOOLEAN, tv' = tv,
         layer' = [state |-> layer'.state, on |-> layer'.on, colour |-> layer'.colour]
  PROVE  LayerTypes' /\ StoppedLeft'
BY DEF LayerInv, LayerTypes, Goes, StoppedLeft, Left

LEMMA GoesOn ==
  ASSUME LayerInv, NEW t \in Actors, LayerStep(t), NEW b, b = solo[t], NEW w, Goes(t, w), tv' = tv,
         doubt' \in BOOLEAN, doubt' = FALSE => doubt = FALSE \/ b = TRUE,
         layer' = [state |-> layer'.state, on |-> layer'.on, colour |-> layer'.colour],
         w = <<>> \/ Stage(t, w, b)',
         w = <<>> /\ b = TRUE => FineUnlessDoubt'
  PROVE  LayerInv'
<1>1. UNCHANGED solo /\ work[t] # <<>>
  BY DEF LayerStep
<1>2. LayerTypes' /\ StoppedLeft'
  BY <1>1, TypesGo
<1>3. w = <<>> \/ Stage(t, w, solo[t])'
  BY <1>1
<1>4. w = <<>> /\ solo[t] = TRUE => FineUnlessDoubt'
  OBVIOUS
<1> QED BY <1>1, <1>2, <1>3, <1>4, StepKeeps

LEMMA StageOfHide ==
  ASSUME NEW t, NEW w, NEW b, NEW of, (of = "call") \/ (of = "StopTv" /\ t = "client"), HideStage(w, b, of)'
  PROVE  Stage(t, w, b)'
BY DEF Stage, StopStage

(* The layer is being hidden. *)
LEMMA HideGoes ==
  ASSUME LayerInv, NEW t \in Actors, LayerStep(t), NEW of, (of = "call") \/ (of = "StopTv" /\ t = "client"),
         NEW w, w = work[t], NEW b, b = solo[t], HideStage(w, b, of)
  PROVE  LayerInv'
<1>1. /\ layer = [state |-> layer.state, on |-> layer.on, colour |-> layer.colour]
      /\ b \in BOOLEAN /\ doubt \in BOOLEAN
  BY DEF LayerInv, LayerTypes
<1>2. ASSUME NEW c \in Colours, Hides(w, c, of) PROVE LayerInv'
  <2>1. Doing(w, "state", c) /\ Paints(Tail(w), c, of) /\ c # "none"
    BY <1>2 DEF Hides, Colours
  <2>2. layer' = [layer EXCEPT !.state = c] /\ Goes(t, Tail(w)) /\ tv' = tv /\ doubt' = doubt
    BY <2>1, StateStep
  <2>3. layer' = [state |-> layer'.state, on |-> layer'.on, colour |-> layer'.colour] /\ layer'.state = c
    BY <1>1, <2>2
  <2>4. HideStage(Tail(w), b, of)'
    BY <2>1, <2>3 DEF HideStage
  <2>5. Stage(t, Tail(w), b)' /\ Tail(w) # <<>>
    BY <2>1, <2>4, StageOfHide DEF Paints, Doing
  <2> QED BY <1>1, <2>2, <2>3, <2>5, GoesOn
<1>3. ASSUME NEW c \in Colours, Paints(w, c, of), b = TRUE => layer.state = c PROVE LayerInv'
  <2>1. Doing(w, "paint", c) /\ Off(Tail(w), of)
    BY <1>3 DEF Paints
  <2>2. layer' = [layer EXCEPT !.colour = c] /\ Goes(t, Tail(w)) /\ tv' = tv /\ doubt' = doubt
    BY <2>1, PaintStep
  <2>3. layer' = [state |-> layer'.state, on |-> layer'.on, colour |-> layer'.colour] /\ layer'.colour = c
        /\ layer'.state = layer.state
    BY <1>1, <2>2
  <2>4. HideStage(Tail(w), b, of)'
    BY <1>3, <2>1, <2>3 DEF HideStage, Painted
  <2>5. Stage(t, Tail(w), b)' /\ Tail(w) # <<>>
    BY <2>1, <2>4, StageOfHide DEF Off, Doing
  <2> QED BY <1>1, <2>2, <2>3, <2>5, GoesOn
<1>4. ASSUME Off(w, of), b = TRUE => Painted PROVE LayerInv'
  <2>1. Doing(w, "video", "off") /\ (of = "call" => Tail(w) = <<>>) /\ (of = "StopTv" => LeavesSource(Tail(w)))
    BY <1>4 DEF Off
  <2>2. /\ Goes(t, Tail(w)) /\ tv' = tv
        /\ \/ layer' = [layer EXCEPT !.on = ("off" = "on")] /\ doubt' = (doubt /\ ~b)
           \/ layer' = layer /\ doubt' = TRUE
    BY <2>1, VideoStep
  <2>3. doubt' \in BOOLEAN /\ (doubt' = FALSE => doubt = FALSE \/ b = TRUE)
    BY <1>1, <2>2
  <2>4. layer' = [state |-> layer'.state, on |-> layer'.on, colour |-> layer'.colour] /\ layer'.colour = layer.colour
        /\ layer'.state = layer.state
    BY <1>1, <2>2
  <2>5. b = TRUE => Painted'
    BY <1>4, <2>4 DEF Painted
  <2>6. Painted' => FineUnlessDoubt'
    BY DEF Painted, FineUnlessDoubt, Fine, Recorded, Colours
  <2>7. of = "StopTv" => Stage(t, Tail(w), b)'
    BY <2>1, <2>5 DEF Stage, StopStage
  <2>8. Tail(w) = <<>> \/ Stage(t, Tail(w), b)'
    BY <2>1, <2>7
  <2>9. b = TRUE => FineUnlessDoubt'
    BY <2>5, <2>6
  <2> QED BY <2>2, <2>3, <2>4, <2>8, <2>9, GoesOn
<1> QED BY <1>2, <1>3, <1>4 DEF HideStage

(* The layer is being shown, given up or enabled: what the steps leave. *)
LEMMA SameLayer ==
  ASSUME LayerInv, NEW t \in Actors, layer' = layer, tv' = tv, doubt' = doubt
  PROVE  /\ layer' = [state |-> layer'.state, on |-> layer'.on, colour |-> layer'.colour]
         /\ doubt' \in BOOLEAN /\ (FineUnlessDoubt => FineUnlessDoubt') /\ (MayShow => MayShow')
BY DEF LayerInv, LayerTypes, FineUnlessDoubt, Fine, Recorded, MayShow

LEMMA ShowGoes ==
  ASSUME LayerInv, NEW t \in Actors, LayerStep(t), NEW w, w = work[t], NEW b, b = solo[t], ShowStage(w, b)
  PROVE  LayerInv'
<1>1. /\ layer = [state |-> layer.state, on |-> layer.on, colour |-> layer.colour]
      /\ b \in BOOLEAN /\ doubt \in BOOLEAN /\ tv.stopped \in BOOLEAN /\ tv.late \in BOOLEAN
  BY DEF LayerInv, LayerTypes
<1>2. ASSUME Waits(w) \/ Tests(w), b = TRUE => MayShow /\ FineUnlessDoubt PROVE LayerInv'
  <2>1. layer' = layer /\ (Goes(t, Tail(w)) \/ Goes(t, <<>>)) /\ tv' = tv /\ doubt' = doubt
    BY <1>2, WaitStep, TestStep DEF Waits, Tests
  <2>2. /\ layer' = [state |-> layer'.state, on |-> layer'.on, colour |-> layer'.colour]
        /\ doubt' \in BOOLEAN /\ (FineUnlessDoubt => FineUnlessDoubt') /\ (MayShow => MayShow')
    BY <2>1, SameLayer
  <2>3. ShowStage(Tail(w), b)' /\ Tail(w) # <<>>
    BY <1>2, <2>2 DEF ShowStage, Waits, Tests, Shows, Doing
  <2>4. Stage(t, Tail(w), b)'
    BY <2>3 DEF Stage
  <2>5. CASE Goes(t, Tail(w))
    BY <2>1, <2>2, <2>3, <2>4, <2>5, GoesOn
  <2>6. CASE Goes(t, <<>>)
    <3>1. PICK v : v = <<>>
      OBVIOUS
    <3>2. Goes(t, v)
      BY <2>6, <3>1
    <3>3. (doubt' = FALSE => doubt = FALSE \/ b = TRUE) /\ (b = TRUE => FineUnlessDoubt')
      BY <1>2, <2>1, <2>2
    <3>4. v = <<>> \/ Stage(t, v, b)'
      BY <3>1
    <3> QED BY <2>1, <2>2, <3>1, <3>2, <3>3, <3>4, GoesOn
  <2> QED BY <2>1, <2>5, <2>6
<1>3. ASSUME Shows(w), b = TRUE => MayShow PROVE LayerInv'
  <2>1. Doing(w, "state", "enable") /\ (On(Tail(w)) \/ PaintsOn(Tail(w)))
    BY <1>3 DEF Shows
  <2>2. layer' = [layer EXCEPT !.state = "enable"] /\ Goes(t, Tail(w)) /\ tv' = tv /\ doubt' = doubt
    BY <2>1, StateStep
  <2>3. layer' = [state |-> layer'.state, on |-> layer'.on, colour |-> layer'.colour] /\ layer'.state = "enable"
    BY <1>1, <2>2
  <2>4. ShowStage(Tail(w), b)' /\ Tail(w) # <<>>
    BY <1>3, <2>1, <2>2, <2>3 DEF ShowStage, On, PaintsOn, Doing, MayShow
  <2>5. Stage(t, Tail(w), b)'
    BY <2>4 DEF Stage
  <2> QED BY <1>1, <2>2, <2>3, <2>4, <2>5, GoesOn
<1>4. ASSUME PaintsOn(w), b = TRUE => MayShow /\ layer.state = "enable" PROVE LayerInv'
  <2>1. Doing(w, "paint", "black") /\ On(Tail(w))
    BY <1>4 DEF PaintsOn
  <2>2. layer' = [layer EXCEPT !.colour = "black"] /\ Goes(t, Tail(w)) /\ tv' = tv /\ doubt' = doubt
    BY <2>1, PaintStep
  <2>3. layer' = [state |-> layer'.state, on |-> layer'.on, colour |-> layer'.colour] /\ layer'.state = layer.state
    BY <1>1, <2>2
  <2>4. ShowStage(Tail(w), b)' /\ Tail(w) # <<>>
    BY <1>4, <2>1, <2>2, <2>3 DEF ShowStage, On, Doing, MayShow
  <2>5. Stage(t, Tail(w), b)'
    BY <2>4 DEF Stage
  <2> QED BY <1>1, <2>2, <2>3, <2>4, <2>5, GoesOn
<1>5. ASSUME On(w), b = TRUE => MayShow /\ layer.state = "enable" PROVE LayerInv'
  <2>1. Doing(w, "video", "on") /\ Tail(w) = <<>>
    BY <1>5 DEF On
  <2>2. /\ Goes(t, Tail(w)) /\ tv' = tv
        /\ \/ layer' = [layer EXCEPT !.on = ("on" = "on")] /\ doubt' = (doubt /\ ~b)
           \/ layer' = layer /\ doubt' = TRUE
    BY <2>1, VideoStep
  <2>3. doubt' \in BOOLEAN /\ (doubt' = FALSE => doubt = FALSE \/ b = TRUE)
    BY <1>1, <2>2
  <2>4. layer' = [state |-> layer'.state, on |-> layer'.on, colour |-> layer'.colour] /\ layer'.state = layer.state
    BY <1>1, <2>2
  <2>5. doubt' = FALSE => layer'.on = TRUE
    BY <1>1, <2>2
  <2>6. b = TRUE => FineUnlessDoubt'
    BY <1>1, <1>5, <2>2, <2>4, <2>5 DEF FineUnlessDoubt, Fine, Recorded, Colours, MayShow
  <2> QED BY <2>1, <2>2, <2>3, <2>4, <2>6, GoesOn
<1> QED BY <1>2, <1>3, <1>4, <1>5 DEF ShowStage

LEMMA OtherGoes ==
  ASSUME LayerInv, NEW t \in Actors, LayerStep(t), NEW w, w = work[t], NEW b, b = solo[t], OtherStage(w, b)
  PROVE  LayerInv'
<1>1. /\ layer = [state |-> layer.state, on |-> layer.on, colour |-> layer.colour]
      /\ b \in BOOLEAN /\ doubt \in BOOLEAN
  BY DEF LayerInv, LayerTypes
<1>2. ASSUME Gives(w) PROVE LayerInv'
  <2>1. Doing(w, "state", "none") /\ Tail(w) = <<>>
    BY <1>2 DEF Gives
  <2>2. layer' = [layer EXCEPT !.state = "none"] /\ Goes(t, Tail(w)) /\ tv' = tv /\ doubt' = (doubt /\ ~b)
    BY <2>1, StateStep
  <2>3. layer' = [state |-> layer'.state, on |-> layer'.on, colour |-> layer'.colour] /\ layer'.state = "none"
    BY <1>1, <2>2
  <2>4. doubt' \in BOOLEAN /\ (doubt' = FALSE => doubt = FALSE \/ b = TRUE)
    BY <1>1, <2>2
  <2>5. FineUnlessDoubt'
    BY <2>3 DEF FineUnlessDoubt, Fine, Recorded, Colours
  <2> QED BY <2>1, <2>2, <2>3, <2>4, <2>5, GoesOn
<1>3. ASSUME Clears(w), b = TRUE => FineUnlessDoubt PROVE LayerInv'
  <2>1. Doing(w, "clear", "on") /\ Tail(w) = <<>>
    BY <1>3 DEF Clears
  <2>2. layer' = [layer EXCEPT !.on = ("on" = "on")] /\ Goes(t, Tail(w)) /\ tv' = tv /\ doubt' = doubt
    BY <2>1, ClearStep
  <2>3. layer' = [state |-> layer'.state, on |-> layer'.on, colour |-> layer'.colour] /\ layer'.state = layer.state
        /\ layer'.colour = layer.colour /\ layer'.on = TRUE
    BY <1>1, <2>2
  <2>4. b = TRUE => FineUnlessDoubt'
    BY <1>3, <2>2, <2>3 DEF FineUnlessDoubt, Fine, Recorded
  <2> QED BY <1>1, <2>1, <2>2, <2>3, <2>4, GoesOn
<1> QED BY <1>2, <1>3 DEF OtherStage

(* StopTv, which is a client's. *)
LEMMA StopFlags ==
  ASSUME LayerInv, NEW w, w = work["client"], NEW b, b = solo["client"], LayerStep("client"),
         NEW what \in {"stoping", "leave", "stopped"}, Doing(w, "flags", what),
         what = "stopped" => Left, Tail(w) # <<>>, what = "stoping" \/ (b = TRUE => Painted),
         what = "stoping" => HideStage(Tail(w), b, "StopTv")',
         what = "leave" => Stopped(Tail(w)),
         what = "stopped" => Given(Tail(w)) \/ Cleared(Tail(w))
  PROVE  LayerInv'
<1>1. "client" \in Actors
  BY DEF Actors
<1>2. /\ layer' = layer /\ Goes("client", Tail(w)) /\ doubt' = doubt
      /\ tv' = CASE what = "stoping" -> [tv EXCEPT !.stoping = TRUE]
                 [] what = "leave" -> [tv EXCEPT !.source = "none", !.playing = FALSE]
                 [] what = "stopped" -> [tv EXCEPT !.stoping = FALSE, !.stopped = TRUE, !.late = FALSE]
  BY <1>1, FlagsStep
<1>3. UNCHANGED solo /\ work["client"] # <<>>
  BY DEF LayerStep
<1>4. tv = [source |-> tv.source, playing |-> tv.playing, stoping |-> tv.stoping, stopped |-> tv.stopped,
            late |-> tv.late, snow |-> tv.snow, blackout |-> tv.blackout, colour |-> tv.colour]
      /\ tv.playing \in BOOLEAN /\ tv.stopped \in BOOLEAN /\ tv.late \in BOOLEAN /\ tv.colour \in Colours
  BY DEF LayerInv, LayerTypes
<1>5. /\ tv' = [source |-> tv'.source, playing |-> tv'.playing, stoping |-> tv'.stoping, stopped |-> tv'.stopped,
                late |-> tv'.late, snow |-> tv'.snow, blackout |-> tv'.blackout, colour |-> tv'.colour]
      /\ tv'.colour = tv.colour
      /\ tv'.playing = FALSE \/ tv'.playing = tv.playing
      /\ tv'.stopped = TRUE \/ tv'.stopped = tv.stopped
      /\ tv'.late = FALSE \/ tv'.late = tv.late
  BY <1>2, <1>4
<1>6. (what \in {"leave", "stopped"} \/ tv'.stopped = tv.stopped) /\ (what = "leave" => Left')
      /\ (what # "leave" => (Left => Left'))
  BY <1>2, <1>4 DEF Left
<1>7. LayerTypes'
  BY <1>2, <1>3, <1>4, <1>5 DEF LayerInv, LayerTypes, Goes
<1>8. StoppedLeft'
  BY <1>5, <1>6 DEF StoppedLeft, LayerInv
<1>9. StopStage(Tail(w), b)'
  <2>1. Painted => Painted'
    BY <1>2 DEF Painted
  <2> QED BY <1>6, <2>1 DEF StopStage
<1>10. Stage("client", Tail(w), solo["client"])'
  BY <1>3, <1>9 DEF Stage
<1> DEFINE v == Tail(w)
<1>11. v # <<>> /\ Goes("client", v) /\ Stage("client", v, solo["client"])' /\ doubt' \in BOOLEAN
  BY <1>2, <1>10 DEF LayerInv, LayerTypes
<1> HIDE DEF v
<1> QED BY <1>1, <1>2, <1>3, <1>7, <1>8, <1>11, StepKeeps

LEMMA StopGoesOn ==
  ASSUME LayerInv, NEW w, w = work["client"], NEW b, b = solo["client"], LayerStep("client"), StopStage(w, b)
  PROVE  LayerInv'
<1>0. "client" \in Actors
  BY DEF Actors
<1>1. /\ layer = [state |-> layer.state, on |-> layer.on, colour |-> layer.colour]
      /\ b \in BOOLEAN /\ doubt \in BOOLEAN
  BY <1>0 DEF LayerInv, LayerTypes
<1>2. ASSUME Stops(w) PROVE LayerInv'
  <2>1. Doing(w, "flags", "stoping") /\ HideStage(Tail(w), b, "StopTv")' /\ Tail(w) # <<>>
    BY <1>2 DEF Stops, HideStage, Colours, Hides, Doing
  <2> QED BY <2>1, StopFlags
<1>3. ASSUME HideStage(w, b, "StopTv") PROVE LayerInv'
  BY <1>0, <1>3, HideGoes
<1>4. ASSUME LeavesSource(w), b = TRUE => Painted PROVE LayerInv'
  <2>1. Doing(w, "flags", "leave") /\ Stopped(Tail(w)) /\ Tail(w) # <<>>
    BY <1>4 DEF LeavesSource, Stopped, Doing
  <2> QED BY <1>4, <2>1, StopFlags
<1>5. ASSUME Stopped(w), Left, b = TRUE => Painted PROVE LayerInv'
  <2>1. Doing(w, "flags", "stopped") /\ (Given(Tail(w)) \/ Cleared(Tail(w))) /\ Tail(w) # <<>>
    BY <1>5 DEF Stopped, Given, Cleared, Doing
  <2> QED BY <1>5, <2>1, StopFlags
<1>6. ASSUME Given(w) PROVE LayerInv'
  <2>1. Doing(w, "state", "none") /\ Cleared(Tail(w)) /\ Tail(w) # <<>>
    BY <1>6 DEF Given, Cleared, Doing
  <2>2. layer' = [layer EXCEPT !.state = "none"] /\ Goes("client", Tail(w)) /\ tv' = tv /\ doubt' = (doubt /\ ~b)
    BY <1>0, <2>1, StateStep
  <2>3. layer' = [state |-> layer'.state, on |-> layer'.on, colour |-> layer'.colour] /\ layer'.state = "none"
    BY <1>1, <2>2
  <2>4. doubt' \in BOOLEAN /\ (doubt' = FALSE => doubt = FALSE \/ b = TRUE)
    BY <1>1, <2>2
  <2>5. Stage("client", Tail(w), b)'
    BY <2>1, <2>3 DEF Stage, StopStage
  <2> QED BY <1>0, <2>1, <2>2, <2>3, <2>4, <2>5, GoesOn
<1>7. ASSUME Cleared(w), b = TRUE => Painted \/ layer.state = "none" PROVE LayerInv'
  <2>1. Doing(w, "clear", "off") /\ Tail(w) = <<>>
    BY <1>7 DEF Cleared
  <2>2. layer' = [layer EXCEPT !.on = ("off" = "on")] /\ Goes("client", Tail(w)) /\ tv' = tv /\ doubt' = doubt
    BY <1>0, <2>1, ClearStep
  <2>3. layer' = [state |-> layer'.state, on |-> layer'.on, colour |-> layer'.colour] /\ layer'.state = layer.state
        /\ layer'.colour = layer.colour
    BY <1>1, <2>2
  <2>4. b = TRUE => FineUnlessDoubt'
    BY <1>7, <2>3 DEF FineUnlessDoubt, Fine, Recorded, Painted, Colours
  <2> QED BY <1>0, <1>1, <2>1, <2>2, <2>3, <2>4, GoesOn
<1> QED BY <1>2, <1>3, <1>4, <1>5, <1>6, <1>7 DEF StopStage

LEMMA LayerStepInv == ASSUME LayerInv, NEW t \in Actors, LayerStep(t) PROVE LayerInv'
<1>1. PICK w, b : w = work[t] /\ b = solo[t]
  OBVIOUS
<1>2. Stage(t, w, b)
  BY <1>1 DEF LayerInv, LayerStep
<1>3. CASE HideStage(w, b, "call")
  BY <1>1, <1>3, HideGoes
<1>4. CASE ShowStage(w, b)
  BY <1>1, <1>4, ShowGoes
<1>5. CASE OtherStage(w, b)
  BY <1>1, <1>5, OtherGoes
<1>6. CASE t = "client" /\ StopStage(w, b)
  BY <1>1, <1>6, StopGoesOn
<1> QED BY <1>2, <1>3, <1>4, <1>5, <1>6 DEF Stage

LEMMA SameElements ==
  ASSUME NEW S, NEW s \in Seq(S), NEW t \in Seq(S), Len(s) = Len(t), \A i \in 1 .. Len(s) : s[i] = t[i]
  PROVE  s = t
OBVIOUS
LEMMA HeadTailConcat ==
  ASSUME NEW S, NEW s \in Seq(S), NEW t \in Seq(S), s # <<>>
  PROVE  s \o t # <<>> /\ Head(s \o t) = Head(s) /\ Tail(s \o t) = Tail(s) \o t
<1> DEFINE c == s \o t
           r == Tail(s) \o t
<1>1. c \in Seq(S) /\ Len(c) = Len(s) + Len(t)
      /\ \A i \in 1 .. Len(s) + Len(t) : c[i] = IF i <= Len(s) THEN s[i] ELSE t[i - Len(s)]
  BY ConcatProperties
<1>2. Len(s) \in Nat /\ Len(s) > 0 /\ Len(t) \in Nat
  OBVIOUS
<1>3. Tail(s) \in Seq(S) /\ Len(Tail(s)) = Len(s) - 1 /\ \A i \in 1 .. Len(Tail(s)) : Tail(s)[i] = s[i + 1]
  BY HeadTailProperties
<1>4. r \in Seq(S) /\ Len(r) = Len(Tail(s)) + Len(t)
      /\ \A i \in 1 .. Len(Tail(s)) + Len(t) : r[i] = IF i <= Len(Tail(s)) THEN Tail(s)[i] ELSE t[i - Len(Tail(s))]
  BY <1>3, ConcatProperties
<1> HIDE DEF c, r
<1>5. c # <<>> /\ Head(c) = c[1] /\ c[1] = s[1]
  BY <1>1, <1>2
<1>6. Tail(c) \in Seq(S) /\ Len(Tail(c)) = Len(c) - 1 /\ \A i \in 1 .. Len(Tail(c)) : Tail(c)[i] = c[i + 1]
  BY <1>1, <1>5, HeadTailProperties
<1>7. Len(Tail(c)) = Len(r)
  BY <1>1, <1>2, <1>3, <1>4, <1>6
<1>8. ASSUME NEW i \in 1 .. Len(r) PROVE Tail(c)[i] = r[i]
  <2>1. Tail(c)[i] = c[i + 1] /\ i + 1 \in 1 .. Len(s) + Len(t)
    BY <1>1, <1>2, <1>6, <1>7
  <2>2. CASE i <= Len(s) - 1
    BY <1>1, <1>2, <1>3, <1>4, <2>1, <2>2
  <2>3. CASE ~(i <= Len(s) - 1)
    <3>1. i + 1 - Len(s) = i - Len(Tail(s))
      BY <1>2, <1>3
    <3>2. c[i + 1] = t[i + 1 - Len(s)]
      BY <1>1, <1>2, <2>1, <2>3
    <3>3. r[i] = t[i - Len(Tail(s))]
      BY <1>2, <1>3, <1>4, <2>3
    <3> QED BY <2>1, <3>1, <3>2, <3>3
  <2> QED BY <2>2, <2>3
<1>9. Tail(c) = r
  BY <1>4, <1>6, <1>7, <1>8, SameElements
<1> QED BY <1>5, <1>9 DEF c, r

LEMMA TailConcat ==
  ASSUME NEW S, NEW s \in Seq(S), NEW t \in Seq(S), s # <<>>
  PROVE  Tail(s) = <<>> => s \o t # <<>> /\ Head(s \o t) = Head(s) /\ Tail(s \o t) = t
<1>1. s \o t # <<>> /\ Head(s \o t) = Head(s) /\ Tail(s \o t) = Tail(s) \o t
  BY HeadTailConcat
<1>2. <<>> \o t = t
  BY ConcatEmptySeq
<1> QED BY <1>1, <1>2

(* A call begins: what it has left to do is the whole of it. *)
LEMMA HideWhole ==
  ASSUME NEW c \in Colours
  PROVE  DisableVideoWith(c) # <<>> /\ Hides(DisableVideoWith(c), c, "call")
<1>1. DisableVideoWith(c) = <<Act("state", c), Act("paint", c), Act("video", "off")>>
  BY DEF DisableVideoWith
<1> QED BY <1>1 DEF Hides, Paints, Off, Doing

LEMMA ShowWhole ==
  /\ EnableVideoNow(TRUE) # <<>> /\ Tests(EnableVideoNow(TRUE))
  /\ EnableVideoNow(FALSE) # <<>> /\ Tests(EnableVideoNow(FALSE))
  /\ EnableVideoWhenVideoPlaying # <<>> /\ Waits(EnableVideoWhenVideoPlaying)
<1> DEFINE S == {Act("wait", "frames"), Act("test", "enable"), Act("state", "enable"), Act("paint", "black"),
                 Act("video", "on")}
           a == <<Act("test", "enable"), Act("state", "enable")>>
           p == <<Act("paint", "black")>>
           v == <<Act("video", "on")>>
           w == <<Act("wait", "frames")>>
<1>1. EnableVideoNow(TRUE) = a \o p \o v /\ EnableVideoNow(FALSE) = a \o <<>> \o v
      /\ EnableVideoWhenVideoPlaying = w \o EnableVideoNow(TRUE)
  BY DEF EnableVideoNow, EnableVideoWhenVideoPlaying
<1>2. a \in Seq(S) /\ p \in Seq(S) /\ v \in Seq(S) /\ w \in Seq(S) /\ Tail(a) \in Seq(S)
  OBVIOUS
<1>3. a # <<>> /\ Tail(a) # <<>> /\ p # <<>> /\ v # <<>> /\ w # <<>> /\ Tail(Tail(a)) = <<>>
      /\ Tail(p) = <<>> /\ Tail(v) = <<>> /\ Tail(w) = <<>>
  OBVIOUS
<1>4. Head(a) = Act("test", "enable") /\ Head(Tail(a)) = Act("state", "enable") /\ Head(p) = Act("paint", "black")
      /\ Head(v) = Act("video", "on") /\ Head(w) = Act("wait", "frames")
  OBVIOUS
<1>5. a \o <<>> = a
  BY <1>2, ConcatEmptySeq
<1> HIDE DEF S, a, p, v, w
<1>6. On(v)
  BY <1>3, <1>4 DEF On, Doing
<1>7. PaintsOn(p \o v)
  <2>1. p \o v # <<>> /\ Head(p \o v) = Head(p) /\ Tail(p \o v) = v
    BY <1>2, <1>3, TailConcat
  <2> QED BY <1>4, <1>6, <2>1 DEF PaintsOn, Doing
<1>8. ASSUME NEW x \in Seq(S), On(x) \/ PaintsOn(x) PROVE a \o x # <<>> /\ Tests(a \o x)
  <2>1. a \o x # <<>> /\ Head(a \o x) = Head(a) /\ Tail(a \o x) = Tail(a) \o x
    BY <1>2, <1>3, HeadTailConcat
  <2>2. Tail(a) \o x # <<>> /\ Head(Tail(a) \o x) = Head(Tail(a)) /\ Tail(Tail(a) \o x) = x
    BY <1>2, <1>3, TailConcat
  <2>3. Shows(Tail(a) \o x)
    BY <1>4, <1>8, <2>2 DEF Shows, Doing
  <2> QED BY <1>4, <2>1, <2>3 DEF Tests, Doing
<1>9. p \o v \in Seq(S) /\ a \o p \o v = a \o (p \o v)
  BY <1>2, SMTT(60)
<1>10. EnableVideoNow(TRUE) # <<>> /\ Tests(EnableVideoNow(TRUE))
  BY <1>1, <1>7, <1>8, <1>9
<1>11. EnableVideoNow(FALSE) # <<>> /\ Tests(EnableVideoNow(FALSE))
  BY <1>1, <1>2, <1>5, <1>6, <1>8
<1>12. EnableVideoWhenVideoPlaying # <<>> /\ Waits(EnableVideoWhenVideoPlaying)
  <2> DEFINE e == a \o (p \o v)
  <2>1. e \in Seq(S)
    BY <1>2, <1>9
  <2>2. Tests(e) /\ EnableVideoWhenVideoPlaying = w \o e
    BY <1>1, <1>7, <1>8, <1>9
  <2> HIDE DEF e
  <2>3. w \o e # <<>> /\ Head(w \o e) = Head(w) /\ Tail(w \o e) = e
    BY <1>2, <1>3, <2>1, TailConcat
  <2> QED BY <1>4, <2>2, <2>3 DEF Waits, Doing
<1> QED BY <1>10, <1>11, <1>12

LEMMA StopWhole == StopTvSteps # <<>> /\ Stops(StopTvSteps)
<1> DEFINE S == {Act("flags", "stoping"), Act("state", "black"), Act("paint", "black"), Act("video", "off"),
                 Act("flags", "leave"), Act("flags", "stopped"), Act("state", "none"), Act("clear", "off")}
           f == <<Act("flags", "stoping")>>
           d == <<Act("state", "black"), Act("paint", "black"), Act("video", "off")>>
           l == <<Act("flags", "leave"), Act("flags", "stopped")>>
           n == <<Act("state", "none")>>
           g == IF tv.blackout THEN n ELSE <<>>
           c == <<Act("clear", "off")>>
<1>1. StopTvSteps = f \o d \o l \o g \o c
  BY DEF StopTvSteps, DisableVideoWith, VideoBlackout, ClearVideoBuffer
<1>2. f \in Seq(S) /\ d \in Seq(S) /\ l \in Seq(S) /\ n \in Seq(S) /\ c \in Seq(S)
      /\ Tail(d) \in Seq(S) /\ Tail(Tail(d)) \in Seq(S) /\ Tail(l) \in Seq(S)
  OBVIOUS
<1>3. f # <<>> /\ Tail(f) = <<>> /\ d # <<>> /\ Tail(d) # <<>> /\ Tail(Tail(d)) # <<>> /\ Tail(Tail(Tail(d))) = <<>>
      /\ l # <<>> /\ Tail(l) # <<>> /\ Tail(Tail(l)) = <<>> /\ n # <<>> /\ Tail(n) = <<>> /\ c # <<>> /\ Tail(c) = <<>>
  OBVIOUS
<1>4. /\ Head(f) = Act("flags", "stoping") /\ Head(d) = Act("state", "black") /\ Head(Tail(d)) = Act("paint", "black")
      /\ Head(Tail(Tail(d))) = Act("video", "off") /\ Head(l) = Act("flags", "leave")
      /\ Head(Tail(l)) = Act("flags", "stopped") /\ Head(n) = Act("state", "none") /\ Head(c) = Act("clear", "off")
  OBVIOUS
<1>5. g = n \/ g = <<>>
  OBVIOUS
<1>6. \A x \in Seq(S) : <<>> \o x = x
  BY ConcatEmptySeq
<1> HIDE DEF S, f, d, l, n, g, c
<1>7. g \in Seq(S) /\ g \o c \in Seq(S) /\ l \o (g \o c) \in Seq(S) /\ d \o (l \o (g \o c)) \in Seq(S)
  <2>1. PICK x, y, z : x = g \o c /\ y = l \o x /\ z = d \o y
    OBVIOUS
  <2>2. g \in Seq(S)
    BY <1>2, <1>5, EmptySeq
  <2>3. x \in Seq(S)
    BY <1>2, <2>1, <2>2
  <2>4. y \in Seq(S)
    BY <1>2, <2>1, <2>3
  <2>5. z \in Seq(S)
    BY <1>2, <2>1, <2>4
  <2> QED BY <2>1, <2>2, <2>3, <2>4, <2>5
<1>8. Given(g \o c) \/ Cleared(g \o c)
  <2>1. Cleared(c)
    BY <1>3, <1>4 DEF Cleared, Doing
  <2>2. n \o c # <<>> /\ Head(n \o c) = Head(n) /\ Tail(n \o c) = c
    BY <1>2, <1>3, TailConcat
  <2>3. Given(n \o c)
    BY <1>4, <2>1, <2>2 DEF Given, Doing
  <2> QED BY <1>2, <1>5, <1>6, <2>1, <2>3
<1>9. LeavesSource(l \o (g \o c))
  <2> DEFINE x == g \o c
  <2>0. x \in Seq(S) /\ (Given(x) \/ Cleared(x))
    BY <1>7, <1>8
  <2> HIDE DEF x
  <2>1. l \o x # <<>> /\ Head(l \o x) = Head(l) /\ Tail(l \o x) = Tail(l) \o x
    BY <1>2, <1>3, <2>0, HeadTailConcat
  <2>2. Tail(l) \o x # <<>> /\ Head(Tail(l) \o x) = Head(Tail(l)) /\ Tail(Tail(l) \o x) = x
    BY <1>2, <1>3, <2>0, TailConcat
  <2>3. Stopped(Tail(l) \o x)
    BY <1>4, <2>0, <2>2 DEF Stopped, Doing
  <2>4. LeavesSource(l \o x)
    BY <1>4, <2>1, <2>3 DEF LeavesSource, Doing
  <2> QED BY <2>4 DEF x
<1>10. Hides(d \o (l \o (g \o c)), "black", "StopTv")
  <2> DEFINE x == l \o (g \o c)
  <2>0. x \in Seq(S) /\ LeavesSource(x)
    BY <1>7, <1>9
  <2> HIDE DEF x
  <2>1. d \o x # <<>> /\ Head(d \o x) = Head(d) /\ Tail(d \o x) = Tail(d) \o x
    BY <1>2, <1>3, <2>0, HeadTailConcat
  <2>2. Tail(d) \o x # <<>> /\ Head(Tail(d) \o x) = Head(Tail(d)) /\ Tail(Tail(d) \o x) = Tail(Tail(d)) \o x
    BY <1>2, <1>3, <2>0, HeadTailConcat
  <2>3. Tail(Tail(d)) \o x # <<>> /\ Head(Tail(Tail(d)) \o x) = Head(Tail(Tail(d))) /\ Tail(Tail(Tail(d)) \o x) = x
    BY <1>2, <1>3, <2>0, TailConcat
  <2>4. Off(Tail(Tail(d)) \o x, "StopTv")
    BY <1>4, <2>0, <2>3 DEF Off, Doing
  <2>5. Paints(Tail(d) \o x, "black", "StopTv")
    BY <1>4, <2>2, <2>4 DEF Paints, Doing
  <2>6. Hides(d \o x, "black", "StopTv")
    BY <1>4, <2>1, <2>5 DEF Hides, Doing
  <2> QED BY <2>6 DEF x
<1>11. StopTvSteps = f \o (d \o (l \o (g \o c)))
  <2>1. PICK x, y, z, r : x = g \o c /\ y = f \o d /\ z = y \o l /\ r = l \o x
    OBVIOUS
  <2>2. x \in Seq(S) /\ y \in Seq(S) /\ g \in Seq(S)
    BY <1>2, <1>7, <2>1
  <2>3. z \in Seq(S) /\ r \in Seq(S)
    BY <1>2, <2>1, <2>2
  <2>4. (z \o g) \o c = z \o (g \o c)
    BY <1>2, <2>2, <2>3, SMTT(60)
  <2>5. (y \o l) \o x = y \o (l \o x)
    BY <1>2, <2>2, SMTT(60)
  <2>6. (f \o d) \o r = f \o (d \o r)
    BY <1>2, <2>3, SMTT(60)
  <2> QED BY <1>1, <2>1, <2>4, <2>5, <2>6
<1>12. f \o (d \o (l \o (g \o c))) # <<>> /\ Head(f \o (d \o (l \o (g \o c)))) = Head(f)
       /\ Tail(f \o (d \o (l \o (g \o c)))) = d \o (l \o (g \o c))
  <2> DEFINE x == d \o (l \o (g \o c))
  <2>0. x \in Seq(S)
    BY <1>7
  <2> HIDE DEF x
  <2>1. f \o x # <<>> /\ Head(f \o x) = Head(f) /\ Tail(f \o x) = x
    BY <1>2, <1>3, <2>0, TailConcat
  <2> QED BY <2>1 DEF x
<1> QED BY <1>4, <1>10, <1>11, <1>12 DEF Stops, Doing
(* Somebody else begins: a call that was alone no longer is, and the others go on. *)
LEMMA StageKept ==
  ASSUME NEW u \in Actors, NEW x, NEW b, NEW b2, Stage(u, x, b), u = "client" => (Left => Left'),
         b2 = b \/ b2 # TRUE, layer' = layer, MayShow => MayShow', FineUnlessDoubt => FineUnlessDoubt' \/ b2 # TRUE
  PROVE  Stage(u, x, b2)'
<1>1. Painted => Painted'
  BY DEF Painted
<1>2. ASSUME NEW of, HideStage(x, b, of) PROVE HideStage(x, b2, of)'
  BY <1>1, <1>2 DEF HideStage
<1>3. ShowStage(x, b) => ShowStage(x, b2)'
  BY DEF ShowStage
<1>4. OtherStage(x, b) => OtherStage(x, b2)'
  BY DEF OtherStage
<1>5. u = "client" /\ StopStage(x, b) => StopStage(x, b2)'
  <2>1. PICK of : of = "StopTv"
    OBVIOUS
  <2>2. HideStage(x, b, of) => HideStage(x, b2, of)'
    BY <1>2
  <2> QED BY <1>1, <2>1, <2>2 DEF StopStage
<1>6. HideStage(x, b, "call") => HideStage(x, b2, "call")'
  BY <1>2
<1> QED BY <1>3, <1>4, <1>5, <1>6 DEF Stage

TvTypes ==
  /\ tv = [source |-> tv.source, playing |-> tv.playing, stoping |-> tv.stoping, stopped |-> tv.stopped,
           late |-> tv.late, snow |-> tv.snow, blackout |-> tv.blackout, colour |-> tv.colour]
  /\ tv.playing \in BOOLEAN /\ tv.stopped \in BOOLEAN /\ tv.late \in BOOLEAN /\ tv.colour \in Colours
BeginsWell(t, steps) ==
  /\ TvTypes' /\ StoppedLeft'
  /\ t \in {"client", "poll"} => work["client"] = <<>> /\ work["poll"] = <<>>
  /\ MayShow => MayShow'
  /\ Fine => Fine'
  /\ work["client"] = <<>> \/ (Left => Left')
  /\ steps = <<>> \/ \A b \in BOOLEAN : (b = TRUE => FineUnlessDoubt') => Stage(t, steps, b)'

LEMMA BeginKeeps ==
  ASSUME LayerInv, NEW t \in Actors, NEW steps, Begins(t, steps), BeginsWell(t, steps)
  PROVE  LayerInv'
<1>1. /\ work[t] = <<>> /\ work' = [work EXCEPT ![t] = steps] /\ layer' = layer
      /\ work = [u \in Actors |-> work[u]]
  BY DEF Begins, LayerInv, LayerTypes
<1>2. work'[t] = steps /\ \A u \in Actors \ {t} : work'[u] = work[u]
  BY <1>1
<1>3. doubt \in BOOLEAN /\ doubt' \in BOOLEAN /\ solo \in [Actors -> BOOLEAN] /\ solo' \in [Actors -> BOOLEAN]
  BY DEF Begins, LayerInv, LayerTypes
<1>4. LayerTypes'
  BY <1>1, <1>3 DEF LayerInv, LayerTypes, BeginsWell, TvTypes
<1>5. StoppedLeft' /\ (work["client"] = <<>> \/ work["poll"] = <<>>)'
  BY <1>2 DEF BeginsWell, LayerInv, Actors
<1>6. Others(t) = {} <=> \A u \in Actors \ {t} : work[u] = <<>>
  BY DEF Others
<1>7. CASE steps = <<>>
  <2>1. doubt' = doubt /\ \A u \in Actors \ {t} : solo'[u] = solo[u]
    BY <1>3, <1>7 DEF Begins
  <2>2. \A u \in Actors : work'[u] = work[u]
    BY <1>1, <1>2, <1>7
  <2>3. Alone' /\ AloneUnlessDoubt'
    BY <1>1, <2>1, <2>2 DEF LayerInv, Alone, AloneUnlessDoubt
  <2>4. FineUnlessDoubt => FineUnlessDoubt'
    BY <2>1 DEF FineUnlessDoubt, BeginsWell
  <2>5. NobodyAtWork' => FineUnlessDoubt'
    BY <2>2, <2>4 DEF LayerInv, NobodyAtWork
  <2>6. ASSUME NEW u \in Actors, work'[u] # <<>> PROVE Stage(u, work[u], solo[u])'
    <3>1. PICK x, b : x = work[u] /\ b = solo[u]
      OBVIOUS
    <3>2. Stage(u, x, b)
      BY <2>2, <2>6, <3>1 DEF LayerInv
    <3>3. u = "client" => (Left => Left')
      BY <2>2, <2>6 DEF BeginsWell
    <3>4. Stage(u, x, b)'
      BY <1>1, <2>4, <3>2, <3>3, StageKept DEF BeginsWell
    <3>5. work'[u] = x /\ solo'[u] = b
      BY <1>1, <2>1, <2>2, <2>6, <3>1
    <3> QED BY <3>4, <3>5
  <2> QED BY <1>4, <1>5, <2>3, <2>5, <2>6 DEF LayerInv
<1>8. CASE steps # <<>>
  <2>1. /\ doubt' = (doubt \/ Others(t) # {}) /\ solo'[t] = (Others(t) = {})
        /\ \A u \in Actors \ {t} : work[u] # <<>> => solo'[u] = FALSE
    <3>1. doubt' = (doubt \/ Others(t) # {})
      BY <1>8 DEF Begins
    <3>2. solo'[t] = (Others(t) = {})
      BY DEF Begins
    <3>3. ASSUME NEW u \in Actors \ {t}, work[u] # <<>> PROVE solo'[u] = FALSE
      BY <1>3, <1>8, <3>3 DEF Begins
    <3> QED BY <3>1, <3>2, <3>3
  <2>2. Alone'
    BY <1>2, <1>6, <2>1 DEF Alone
  <2>3. AloneUnlessDoubt'
    <3>1. ASSUME doubt' = FALSE PROVE Others(t) = {} /\ solo'[t] = TRUE
      BY <2>1, <3>1
    <3>2. ASSUME doubt' = FALSE, NEW u \in Actors, work'[u] # <<>> PROVE u = t
      <4>1. \A v \in Actors \ {t} : work[v] = <<>>
        BY <1>6, <3>1, <3>2
      <4> QED BY <1>2, <3>2, <4>1
    <3> QED BY <3>1, <3>2 DEF AloneUnlessDoubt
  <2>4. ~NobodyAtWork'
    BY <1>2, <1>8 DEF NobodyAtWork
  <2>5. ASSUME Others(t) = {} PROVE FineUnlessDoubt'
    <3>1. NobodyAtWork
      BY <1>1, <1>6, <2>5 DEF NobodyAtWork
    <3>2. doubt' = doubt
      BY <1>3, <2>1, <2>5
    <3> QED BY <3>1, <3>2 DEF LayerInv, FineUnlessDoubt, BeginsWell
  <2>6. Stage(t, steps, solo[t])'
    <3>1. PICK b \in BOOLEAN : b = solo'[t]
      BY <1>3
    <3>2. b = TRUE => FineUnlessDoubt'
      BY <2>1, <2>5, <3>1
    <3>3. Stage(t, steps, b)'
      BY <1>8, <3>2 DEF BeginsWell
    <3> QED BY <3>1, <3>3
  <2>7. ASSUME NEW u \in Actors \ {t}, work'[u] # <<>> PROVE Stage(u, work[u], solo[u])'
    <3>1. PICK x, b, b2 : x = work[u] /\ b = solo[u] /\ b2 = solo'[u]
      OBVIOUS
    <3>2. Stage(u, x, b)
      BY <1>2, <2>7, <3>1 DEF LayerInv
    <3>3. b2 # TRUE
      BY <1>2, <2>1, <2>7, <3>1
    <3>4. u = "client" => (Left => Left')
      BY <1>2, <2>7 DEF BeginsWell
    <3>5. Stage(u, x, b2)'
      BY <1>1, <3>2, <3>3, <3>4, StageKept DEF BeginsWell
    <3>6. work'[u] = x /\ solo'[u] = b2
      BY <1>2, <2>7, <3>1
    <3> QED BY <3>5, <3>6
  <2>8. ASSUME NEW u \in Actors PROVE work'[u] = <<>> \/ Stage(u, work[u], solo[u])'
    BY <1>2, <2>6, <2>7
  <2> QED BY <1>4, <1>5, <2>2, <2>3, <2>4, <2>8 DEF LayerInv
<1> QED BY <1>7, <1>8

LEMMA LayerAsBefore == ASSUME LayerInv, UNCHANGED layerVars PROVE LayerInv'
<1>1. layer' = layer /\ tv' = tv /\ work' = work /\ solo' = solo /\ doubt' = doubt
  BY DEF layerVars
<1>2. /\ LayerTypes' /\ StoppedLeft' /\ Alone' /\ AloneUnlessDoubt'
      /\ (work["client"] = <<>> \/ work["poll"] = <<>>)'
  BY <1>1 DEF LayerInv, LayerTypes, StoppedLeft, Left, Alone, AloneUnlessDoubt
<1>3. (NobodyAtWork => NobodyAtWork') /\ (NobodyAtWork' => NobodyAtWork) /\ (FineUnlessDoubt => FineUnlessDoubt')
      /\ (Left => Left') /\ (MayShow => MayShow')
  BY <1>1 DEF NobodyAtWork, FineUnlessDoubt, Fine, Recorded, Left, MayShow
<1>4. ASSUME NEW u \in Actors, work'[u] # <<>> PROVE Stage(u, work[u], solo[u])'
  <2>1. PICK x, b : x = work[u] /\ b = solo[u]
    OBVIOUS
  <2>2. Stage(u, x, b)
    BY <1>1, <1>4, <2>1 DEF LayerInv
  <2>3. Stage(u, x, b)'
    BY <1>1, <1>3, <2>2, StageKept
  <2> QED BY <1>1, <2>1, <2>3
<1> QED BY <1>2, <1>3, <1>4 DEF LayerInv

(* Every step. *)
LEMMA HideBegins ==
  ASSUME NEW t \in Actors, NEW c \in Colours, NEW b
  PROVE  Stage(t, DisableVideoWith(c), b)'
<1>1. PICK x : x = DisableVideoWith(c)
  OBVIOUS
<1>2. Hides(x, c, "call")
  BY <1>1, HideWhole
<1>3. Stage(t, x, b)'
  BY <1>2 DEF Stage, HideStage
<1> QED BY <1>1, <1>3 DEF DisableVideoWith, Act

LEMMA TvSame ==
  ASSUME LayerInv, layer' = layer, tv' = tv
  PROVE  TvTypes' /\ StoppedLeft' /\ (MayShow => MayShow') /\ (Fine => Fine') /\ (Left => Left')
BY DEF LayerInv, LayerTypes, TvTypes, StoppedLeft, Left, MayShow, Fine, Recorded

LEMMA ClientBegins ==
  ASSUME LayerInv, StartTv \/ StopTv \/ ScanLayer \/ SetFrontEndLayer \/ (\E source \in {"dtv", "tv", "hdmi"} : SwitchTo(source))
  PROVE  LayerInv'
<1>1. "client" \in Actors /\ "black" \in Colours
  BY DEF Actors, Colours
<1>2. TvTypes /\ StoppedLeft
  BY DEF LayerInv, LayerTypes, TvTypes
<1>3. CASE StartTv
  <2>1. Begins("client", SetVideoLayerEnabled) /\ layer' = layer /\ tv' = tv /\ work["client"] = <<>> /\ work["poll"] = <<>>
    BY <1>3 DEF StartTv, Locked, Begins
  <2>2. Clears(SetVideoLayerEnabled)
    BY DEF Clears, SetVideoLayerEnabled, Doing
  <2>3. ASSUME NEW b \in BOOLEAN, b = TRUE => FineUnlessDoubt' PROVE Stage("client", SetVideoLayerEnabled, b)'
    BY <2>2, <2>3 DEF Stage, OtherStage
  <2>4. BeginsWell("client", SetVideoLayerEnabled)
    BY <2>1, <2>3, TvSame DEF BeginsWell
  <2> QED BY <1>1, <2>1, <2>4, BeginKeeps
<1>4. CASE StopTv
  <2>1. Begins("client", StopTvSteps) /\ layer' = layer /\ tv' = tv /\ work["client"] = <<>> /\ work["poll"] = <<>>
    BY <1>4 DEF StopTv, Locked, Begins
  <2>2. PICK x : x = StopTvSteps
    OBVIOUS
  <2>3. Stops(x)
    BY <2>2, StopWhole
  <2>4. \A b \in BOOLEAN : Stage("client", x, b)'
    BY <2>3 DEF Stage, StopStage
  <2>5. BeginsWell("client", x)
    BY <2>1, <2>4, TvSame DEF BeginsWell
  <2>6. Begins("client", x)
    BY <2>1, <2>2
  <2> QED BY <1>1, <2>5, <2>6, BeginKeeps
<1>5. CASE ScanLayer
  <2>1. /\ layer' = layer /\ work["client"] = <<>> /\ work["poll"] = <<>>
        /\ tv' = tv \/ tv' = [tv EXCEPT !.source = "none"] \/ tv' = [tv EXCEPT !.playing = FALSE]
    BY <1>5 DEF ScanLayer, Locked, Begins
  <2>2. /\ TvTypes' /\ tv'.stopped = tv.stopped /\ tv'.late = tv.late
        /\ tv.source = "none" => tv'.source = "none"
        /\ tv.playing = FALSE => tv'.playing = FALSE
    BY <1>2, <2>1 DEF TvTypes
  <2>3. StoppedLeft' /\ (MayShow => MayShow') /\ (Fine => Fine')
    BY <1>2, <2>1, <2>2 DEF StoppedLeft, Left, MayShow, Fine, Recorded
  <2>4. Begins("client", <<>>) \/ Begins("client", DisableVideoWith("black"))
    BY <1>5 DEF ScanLayer
  <2>5. CASE Begins("client", <<>>)
    <3>1. PICK x : x = <<>>
      OBVIOUS
    <3>2. Begins("client", x) /\ BeginsWell("client", x)
      BY <2>1, <2>2, <2>3, <2>5, <3>1 DEF BeginsWell
    <3> QED BY <1>1, <3>2, BeginKeeps
  <2>6. CASE Begins("client", DisableVideoWith("black"))
    <3>1. BeginsWell("client", DisableVideoWith("black"))
      BY <1>1, <2>1, <2>2, <2>3, HideBegins DEF BeginsWell
    <3> QED BY <1>1, <2>6, <3>1, BeginKeeps
  <2> QED BY <2>4, <2>5, <2>6
<1>6. CASE SetFrontEndLayer
  <2>1. Begins("client", VideoBlackout) /\ layer' = layer /\ tv' = tv /\ work["client"] = <<>> /\ work["poll"] = <<>>
    BY <1>6 DEF SetFrontEndLayer, Locked, Begins
  <2>2. Gives(VideoBlackout)
    BY DEF Gives, VideoBlackout, Doing
  <2>3. \A b \in BOOLEAN : Stage("client", VideoBlackout, b)'
    BY <2>2 DEF Stage, OtherStage
  <2>4. BeginsWell("client", VideoBlackout)
    BY <2>1, <2>3, TvSame DEF BeginsWell
  <2> QED BY <1>1, <2>1, <2>4, BeginKeeps
<1>7. ASSUME NEW source \in {"dtv", "tv", "hdmi"}, SwitchTo(source) PROVE LayerInv'
  <2>1. /\ Begins("client", <<>>) /\ layer' = layer /\ work["client"] = <<>> /\ work["poll"] = <<>>
        /\ tv' = [tv EXCEPT !.source = source, !.playing = (source = "dtv"), !.stopped = FALSE]
    BY <1>7 DEF SwitchTo, Locked, Begins
  <2>2. TvTypes' /\ tv'.stopped = FALSE
    BY <1>2, <2>1 DEF TvTypes
  <2>3. StoppedLeft' /\ MayShow' /\ (Fine => Fine')
    BY <2>1, <2>2 DEF StoppedLeft, MayShow, Fine, Recorded
  <2>4. PICK x : x = <<>>
    OBVIOUS
  <2>5. Begins("client", x) /\ BeginsWell("client", x)
    BY <2>1, <2>2, <2>3, <2>4 DEF BeginsWell
  <2> QED BY <1>1, <2>5, BeginKeeps
<1> QED BY <1>3, <1>4, <1>5, <1>6, <1>7

LEMMA PollBegins ==
  ASSUME LayerInv, SetEdidLayer \/ SigToUnstable \/ SigLost
  PROVE  LayerInv'
<1>1. "poll" \in Actors /\ "edid" \in Actors /\ "black" \in Colours /\ tv.colour \in Colours
  BY DEF Actors, Colours, LayerInv, LayerTypes
<1>2. CASE SetEdidLayer
  <2>1. Begins("edid", DisableVideoWith("black")) /\ layer' = layer /\ tv' = tv
    BY <1>2 DEF SetEdidLayer, Begins
  <2>2. BeginsWell("edid", DisableVideoWith("black"))
    BY <1>1, <2>1, TvSame, HideBegins DEF BeginsWell
  <2> QED BY <1>1, <2>1, <2>2, BeginKeeps
<1>3. CASE SigToUnstable
  <2>1. /\ Begins("poll", DisableVideoWith("black")) /\ layer' = layer /\ tv' = tv
        /\ work["client"] = <<>> /\ work["poll"] = <<>>
    BY <1>3 DEF SigToUnstable, InVdin, Locked, Begins
  <2>2. BeginsWell("poll", DisableVideoWith("black"))
    BY <1>1, <2>1, TvSame, HideBegins DEF BeginsWell
  <2> QED BY <1>1, <2>1, <2>2, BeginKeeps
<1>4. CASE SigLost
  <2>1. /\ layer' = layer /\ tv' = tv /\ work["client"] = <<>> /\ work["poll"] = <<>> /\ tv.source \in {"tv", "hdmi"}
        /\ (Begins("poll", EnableVideoNow(FALSE)) \/ Begins("poll", DisableVideoWith(tv.colour)))
    BY <1>4 DEF SigLost, InVdin, Locked, Begins
  <2>2. MayShow /\ MayShow'
    BY <2>1 DEF MayShow, LayerInv, LayerTypes, StoppedLeft, Left
  <2>3. PICK x : x = EnableVideoNow(FALSE)
    OBVIOUS
  <2>4. Tests(x)
    BY <2>3, ShowWhole
  <2>5. \A b \in BOOLEAN : (b = TRUE => FineUnlessDoubt') => Stage("poll", x, b)'
    BY <2>2, <2>4 DEF Stage, ShowStage
  <2>6. BeginsWell("poll", x)
    BY <2>1, <2>5, TvSame DEF BeginsWell
  <2>7. CASE Begins("poll", x)
    BY <1>1, <2>6, <2>7, BeginKeeps
  <2>8. PICK c \in Colours : c = tv.colour
    BY <1>1
  <2>9. BeginsWell("poll", DisableVideoWith(c))
    BY <1>1, <2>1, TvSame, HideBegins DEF BeginsWell
  <2>10. CASE Begins("poll", DisableVideoWith(c))
    BY <1>1, <2>9, <2>10, BeginKeeps
  <2> QED BY <2>1, <2>3, <2>7, <2>8, <2>10
<1> QED BY <1>2, <1>3, <1>4

LEMMA QueueBegins ==
  ASSUME LayerInv, HandleEvent \/ FeNoSignal \/ EnableVideoLater
  PROVE  LayerInv'
<1>1. "queue" \in Actors
  BY DEF Actors
<1>2. PICK c \in Colours : c = tv.colour
  BY DEF LayerInv, LayerTypes
<1>3. ASSUME Begins("queue", DisableVideoWith(c)), tv' = tv PROVE LayerInv'
  <2>1. layer' = layer
    BY <1>3 DEF Begins
  <2>2. BeginsWell("queue", DisableVideoWith(c))
    BY <1>1, <1>3, <2>1, TvSame, HideBegins DEF BeginsWell
  <2> QED BY <1>1, <1>3, <2>2, BeginKeeps
<1>4. ASSUME NEW x, x = <<>>, Begins("queue", x), tv' = tv PROVE LayerInv'
  <2>1. layer' = layer
    BY <1>4 DEF Begins
  <2>2. BeginsWell("queue", x)
    BY <1>4, <2>1, TvSame DEF BeginsWell
  <2> QED BY <1>1, <1>4, <2>2, BeginKeeps
<1>5. ASSUME tv.source = "dtv", tv.playing = TRUE, NEW x, x = EnableVideoNow(TRUE), Begins("queue", x), tv' = tv
      PROVE  LayerInv'
  <2>1. layer' = layer
    BY <1>5 DEF Begins
  <2>2. MayShow'
    BY <1>5 DEF MayShow, LayerInv, LayerTypes, StoppedLeft, Left
  <2>3. Tests(x)
    BY <1>5, ShowWhole
  <2>4. \A b \in BOOLEAN : (b = TRUE => FineUnlessDoubt') => Stage("queue", x, b)'
    BY <2>2, <2>3 DEF Stage, ShowStage
  <2>5. BeginsWell("queue", x)
    BY <1>5, <2>1, <2>4, TvSame DEF BeginsWell
  <2> QED BY <1>1, <1>5, <2>5, BeginKeeps
<1>6. CASE HandleEvent
  <2>1. PICK type : Begins("queue", LayerOnEvent(type)) /\ tv' = tv
    BY <1>6 DEF HandleEvent
  <2>2. PICK x : x = LayerOnEvent(type)
    OBVIOUS
  <2>3. tv.playing \in BOOLEAN
    BY DEF LayerInv, LayerTypes
  <2>4. x = <<>> \/ x = DisableVideoWith(c) \/ (x = EnableVideoNow(TRUE) /\ tv.source = "dtv" /\ tv.playing = TRUE)
    BY <1>2, <2>2, <2>3 DEF LayerOnEvent
  <2>5. Begins("queue", x)
    BY <2>1, <2>2
  <2> QED BY <1>3, <1>4, <1>5, <2>1, <2>4, <2>5
<1>7. CASE FeNoSignal
  BY <1>2, <1>3, <1>7 DEF FeNoSignal
<1>8. CASE EnableVideoLater
  <2>1. Begins("queue", EnableVideoWhenVideoPlaying) /\ layer' = layer /\ tv' = [tv EXCEPT !.late = TRUE]
    BY <1>8 DEF EnableVideoLater, Begins
  <2>2. TvTypes /\ StoppedLeft
    BY DEF LayerInv, LayerTypes, TvTypes
  <2>3. TvTypes' /\ tv'.late = TRUE /\ tv'.stopped = tv.stopped /\ tv'.source = tv.source /\ tv'.playing = tv.playing
    BY <2>1, <2>2 DEF TvTypes
  <2>4. StoppedLeft' /\ MayShow' /\ (Fine => Fine') /\ (Left => Left')
    BY <2>1, <2>2, <2>3 DEF StoppedLeft, MayShow, Fine, Recorded, Left
  <2>5. PICK x : x = EnableVideoWhenVideoPlaying
    OBVIOUS
  <2>6. Waits(x)
    BY <2>5, ShowWhole
  <2>7. \A b \in BOOLEAN : (b = TRUE => FineUnlessDoubt') => Stage("queue", x, b)'
    BY <2>4, <2>6 DEF Stage, ShowStage
  <2>8. BeginsWell("queue", x) /\ Begins("queue", x)
    BY <2>1, <2>3, <2>4, <2>5, <2>7 DEF BeginsWell
  <2> QED BY <1>1, <2>8, BeginKeeps
<1> QED BY <1>6, <1>7, <1>8

LEMMA LayerNextInv == LayerInv /\ [VideoNext]_videoVars => LayerInv'
<1> SUFFICES ASSUME LayerInv, [VideoNext]_videoVars PROVE LayerInv'
  OBVIOUS
<1>1. ASSUME NEW t \in Actors, LayerStep(t) PROVE LayerInv'
  BY <1>1, LayerStepInv
<1>2. CASE StartTv \/ StopTv \/ ScanLayer \/ SetFrontEndLayer \/ \E source \in {"dtv", "tv", "hdmi"} : SwitchTo(source)
  BY <1>2, ClientBegins
<1>3. CASE SetEdidLayer \/ SigToUnstable \/ SigLost
  BY <1>3, PollBegins
<1>4. CASE SigStillStable
  BY <1>4, LayerAsBefore DEF SigStillStable
<1>5. ASSUME NEW r \in Raisers, Raise(r) \/ WriteField(r) \/ SendEvent(r) PROVE LayerInv'
  BY <1>5, LayerAsBefore DEF Raise, WriteField, SendEvent
<1>6. CASE HandleEvent \/ FeNoSignal \/ EnableVideoLater
  BY <1>6, QueueBegins
<1>7. CASE UNCHANGED videoVars
  BY <1>7, LayerAsBefore DEF videoVars
<1> QED BY <1>1, <1>2, <1>3, <1>4, <1>5, <1>6, <1>7 DEF VideoNext

\* When nobody changes the layer it is what CAv has recorded, and after StopTv nothing of the stopped
\* playback has enabled it again (CAv::EnableVideoNow, DisableVideoWithBlackColor, CTv::StopTvLock).
THEOREM LayerIsAsRecorded == VideoSpec => []LayerFollows
<1>1. LayerInv => LayerFollows
  <2> SUFFICES ASSUME LayerInv, NobodyAtWork, doubt = FALSE PROVE Fine
    BY DEF LayerFollows, LayerAsRecorded, DarkAfterStop, Fine, Recorded, Colours, LayerInv, LayerTypes
  <2> QED BY DEF LayerInv, FineUnlessDoubt
<1> QED BY <1>1, LayerInitInv, LayerNextInv, PTL DEF VideoSpec

-----------------------------------------------------------------------------
(* What an event carries that its handler needs.  A thread that raises one alone has told mCurAvEvent *)
(* each field, or has it left to tell; a note of an event raised alone carries all of it.            *)
Fields == {"type", "status", "param", "param1"}
AvTypes == {"audio_cb", "stop", "resume", "scambled", "unsupport", "available", "update"}
AvEvents == [type : AvTypes \cup {"none"}, status : Nat, param : Nat, param1 : Nat]
IsRaised(e) == \E type \in AvTypes, n \in Nat \ {0} : e = EventOf(type, n)

Needed(f, e) == f = "type" \/ e[f] # 0
Carries(e, of) == \A f \in Fields : Needed(f, of) => e[f] = of[f]
Notes ==
  {m \in [is : {"later", "av"}, event : AvEvents, of : AvEvents, solo : BOOLEAN] :
     m.solo = TRUE => Carries(m.event, m.of) /\ (IsRaised(m.of) \/ (m.of = NoAvEvent /\ m.event = NoAvEvent))}

Raising == [event : AvEvents, left : Seq(Fields), solo : BOOLEAN]
ToldOrLeft(f, a) == curEvent[f] = a.event[f] \/ \E i \in 1 .. Len(a.left) : a.left[i] = f
RaisedInv(r) ==
  IF raising[r].event = NoAvEvent THEN raising[r].left = <<>>
  ELSE /\ IsRaised(raising[r].event)
       /\ raising[r].solo = TRUE =>
            /\ \A q \in Raisers \ {r} : raising[q].event = NoAvEvent
            /\ \A f \in Fields : Needed(f, raising[r].event) => ToldOrLeft(f, raising[r])

EventTypesOk ==
  /\ raised \in Nat /\ curEvent \in AvEvents /\ raising \in [Raisers -> Raising]
  /\ inbox \in Seq(Notes)
EventInv == EventTypesOk /\ (\A r \in Raisers : RaisedInv(r)) /\ toldAv[1] = toldAv[2]

LEMMA NoEventIs == NoAvEvent \in AvEvents
  BY DEF NoAvEvent, AvEvents

LEMMA RaisedIs ==
  ASSUME NEW type \in AvTypes, NEW n \in Nat \ {0}
  PROVE  EventOf(type, n) \in AvEvents /\ EventOf(type, n) # NoAvEvent /\ IsRaised(EventOf(type, n))
<1>1. EventOf(type, n) \in AvEvents
  BY DEF EventOf, AvEvents, AvTypes
<1>2. EventOf(type, n).param # NoAvEvent.param
  BY DEF EventOf, NoAvEvent
<1> QED BY <1>1, <1>2 DEF IsRaised

LEMMA EventInitInv == VideoInit => EventInv
<1> SUFFICES ASSUME VideoInit PROVE EventInv
  OBVIOUS
<1>1. EventTypesOk
  BY NoEventIs DEF VideoInit, EventTypesOk, Raising, NotRaising
<1>2. \A r \in Raisers : RaisedInv(r)
  BY DEF VideoInit, RaisedInv, NotRaising
<1> QED BY <1>1, <1>2 DEF VideoInit, EventInv

(* Every field an event needs is among those written for it. *)
LEMMA AllWritten ==
  ASSUME NEW type \in AvTypes, NEW n \in Nat \ {0}, NEW f \in Fields, Needed(f, EventOf(type, n))
  PROVE  /\ FieldsOf(type) \in Seq(Fields)
         /\ \E i \in 1 .. Len(FieldsOf(type)) : FieldsOf(type)[i] = f
<1>1. CASE type = "audio_cb"
  <2>1. FieldsOf(type) = <<"type", "status", "param", "param1">>
    BY <1>1 DEF FieldsOf
  <2> QED BY <2>1 DEF Fields
<1>2. CASE type = "update"
  <2>1. FieldsOf(type) = <<"type", "param", "status">>
    BY <1>2 DEF FieldsOf
  <2>2. EventOf(type, n).param1 = 0
    BY <1>2 DEF EventOf
  <2>3. f \in {"type", "param", "status"}
    BY <2>2 DEF Fields, Needed
  <2> QED BY <2>1, <2>3 DEF Fields
<1>3. CASE type \notin {"audio_cb", "update"}
  <2>1. FieldsOf(type) = <<"type", "param">>
    BY <1>3 DEF FieldsOf
  <2>2. EventOf(type, n).param1 = 0 /\ EventOf(type, n).status = 0
    BY <1>3 DEF EventOf
  <2>3. f \in {"type", "param"}
    BY <2>2 DEF Fields, Needed
  <2> QED BY <2>1, <2>3 DEF Fields
<1> QED BY <1>1, <1>2, <1>3

LEMMA RaiseStep == ASSUME EventInv, NEW r \in Raisers, Raise(r) PROVE EventInv'
<1>1. PICK type \in EventTypes(r) :
        LET other == CHOOSE q \in Raisers : q # r
            lone == raising[other].event = NoAvEvent
        IN raising' = [raising EXCEPT ![r] = [event |-> EventOf(type, raised + 1), left |-> FieldsOf(type), solo |-> lone],
                                      ![other].solo = @ /\ lone]
  BY DEF Raise
<1> DEFINE other == CHOOSE q \in Raisers : q # r
           lone == raising[other].event = NoAvEvent
           e == EventOf(type, raised + 1)
           a == [event |-> e, left |-> FieldsOf(type), solo |-> lone]
           b == [raising[other] EXCEPT !.solo = @ /\ lone]
<1>2. other \in Raisers /\ other # r /\ Raisers = {r, other}
  BY DEF Raisers
<1>3. type \in AvTypes
  BY DEF EventTypes, AvTypes
<1>4. raised + 1 \in Nat \ {0} /\ raised' = raised + 1
  BY DEF Raise, EventInv, EventTypesOk
<1>5. lone \in BOOLEAN
  OBVIOUS
<1>6. raising' = [raising EXCEPT ![r] = a, ![other] = b]
  BY <1>1, <1>2 DEF EventInv, EventTypesOk
<1>7. e \in AvEvents /\ e # NoAvEvent /\ IsRaised(e)
  BY <1>3, <1>4, RaisedIs
<1>8. FieldsOf(type) \in Seq(Fields)
  BY <1>3, <1>4, AllWritten DEF Fields, Needed
<1>9. raising[other].event \in AvEvents /\ raising[other].left \in Seq(Fields) /\ raising[other].solo \in BOOLEAN
      /\ raising[other] = [event |-> raising[other].event, left |-> raising[other].left, solo |-> raising[other].solo]
  BY <1>2 DEF EventInv, EventTypesOk, Raising
<1>10. \A f \in Fields : Needed(f, e) => \E i \in 1 .. Len(FieldsOf(type)) : FieldsOf(type)[i] = f
  BY <1>3, <1>4, AllWritten
<1> HIDE DEF other, lone, e
<1> DEFINE s == raising[other].solo /\ lone
<1>11. s \in BOOLEAN /\ (s = TRUE => lone = TRUE)
  BY <1>5, <1>9
<1>12. b = [event |-> raising[other].event, left |-> raising[other].left, solo |-> s]
  BY <1>9
<1> HIDE DEF s
<1>13. a \in Raising /\ b \in Raising
  BY <1>5, <1>7, <1>8, <1>9, <1>11, <1>12 DEF Raising
<1>14. a.event = e /\ a.left = FieldsOf(type) /\ a.solo = lone /\ b.event = raising[other].event /\ b.left = raising[other].left
       /\ b.solo = s
  BY <1>12
<1> HIDE DEF a, b
<1>15. raising' \in [Raisers -> Raising] /\ raising'[r] = a /\ raising'[other] = b
  BY <1>2, <1>6, <1>13 DEF EventInv, EventTypesOk
<1>16. EventTypesOk'
  BY <1>4, <1>15 DEF EventInv, EventTypesOk, Raise, layerVars
<1>17. lone = TRUE => raising[other].event = NoAvEvent
  BY DEF lone
<1>18. RaisedInv(r)'
  <2>1. ASSUME NEW f \in Fields, Needed(f, e) PROVE \E i \in 1 .. Len(raising'[r].left) : raising'[r].left[i] = f
    BY <1>10, <1>14, <1>15, <2>1
  <2>2. \A q \in Raisers \ {r} : lone = TRUE => raising'[q].event = NoAvEvent
    BY <1>2, <1>14, <1>15, <1>17
  <2> QED BY <1>7, <1>14, <1>15, <2>1, <2>2 DEF RaisedInv, ToldOrLeft
<1>19. RaisedInv(other)'
  <2>1. s = TRUE => raising[other].event = NoAvEvent
    BY <1>11, <1>17
  <2> QED BY <1>2, <1>14, <1>15, <2>1 DEF RaisedInv, EventInv
<1> QED BY <1>2, <1>16, <1>18, <1>19 DEF EventInv, Raise

LEMMA WriteStep == ASSUME EventInv, NEW r \in Raisers, WriteField(r) PROVE EventInv'
<1> DEFINE a == raising[r]
           h == Head(a.left)
           b == [a EXCEPT !.left = Tail(@)]
<1>1. a \in Raising /\ a = [event |-> a.event, left |-> a.left, solo |-> a.solo]
      /\ a.left \in Seq(Fields) /\ a.left # <<>> /\ a.event \in AvEvents
  BY DEF EventInv, EventTypesOk, Raising, WriteField
<1>2. h \in Fields /\ Tail(a.left) \in Seq(Fields) /\ Len(Tail(a.left)) = Len(a.left) - 1 /\ h = a.left[1]
      /\ \A i \in 1 .. Len(Tail(a.left)) : Tail(a.left)[i] = a.left[i + 1]
  BY <1>1, HeadTailProperties
<1>3. a.event[h] \in (IF h = "type" THEN AvTypes \cup {"none"} ELSE Nat)
  BY <1>1, <1>2 DEF AvEvents, Fields
<1>4. curEvent' = [curEvent EXCEPT ![h] = a.event[h]]
  BY DEF WriteField
<1>5. curEvent \in AvEvents /\ curEvent' \in AvEvents
  <2>1. curEvent \in AvEvents
    BY DEF EventInv, EventTypesOk
  <2>2. CASE h = "type"
    BY <1>3, <1>4, <2>1, <2>2 DEF AvEvents
  <2>3. CASE h = "status"
    BY <1>3, <1>4, <2>1, <2>3 DEF AvEvents
  <2>4. CASE h = "param"
    BY <1>3, <1>4, <2>1, <2>4 DEF AvEvents
  <2>5. CASE h = "param1"
    BY <1>3, <1>4, <2>1, <2>5 DEF AvEvents
  <2> QED BY <1>2, <2>1, <2>2, <2>3, <2>4, <2>5 DEF Fields
<1>6. \A f \in Fields : curEvent'[f] = IF f = h THEN a.event[h] ELSE curEvent[f]
  BY <1>2, <1>4, <1>5 DEF AvEvents, Fields
<1>7. raising' = [raising EXCEPT ![r] = b]
  BY DEF WriteField
<1>8. b = [event |-> a.event, left |-> Tail(a.left), solo |-> a.solo]
  <2> DEFINE l == Tail(a.left)
             c == [a EXCEPT !.left = l]
  <2>1. b = c
    OBVIOUS
  <2> HIDE DEF a, l
  <2>2. c = [event |-> a.event, left |-> l, solo |-> a.solo]
    BY <1>1
  <2> HIDE DEF c, b
  <2> QED BY <2>1, <2>2 DEF l
<1>9. b \in Raising
  BY <1>1, <1>2, <1>8 DEF Raising
<1>10. a.event # NoAvEvent
  BY <1>1 DEF EventInv, RaisedInv
<1>11. IsRaised(a.event)
       /\ (a.solo = TRUE => /\ \A q \in Raisers \ {r} : raising[q].event = NoAvEvent
                            /\ \A f \in Fields : Needed(f, a.event) => ToldOrLeft(f, a))
  BY <1>10 DEF EventInv, RaisedInv
<1>12. b.event = a.event /\ b.left = Tail(a.left) /\ b.solo = a.solo
  BY <1>8
<1> HIDE DEF h, b
<1>13. raising' \in [Raisers -> Raising] /\ raising'[r] = b /\ \A q \in Raisers \ {r} : raising'[q] = raising[q]
  BY <1>7, <1>9 DEF EventInv, EventTypesOk
<1>14. EventTypesOk'
  BY <1>5, <1>13 DEF EventInv, EventTypesOk, WriteField
<1>15. RaisedInv(r)'
  <2>1. ASSUME NEW f \in Fields, Needed(f, a.event), a.solo = TRUE
        PROVE  curEvent'[f] = a.event[f] \/ \E i \in 1 .. Len(b.left) : b.left[i] = f
    <3>1. CASE f = h
      BY <1>6, <3>1
    <3>2. CASE f # h /\ curEvent[f] = a.event[f]
      BY <1>6, <3>2
    <3>3. CASE f # h /\ \E i \in 1 .. Len(a.left) : a.left[i] = f
      <4>1. PICK i \in 1 .. Len(a.left) : a.left[i] = f
        BY <3>3
      <4>2. i # 1
        BY <1>2, <3>3, <4>1
      <4>3. i - 1 \in 1 .. Len(Tail(a.left)) /\ (i - 1) + 1 = i
        BY <1>1, <1>2, <4>2
      <4>4. Tail(a.left)[i - 1] = f
        BY <1>2, <4>1, <4>3
      <4> QED BY <1>12, <4>3, <4>4
    <3> QED BY <1>11, <2>1, <3>1, <3>2, <3>3 DEF ToldOrLeft
  <2> QED BY <1>10, <1>11, <1>12, <1>13, <2>1 DEF RaisedInv, ToldOrLeft
<1>16. ASSUME NEW q \in Raisers \ {r} PROVE RaisedInv(q)'
  <2>1. CASE raising[q].event = NoAvEvent
    BY <1>13, <1>16, <2>1 DEF RaisedInv, EventInv
  <2>2. CASE raising[q].event # NoAvEvent
    <3>1. IsRaised(raising[q].event) /\ raising[q].solo # TRUE
      BY <1>10, <1>16, <2>2 DEF RaisedInv, EventInv
    <3> QED BY <1>13, <1>16, <2>2, <3>1 DEF RaisedInv
  <2> QED BY <2>1, <2>2
<1> QED BY <1>14, <1>15, <1>16 DEF EventInv, WriteField

LEMMA SendStep == ASSUME EventInv, NEW r \in Raisers, SendEvent(r) PROVE EventInv'
<1> DEFINE a == raising[r]
           m == [is |-> "av", event |-> curEvent, of |-> a.event, solo |-> a.solo]
<1>1. a.event \in AvEvents /\ a.solo \in BOOLEAN /\ a.left = <<>> /\ a.event # NoAvEvent /\ curEvent \in AvEvents
  BY DEF EventInv, EventTypesOk, Raising, SendEvent
<1>2. Len(a.left) = 0
  BY <1>1
<1>3. IsRaised(a.event) /\ (a.solo = TRUE => Carries(curEvent, a.event))
  BY <1>1, <1>2 DEF EventInv, RaisedInv, Carries, ToldOrLeft
<1>4. m \in Notes
  BY <1>1, <1>3 DEF Notes
<1> HIDE DEF m
<1>5. inbox' \in Seq(Notes)
  BY <1>4 DEF m, SendEvent, EventInv, EventTypesOk
<1>6. raising' = [raising EXCEPT ![r] = NotRaising] /\ NotRaising \in Raising /\ NotRaising.event = NoAvEvent
      /\ NotRaising.left = <<>>
  BY NoEventIs DEF SendEvent, NotRaising, Raising
<1>7. raising' \in [Raisers -> Raising] /\ raising'[r] = NotRaising /\ \A q \in Raisers \ {r} : raising'[q] = raising[q]
  BY <1>6 DEF EventInv, EventTypesOk
<1>8. EventTypesOk'
  BY <1>5, <1>7 DEF EventInv, EventTypesOk, SendEvent
<1>9. RaisedInv(r)'
  BY <1>6, <1>7 DEF RaisedInv
<1>10. ASSUME NEW q \in Raisers \ {r} PROVE RaisedInv(q)'
  <2>1. RaisedInv(q) /\ curEvent' = curEvent
    BY DEF EventInv, SendEvent
  <2>2. \A p \in Raisers : raising[p].event = NoAvEvent => raising'[p].event = NoAvEvent
    BY <1>6, <1>7
  <2> QED BY <1>7, <2>1, <2>2 DEF RaisedInv, ToldOrLeft
<1> QED BY <1>8, <1>9, <1>10 DEF EventInv, SendEvent

(* The clients are told the same of an event as of what it was raised with. *)
LEMMA SameTold == ASSUME NEW m \in Notes, m.solo = TRUE PROVE ToldOf(m.event) = ToldOf(m.of)
<1>1. m.event \in AvEvents /\ m.of \in AvEvents /\ Carries(m.event, m.of)
      /\ (IsRaised(m.of) \/ (m.of = NoAvEvent /\ m.event = NoAvEvent))
  BY DEF Notes
<1> DEFINE e == m.event
           o == m.of
<1>2. CASE o = NoAvEvent /\ e = NoAvEvent
  BY <1>2
<1>3. CASE IsRaised(o)
  <2>1. PICK type \in AvTypes, n \in Nat \ {0} : o = EventOf(type, n)
    BY <1>3 DEF IsRaised
  <2>2. e.type = o.type /\ o.type = type /\ e.param = o.param
    BY <1>1, <2>1 DEF Carries, Needed, Fields, EventOf
  <2>3. e = [type |-> e.type, status |-> e.status, param |-> e.param, param1 |-> e.param1]
        /\ o = [type |-> o.type, status |-> o.status, param |-> o.param, param1 |-> o.param1]
    BY <1>1 DEF AvEvents
  <2>4. type \in {"update", "audio_cb"} => e.status = o.status
    BY <1>1, <2>1 DEF Carries, Needed, Fields, EventOf
  <2>5. type = "audio_cb" => e.param1 = o.param1
    BY <1>1, <2>1 DEF Carries, Needed, Fields, EventOf
  <2> HIDE DEF e, o
  <2>6. ASSUME type \in {"resume", "scambled", "available"} PROVE ToldOf(e) = ToldOf(o)
    BY <2>2, <2>6 DEF ToldOf
  <2>7. ASSUME type = "update" PROVE ToldOf(e) = ToldOf(o)
    <3>1. [e EXCEPT !.param1 = 0] = [o EXCEPT !.param1 = 0]
      BY <2>2, <2>3, <2>4, <2>7
    <3> QED BY <2>2, <2>7, <3>1 DEF ToldOf
  <2>8. ASSUME type = "audio_cb" PROVE ToldOf(e) = ToldOf(o)
    <3>1. e = o
      BY <2>2, <2>3, <2>4, <2>5, <2>8
    <3> QED BY <3>1
  <2>9. ASSUME type \in {"stop", "unsupport"} PROVE ToldOf(e) = ToldOf(o)
    BY <2>2, <2>9 DEF ToldOf
  <2>10. ToldOf(e) = ToldOf(o)
    BY <2>6, <2>7, <2>8, <2>9 DEF AvTypes
  <2> QED BY <2>10 DEF e, o
<1> QED BY <1>1, <1>2, <1>3

LEMMA HandleStep == ASSUME EventInv, HandleEvent PROVE EventInv'
<1> DEFINE m == Head(inbox)
           tells == ToldOf(m.event)
<1>1. m \in Notes /\ m.solo \in BOOLEAN /\ inbox' \in Seq(Notes)
  <2>1. inbox \in Seq(Notes) /\ inbox # <<>> /\ inbox' = Tail(inbox)
    BY DEF HandleEvent, EventInv, EventTypesOk
  <2> QED BY <2>1, HeadTailProperties DEF Notes
<1>2. toldAv' = IF tells = NoAvEvent \/ ~m.solo THEN <<NoAvEvent, NoAvEvent>> ELSE <<tells, ToldOf(m.of)>>
  BY DEF HandleEvent
<1>3. toldAv'[1] = toldAv'[2]
  <2>1. CASE m.solo = TRUE
    <3>1. ToldOf(m.of) = tells
      BY <1>1, <2>1, SameTold
    <3> HIDE DEF tells, m
    <3> QED BY <1>2, <3>1
  <2>2. CASE m.solo = FALSE
    BY <1>2, <2>2
  <2> QED BY <1>1, <2>1, <2>2
<1>4. UNCHANGED <<raised, curEvent, raising>>
  BY DEF HandleEvent, eventVars
<1> QED BY <1>1, <1>3, <1>4 DEF EventInv, EventTypesOk, RaisedInv, ToldOrLeft

LEMMA EventNextInv == EventInv /\ [VideoNext]_videoVars => EventInv'
<1> SUFFICES ASSUME EventInv, [VideoNext]_videoVars PROVE EventInv'
  OBVIOUS
<1>1. ASSUME UNCHANGED <<eventVars, toldAv>>, inbox' \in Seq(Notes) PROVE EventInv'
  <2>1. UNCHANGED <<raised, curEvent, raising, toldAv>>
    BY <1>1 DEF eventVars
  <2> QED BY <1>1, <2>1 DEF EventInv, EventTypesOk, RaisedInv, ToldOrLeft
<1>2. inbox \in Seq(Notes)
  BY DEF EventInv, EventTypesOk
<1>3. CASE \E t \in Actors : LayerStep(t)
  BY <1>1, <1>2, <1>3 DEF LayerStep
<1>4. CASE StartTv \/ StopTv \/ ScanLayer \/ SetFrontEndLayer \/ SetEdidLayer \/ SigToUnstable \/ SigLost \/ FeNoSignal
  BY <1>1, <1>2, <1>4 DEF StartTv, StopTv, ScanLayer, SetFrontEndLayer, SetEdidLayer, SigToUnstable, SigLost, FeNoSignal, Called
<1>5. CASE \E source \in {"dtv", "tv", "hdmi"} : SwitchTo(source)
  BY <1>1, <1>2, <1>5 DEF SwitchTo, Called
<1>6. CASE SigStillStable
  <2> DEFINE m == [is |-> "later", event |-> NoAvEvent, of |-> NoAvEvent, solo |-> TRUE]
  <2>1. m \in Notes
    BY NoEventIs DEF Notes, Carries
  <2>2. inbox' = Append(inbox, m)
    BY <1>6 DEF SigStillStable
  <2> HIDE DEF m
  <2>3. inbox' \in Seq(Notes)
    BY <1>2, <2>1, <2>2
  <2> QED BY <1>1, <1>6, <2>3 DEF SigStillStable, Called
<1>7. CASE \E r \in Raisers : Raise(r) \/ WriteField(r) \/ SendEvent(r)
  BY <1>7, RaiseStep, WriteStep, SendStep
<1>8. CASE HandleEvent
  BY <1>8, HandleStep
<1>9. CASE EnableVideoLater
  <2>1. inbox # <<>> /\ inbox' = Tail(inbox)
    BY <1>9 DEF EnableVideoLater
  <2> QED BY <1>1, <1>2, <1>9, <2>1, HeadTailProperties DEF EnableVideoLater
<1>10. CASE UNCHANGED videoVars
  BY <1>1, <1>2, <1>10 DEF videoVars
<1> QED BY <1>3, <1>4, <1>5, <1>6, <1>7, <1>8, <1>9, <1>10 DEF VideoNext

LEMMA InvEvents == EventInv => EventsWhole
<1> SUFFICES ASSUME EventInv PROVE EventsWhole
  OBVIOUS
<1>1. ASSUME NEW i \in DOMAIN inbox, inbox[i].solo
      PROVE  /\ inbox[i].event.type = inbox[i].of.type
             /\ \A f \in {"param", "status", "param1"} : inbox[i].of[f] # 0 => inbox[i].event[f] = inbox[i].of[f]
  <2>1. inbox[i] \in Notes
    BY DEF EventInv, EventTypesOk
  <2>2. Carries(inbox[i].event, inbox[i].of)
    BY <1>1, <2>1 DEF Notes
  <2> QED BY <2>2 DEF Carries, Needed, Fields
<1> QED BY <1>1 DEF EventsWhole, EventInv

(* Whatever the library's two threads raise and in whatever order their writes to mCurAvEvent    *)
(* meet, an event raised while the other thread raised none reaches its handler, and the clients, *)
(* with the fields it was raised with (CAv::av_evt_callback, av_audio_callback, CTv::onEvent).    *)
THEOREM EventsArriveWhole == VideoSpec => []EventsWhole
BY EventInitInv, EventNextInv, InvEvents, PTL DEF VideoSpec

-----------------------------------------------------------------------------
(* The program database: whatever a fall leaves is either mended by the    *)
(* next start or remembered as a scar.                                     *)

DbPcs == {"down", "tables", "clear", "clear list", "empty", "begin", "insert", "flag", "dims",
          "filling", "up", "again"}
IsFile(d) == d = [file |-> d.file, tables |-> d.tables, rows |-> d.rows, dims |-> d.dims]
DbTypeOK ==
  /\ IsFile(db) /\ dbPc \in DbPcs /\ back \in {"flag", "dims", "again"}
  /\ dbPc = "again" => back = "again"
  /\ IF dbPc = "insert" THEN rollback = <<rollback[1]>> /\ IsFile(rollback[1]) ELSE rollback = NoTxn

\* Tables are there, or known to be missing; a start that trusts the flag finds as much.
NoTables == "no tables" \in scars
TablesInv ==
  /\ dbPc \notin {"down", "tables"} => db.tables \/ NoTables
  /\ dbPc = "down" /\ db.file /\ created => db.tables \/ NoTables
  /\ dbPc = "insert" => rollback[1].tables = db.tables /\ rollback[1].file = db.file

\* Outside of an import the list is empty or whole, and past it, whole.
FirstRows(rows, n) == Len(rows) = n /\ \A i \in 1 .. n : rows[i] = ShippedRows[i]
RowsInv ==
  /\ ~db.tables => db.rows = <<>>
  /\ dbPc # "insert" => db.rows \in {<<>>, ShippedRows}
  /\ dbPc = "begin" => db.rows = <<>>
  /\ dbPc = "insert" => /\ rollback[1].rows = <<>> /\ nextRow \in 1 .. Len(ShippedRows) + 1
                         /\ db.rows \in Seq(Rows) /\ (db.tables => FirstRows(db.rows, nextRow - 1))
  /\ dbPc \in {"flag", "dims", "filling", "up", "again"} /\ db.tables => db.rows = ShippedRows

\* The dimensions are all there or none, but while they are made and where a scar tells of it.
Short == "cut" \in scars \/ "cleaned" \in scars
DimsInv ==
  /\ dbPc # "filling" => db.dims = 0 \/ db.dims = Dims \/ Short
  /\ dbPc = "insert" => rollback[1].dims = 0 \/ rollback[1].dims = Dims \/ Short
  /\ Serving => db.dims = Dims \/ Short \/ NoTables
CountInv ==
  /\ db.dims \in 0 .. Dims /\ (dbPc = "filling" => db.dims # Dims)
  /\ dbPc = "insert" => rollback[1].dims \in 0 .. Dims

\* What the scan s may be given.
ScanGets(channels, s) ==
  {c.freq : c \in channels} =
    {r.freq : r \in IF Answer(Shipped, s) = {} /\ s.imports THEN RowsNamed(Shipped, s.name) ELSE Answer(Shipped, s)}

\* A scan that imports found nothing of its list among the shipped rows.
WantedInv ==
  /\ wanted # NotAsked => Serving
  /\ Serving /\ dbPc # "up" /\ ~NoTables => Answer(Shipped, wanted) = {} /\ wanted.imports
  /\ dbPc = "up" /\ wanted # NotAsked /\ ~NoTables => ScanGets(tried, wanted)

DbInv == DbTypeOK /\ TablesInv /\ RowsInv /\ DimsInv /\ CountInv /\ WantedInv

LEMMA DbInitInv == DbInit => DbInv
<1> SUFFICES ASSUME DbInit PROVE DbInv
  OBVIOUS
<1> USE ProgramDbAssumption DEF DbInit, NoDatabase
<1>1. DbTypeOK
  BY DEF DbTypeOK, IsFile, DbPcs, NoTxn
<1>2. TablesInv
  BY DEF TablesInv
<1>3. RowsInv
  BY DEF RowsInv
<1>4. DimsInv /\ CountInv
  BY DEF DimsInv, CountInv, Serving
<1>5. WantedInv
  BY DEF WantedInv, Serving
<1> QED BY <1>1, <1>2, <1>3, <1>4, <1>5 DEF DbInv


\* What the file becomes, field by field.
Becomes(file, tables, rows, dims) ==
  db'.file = file /\ db'.tables = tables /\ db'.rows = rows /\ db'.dims = dims

LEMMA FileBecomes ==
  ASSUME IsFile(db)
  PROVE  /\ MakeFile => Becomes(TRUE, db.tables, db.rows, db.dims)
         /\ CreateTables => Becomes(db.file, TRUE, db.rows, db.dims) \/ (~db.tables /\ db' = db)
         /\ ClearDimensions \/ CleanAll => Becomes(db.file, db.tables, db.rows, 0)
         /\ ClearList \/ EmptyList => Becomes(db.file, db.tables, <<>>, db.dims)
         /\ InsertDimension => Becomes(db.file, db.tables, db.rows, db.dims + 1)
         /\ InsertRow => \/ db.tables /\ Becomes(db.file, db.tables, Append(db.rows, ShippedRows[nextRow]), db.dims)
                         \/ ~db.tables /\ db' = db
         /\ ServerDown => db' = IF rollback = NoTxn THEN db ELSE rollback[1]
<1> USE DEF IsFile, Becomes
<1>1. MakeFile => Becomes(TRUE, db.tables, db.rows, db.dims)
  BY DEF MakeFile
<1>2. CreateTables => Becomes(db.file, TRUE, db.rows, db.dims) \/ (~db.tables /\ db' = db)
  BY DEF CreateTables
<1>3. ClearDimensions \/ CleanAll => Becomes(db.file, db.tables, db.rows, 0)
  BY DEF ClearDimensions, CleanAll
<1>4. ClearList \/ EmptyList => Becomes(db.file, db.tables, <<>>, db.dims)
  BY DEF ClearList, EmptyList
<1>5. InsertDimension => Becomes(db.file, db.tables, db.rows, db.dims + 1)
  BY DEF InsertDimension
<1>6. InsertRow => \/ db.tables /\ Becomes(db.file, db.tables, Append(db.rows, ShippedRows[nextRow]), db.dims)
                   \/ ~db.tables /\ db' = db
  BY DEF InsertRow
<1>7. ServerDown => db' = IF rollback = NoTxn THEN db ELSE rollback[1]
  BY DEF ServerDown
<1> QED BY <1>1, <1>2, <1>3, <1>4, <1>5, <1>6, <1>7

\* Each part 

LEMMA CountIs == CountInv => (db.dims = 0 \/ db.dims > 0) /\ 0 \in 0 .. Dims
  BY ProgramDbAssumption DEF CountInv

LEMMA FellInImport ==
  ASSUME rollback = <<rollback[1]>>, ServerDown PROVE db' = rollback[1]
<1>1. PICK x : x = rollback[1]
  OBVIOUS
<1>2. <<x>> # <<>>
  OBVIOUS
<1>3. rollback # NoTxn
  BY <1>1, <1>2 DEF NoTxn
<1> QED BY <1>3 DEF ServerDown

\* The rows inserted so far, one more, all of them.
LEMMA OneRowMore ==
  ASSUME NEW S, NEW all \in Seq(S), NEW rows \in Seq(S), NEW n \in 1 .. Len(all), Len(rows) = n - 1,
         \A i \in 1 .. n - 1 : rows[i] = all[i]
  PROVE  /\ Append(rows, all[n]) \in Seq(S) /\ Len(Append(rows, all[n])) = n
         /\ \A i \in 1 .. n : Append(rows, all[n])[i] = all[i]
<1>1. all[n] \in S
  OBVIOUS
<1> QED BY <1>1, AppendProperties

LEMMA AllRows ==
  ASSUME NEW rows \in Seq(Rows), FirstRows(rows, Len(ShippedRows)) PROVE rows = ShippedRows
  BY SeqEqual, ProgramDbAssumption DEF FirstRows

LEMMA InsertKeeps ==
  ASSUME DbInv, InsertRow
  PROVE  /\ nextRow' \in 1 .. Len(ShippedRows) + 1 /\ db'.rows \in Seq(Rows)
         /\ db.tables => FirstRows(db'.rows, nextRow' - 1)
<1> DEFINE n == nextRow  rows == db.rows
<1>1. dbPc = "insert" /\ n <= Len(ShippedRows) /\ nextRow' = n + 1
  BY DEF InsertRow
<1>2. n \in 1 .. Len(ShippedRows) + 1 /\ rows \in Seq(Rows) /\ Len(ShippedRows) \in Nat
  BY <1>1, ProgramDbAssumption DEF DbInv, RowsInv
<1>3. nextRow' \in 1 .. Len(ShippedRows) + 1
  BY <1>1, <1>2
<1>4. CASE db.tables
  <2>1. db'.rows = Append(rows, ShippedRows[n])
    BY <1>4, FileBecomes DEF DbInv, DbTypeOK, Becomes
  <2>2. FirstRows(rows, n - 1)
    BY <1>1, <1>4 DEF DbInv, RowsInv
  <2>3. Len(rows) = n - 1 /\ \A i \in 1 .. n - 1 : rows[i] = ShippedRows[i]
    BY <2>2 DEF FirstRows
  <2> HIDE DEF rows, n
  <2>4. n \in 1 .. Len(ShippedRows)
    BY <1>1, <1>2
  <2>5. PICK more : more = Append(rows, ShippedRows[n])
    OBVIOUS
  <2>6. /\ more \in Seq(Rows) /\ Len(more) = n
        /\ \A i \in 1 .. n : more[i] = ShippedRows[i]
    BY <1>2, <2>3, <2>4, <2>5, OneRowMore, ProgramDbAssumption
  <2>7. FirstRows(more, nextRow' - 1)
    BY <1>1, <1>2, <2>6 DEF FirstRows
  <2> QED BY <1>3, <2>1, <2>5, <2>6, <2>7
<1>5. CASE ~db.tables
  BY <1>2, <1>3, <1>5, FileBecomes DEF DbInv, DbTypeOK
<1> QED BY <1>4, <1>5

\* Each channel of a scan has its row's frequency.
LEMMA FreqsKept ==
  ASSUME NEW rows, NEW s PROVE {c.freq : c \in Channels(rows, s)} = {r.freq : r \in rows}
<1>1. \A r \in rows : ChannelOf(r, s.base).freq = r.freq /\ ChannelOf(r, s.base) \in Channels(rows, s)
  BY DEF ChannelOf, Channels
<1>2. \A c \in OnAirToo(rows) : \E r \in rows : c.freq = r.freq
  BY DEF OnAirToo
<1>3. \A c \in Channels(rows, s) : (\E r \in rows : c = ChannelOf(r, s.base)) \/ c \in OnAirToo(rows)
  BY DEF Channels
<1> QED BY <1>1, <1>2, <1>3

\* Past an import the database has what was shipped.
LEMMA RowsNowAre == DbInv /\ dbPc \in {"up", "again"} /\ ~NoTables => RowsNow = Shipped
<1> SUFFICES ASSUME DbInv, dbPc \in {"up", "again"}, ~NoTables PROVE db.rows = ShippedRows
  BY DEF RowsNow, Shipped
<1>1. db.tables
  BY DEF DbInv, TablesInv
<1> QED BY <1>1 DEF DbInv, RowsInv

LEMMA AskKeeps ==
  ASSUME DbInv, NEW base, NEW atsc, NEW range, NEW air, NEW general,
         AskChannels(base, atsc, range, air, general)
  PROVE  /\ Serving'
         /\ ~NoTables' /\ dbPc' = "up" => ScanGets(tried', wanted')
         /\ ~NoTables' /\ dbPc' # "up" => Answer(Shipped, wanted') = {} /\ wanted'.imports
<1> DEFINE s == [base |-> base, name |-> ListName(base, atsc), range |-> range, air |-> air,
                 imports |-> base = "ANALOG" \/ general]
<1> DEFINE rows == Answer(RowsNow, s)
<1>1. /\ dbPc = "up" /\ wanted' = s /\ tried' = Channels(rows, s) /\ scars' = scars
      /\ IF rows = {} /\ s.imports THEN dbPc' = "empty" /\ back' = "again" ELSE dbPc' = "up"
  BY DEF AskChannels
<1>2. ASSUME ~NoTables PROVE rows = Answer(Shipped, s)
  BY <1>1, <1>2, RowsNowAre
<1> HIDE DEF rows, s
<1>3. Serving'
  BY <1>1 DEF Serving
<1>4. NoTables' <=> NoTables
  BY <1>1 DEF NoTables
<1>5. ASSUME ~NoTables, rows = {} /\ s.imports
      PROVE  dbPc' # "up" /\ Answer(Shipped, wanted') = {} /\ wanted'.imports
  BY <1>1, <1>2, <1>5
<1>6. ASSUME ~NoTables, ~(rows = {} /\ s.imports) PROVE dbPc' = "up" /\ ScanGets(tried', wanted')
  <2>1. rows = Answer(Shipped, s) /\ dbPc' = "up"
    BY <1>1, <1>2, <1>6
  <2>2. {c.freq : c \in Channels(rows, s)} = {r.freq : r \in rows}
    BY FreqsKept
  <2>3. ScanGets(Channels(rows, s), s)
    BY <1>6, <2>1, <2>2 DEF ScanGets
  <2> QED BY <1>1, <2>1, <2>3
<1> QED BY <1>3, <1>4, <1>5, <1>6

LEMMA AgainKeeps ==
  ASSUME DbInv, AskAgain PROVE ~NoTables' => ScanGets(tried', wanted')
<1> DEFINE named == RowsNamed(RowsNow, wanted.name)
<1>1. dbPc = "again" /\ back = "again" /\ wanted' = wanted /\ scars' = scars /\ tried' = Channels(named, wanted)
  BY DEF AskAgain, DbInv, DbTypeOK
<1> SUFFICES ASSUME ~NoTables PROVE ScanGets(tried', wanted')
  BY <1>1 DEF NoTables
<1>2. named = RowsNamed(Shipped, wanted.name)
  BY <1>1, RowsNowAre
<1>3. Answer(Shipped, wanted) = {} /\ wanted.imports
  BY <1>1 DEF DbInv, WantedInv, Serving
<1> HIDE DEF named
<1>4. {c.freq : c \in Channels(named, wanted)} = {r.freq : r \in named}
  BY FreqsKept
<1>5. ScanGets(Channels(named, wanted), wanted)
  BY <1>2, <1>3, <1>4 DEF ScanGets
<1> QED BY <1>1, <1>5

\* Each part of the invariant is kept by every action.
\* Types.
LEMMA DbTypeKept == DbInv /\ [DbNext]_dbVars => DbTypeOK'
<1> SUFFICES ASSUME DbInv, [DbNext]_dbVars PROVE DbTypeOK'
  OBVIOUS
<1> USE ProgramDbAssumption DEF DbInv, DbTypeOK, DbPcs, IsFile
<1>1. CASE OpenFile
  BY <1>1 DEF OpenFile, OpensDb, ListEmpty
<1>2. CASE Unlink
  BY <1>2 DEF Unlink, OpensDb, NoDatabase
<1>3. CASE MakeFile
  BY <1>3 DEF MakeFile
<1>4. CASE CreateTables
  BY <1>4 DEF CreateTables
<1>5. CASE ClearDimensions
  BY <1>5 DEF ClearDimensions
<1>6. CASE ClearList
  BY <1>6 DEF ClearList
<1>7. CASE SetFlag
  BY <1>7 DEF SetFlag
<1>8. CASE Dimensions
  BY <1>8 DEF Dimensions
<1>9. CASE InsertDimension
  BY <1>9 DEF InsertDimension
<1>10. CASE EmptyList
  BY <1>10 DEF EmptyList
<1>11. CASE BeginImport
  BY <1>11 DEF BeginImport
<1>12. CASE InsertRow
  BY <1>12 DEF InsertRow
<1>13. CASE CommitRows
  BY <1>13 DEF CommitRows, NoTxn
<1>14. CASE AskAgain
  BY <1>14 DEF AskAgain
<1>15. ASSUME NEW base, NEW atsc, NEW range, NEW air, NEW general,
              AskChannels(base, atsc, range, air, general)
       PROVE  DbTypeOK'
  BY <1>15 DEF AskChannels
<1>16. ASSUME NEW c, setTvCountry(c) PROVE DbTypeOK'
  BY <1>16 DEF setTvCountry, Serving
<1>17. CASE CleanAll
  BY <1>17 DEF CleanAll, Serving
<1>18. CASE ServerDown
  BY <1>18 DEF ServerDown, NoTxn
<1>19. CASE UNCHANGED dbVars
  BY <1>19 DEF dbVars, Serving, ScanIsListed
<1> QED
  BY <1>1, <1>2, <1>3, <1>4, <1>5, <1>6, <1>7, <1>8, <1>9, <1>10, <1>11, <1>12, <1>13, <1>14, <1>15, <1>16, <1>17, <1>18, <1>19
     DEF DbNext

\* A start without tables is remembered.
LEMMA TablesKept == DbInv /\ [DbNext]_dbVars => TablesInv'
<1> SUFFICES ASSUME DbInv, [DbNext]_dbVars PROVE TablesInv'
  OBVIOUS
<1> USE ProgramDbAssumption DEF DbInv, DbTypeOK, TablesInv, NoTables
<1>1. CASE OpenFile
  BY <1>1 DEF OpenFile, OpensDb, ListEmpty
<1>2. CASE Unlink
  BY <1>2 DEF Unlink, OpensDb, NoDatabase
<1>3. CASE MakeFile
  BY <1>3, FileBecomes DEF MakeFile, Becomes
<1>4. CASE CreateTables
  <2>1. dbPc' = "clear"
    BY <1>4 DEF CreateTables
  <2>2. db'.tables \/ NoTables'
    <3>1. CASE db' = [db EXCEPT !.tables = TRUE]
      <4>1. db'.tables = TRUE
        BY <3>1 DEF IsFile
      <4> QED BY <4>1
    <3>2. CASE scars' = scars \cup {"no tables"}
      BY <3>2
    <3> QED BY <1>4, <3>1, <3>2 DEF CreateTables
  <2> QED BY <2>1, <2>2
<1>5. CASE ClearDimensions
  BY <1>5, FileBecomes DEF ClearDimensions, Becomes
<1>6. CASE ClearList
  BY <1>6, FileBecomes DEF ClearList, Becomes
<1>7. CASE SetFlag
  BY <1>7 DEF SetFlag
<1>8. CASE Dimensions
  BY <1>8 DEF Dimensions
<1>9. CASE InsertDimension
  BY <1>9, FileBecomes DEF InsertDimension, Becomes
<1>10. CASE EmptyList
  BY <1>10, FileBecomes DEF EmptyList, Becomes
<1>11. CASE BeginImport
  BY <1>11 DEF BeginImport
<1>12. CASE InsertRow
  BY <1>12, FileBecomes DEF InsertRow, Becomes
<1>13. CASE CommitRows
  BY <1>13 DEF CommitRows, NoTxn
<1>14. CASE AskAgain
  BY <1>14 DEF AskAgain
<1>15. ASSUME NEW base, NEW atsc, NEW range, NEW air, NEW general,
              AskChannels(base, atsc, range, air, general)
       PROVE  TablesInv'
  BY <1>15 DEF AskChannels
<1>16. ASSUME NEW c, setTvCountry(c) PROVE TablesInv'
  BY <1>16 DEF setTvCountry, Serving
<1>17. CASE CleanAll
  BY <1>17, FileBecomes DEF CleanAll, Serving, Becomes
<1>18. CASE ServerDown
  <2>1. dbPc' = "down" /\ (created' => created) /\ NoTables => NoTables'
    BY <1>18 DEF ServerDown
  <2>2. db'.file = db.file /\ db'.tables = db.tables
    BY <1>18, FileBecomes DEF NoTxn
  <2>3. dbPc' = "down"
    BY <1>18 DEF ServerDown
  <2>4. created' => created
    BY <1>18 DEF ServerDown
  <2>5. CASE dbPc = "tables"
    <3>1. db.file /\ ~db.tables /\ created => NoTables'
      BY <1>18, <2>5 DEF ServerDown
    <3> QED BY <2>2, <2>3, <2>4, <3>1
  <2>6. CASE dbPc # "tables"
    <3>1. db.tables \/ NoTables
      BY <1>18, <2>6 DEF ServerDown
    <3>2. NoTables => NoTables'
      BY <1>18 DEF ServerDown
    <3> QED BY <2>2, <2>3, <3>1, <3>2
  <2> QED BY <2>5, <2>6
<1>19. CASE UNCHANGED dbVars
  BY <1>19 DEF dbVars, Serving, ScanIsListed
<1> QED
  BY <1>1, <1>2, <1>3, <1>4, <1>5, <1>6, <1>7, <1>8, <1>9, <1>10, <1>11, <1>12, <1>13, <1>14, <1>15, <1>16, <1>17, <1>18, <1>19
     DEF DbNext

\* The dimensions are counted to the last.
LEMMA CountKept == DbInv /\ [DbNext]_dbVars => CountInv'
<1> SUFFICES ASSUME DbInv, [DbNext]_dbVars PROVE CountInv'
  OBVIOUS
<1> USE ProgramDbAssumption DEF DbInv, DbTypeOK, CountInv
<1>1. CASE OpenFile
  BY <1>1 DEF OpenFile, OpensDb, ListEmpty
<1>2. CASE Unlink
  BY <1>2 DEF Unlink, OpensDb, NoDatabase
<1>3. CASE MakeFile
  BY <1>3, FileBecomes DEF MakeFile, Becomes
<1>4. CASE CreateTables
  BY <1>4, FileBecomes DEF CreateTables, Becomes
<1>5. CASE ClearDimensions
  <2>1. db'.dims = 0 /\ dbPc' = "clear list"
    BY <1>5, FileBecomes DEF ClearDimensions, Becomes
  <2> QED BY <2>1, CountIs
<1>6. CASE ClearList
  BY <1>6, FileBecomes DEF ClearList, Becomes
<1>7. CASE SetFlag
  BY <1>7 DEF SetFlag
<1>8. CASE Dimensions
  BY <1>8 DEF Dimensions
<1>9. CASE InsertDimension
  BY <1>9, FileBecomes DEF InsertDimension, Becomes
<1>10. CASE EmptyList
  BY <1>10, FileBecomes DEF EmptyList, Becomes
<1>11. CASE BeginImport
  BY <1>11 DEF BeginImport
<1>12. CASE InsertRow
  BY <1>12, FileBecomes DEF InsertRow, Becomes
<1>13. CASE CommitRows
  BY <1>13 DEF CommitRows, NoTxn
<1>14. CASE AskAgain
  BY <1>14 DEF AskAgain
<1>15. ASSUME NEW base, NEW atsc, NEW range, NEW air, NEW general,
              AskChannels(base, atsc, range, air, general)
       PROVE  CountInv'
  BY <1>15 DEF AskChannels
<1>16. ASSUME NEW c, setTvCountry(c) PROVE CountInv'
  BY <1>16 DEF setTvCountry, Serving
<1>17. CASE CleanAll
  BY <1>17, FileBecomes DEF CleanAll, Serving, Becomes
<1>18. CASE ServerDown
  BY <1>18, FileBecomes DEF ServerDown, NoTxn, Becomes
<1>19. CASE UNCHANGED dbVars
  BY <1>19 DEF dbVars, Serving, ScanIsListed
<1> QED
  BY <1>1, <1>2, <1>3, <1>4, <1>5, <1>6, <1>7, <1>8, <1>9, <1>10, <1>11, <1>12, <1>13, <1>14, <1>15, <1>16, <1>17, <1>18, <1>19
     DEF DbNext

\* Dimensions cut short are remembered.
LEMMA DimsKept == DbInv /\ [DbNext]_dbVars => DimsInv'
<1> SUFFICES ASSUME DbInv, [DbNext]_dbVars PROVE DimsInv'
  OBVIOUS
<1> USE ProgramDbAssumption DEF DbInv, DbTypeOK, DimsInv, Short, Serving, NoTables
<1>1. CASE OpenFile
  BY <1>1 DEF OpenFile, OpensDb, ListEmpty
<1>2. CASE Unlink
  BY <1>2 DEF Unlink, OpensDb, NoDatabase
<1>3. CASE MakeFile
  BY <1>3, FileBecomes DEF MakeFile, Becomes
<1>4. CASE CreateTables
  BY <1>4, FileBecomes DEF CreateTables, Becomes
<1>5. CASE ClearDimensions
  BY <1>5, FileBecomes DEF ClearDimensions, Becomes
<1>6. CASE ClearList
  BY <1>6, FileBecomes DEF ClearList, Becomes
<1>7. CASE SetFlag
  BY <1>7 DEF SetFlag
<1>8. CASE Dimensions
  <2>1. db' = db /\ scars' = scars /\ back' = back /\ dbPc = "dims"
    BY <1>8 DEF Dimensions
  <2>2. CASE dbPc' = "filling"
    BY <2>1, <2>2
  <2>3. CASE dbPc' = "up"
    <3>1. db.dims # 0 \/ ~db.tables
      BY <1>8, <2>3 DEF Dimensions, CountInv
    <3>2. db.tables \/ NoTables
      BY <2>1 DEF TablesInv
    <3> QED BY <2>1, <2>3, <3>1, <3>2
  <2> QED BY <1>8, <2>2, <2>3 DEF Dimensions
<1>9. CASE InsertDimension
  BY <1>9, FileBecomes DEF InsertDimension, Becomes
<1>10. CASE EmptyList
  BY <1>10, FileBecomes DEF EmptyList, Becomes
<1>11. CASE BeginImport
  BY <1>11 DEF BeginImport
<1>12. CASE InsertRow
  BY <1>12, FileBecomes DEF InsertRow, Becomes
<1>13. CASE CommitRows
  BY <1>13 DEF CommitRows, NoTxn
<1>14. CASE AskAgain
  BY <1>14 DEF AskAgain
<1>15. ASSUME NEW base, NEW atsc, NEW range, NEW air, NEW general,
              AskChannels(base, atsc, range, air, general)
       PROVE  DimsInv'
  BY <1>15 DEF AskChannels
<1>16. ASSUME NEW c, setTvCountry(c) PROVE DimsInv'
  BY <1>16 DEF setTvCountry, Serving
<1>17. CASE CleanAll
  BY <1>17, FileBecomes DEF CleanAll, Serving, Becomes
<1>18. CASE ServerDown
  <2>1. dbPc' = "down" /\ (Short => Short')
    BY <1>18 DEF ServerDown
  <2>2. CASE dbPc = "insert"
    <3>1. db' = rollback[1]
      BY <1>18, <2>2, FellInImport
    <3> QED BY <2>1, <2>2, <3>1
  <2>3. CASE dbPc # "insert"
    <3>1. db' = db
      BY <1>18, <2>3, FileBecomes
    <3>2. CASE dbPc = "filling"
      <4>1. db.dims > 0 => Short'
        BY <1>18, <3>2 DEF ServerDown
      <4> QED BY <2>1, <3>1, <4>1, CountIs
    <3>3. CASE dbPc # "filling"
      BY <2>1, <3>1, <3>3
    <3> QED BY <3>2, <3>3
  <2> QED BY <2>2, <2>3
<1>19. CASE UNCHANGED dbVars
  BY <1>19 DEF dbVars, Serving, ScanIsListed
<1> QED
  BY <1>1, <1>2, <1>3, <1>4, <1>5, <1>6, <1>7, <1>8, <1>9, <1>10, <1>11, <1>12, <1>13, <1>14, <1>15, <1>16, <1>17, <1>18, <1>19
     DEF DbNext

\* The list is empty or whole.
LEMMA RowsKept == DbInv /\ [DbNext]_dbVars => RowsInv'
<1> SUFFICES ASSUME DbInv, [DbNext]_dbVars PROVE RowsInv'
  OBVIOUS
<1> USE ProgramDbAssumption DEF DbInv, DbTypeOK, RowsInv
<1>1. CASE OpenFile
  BY <1>1 DEF OpenFile, ListEmpty
<1>2. CASE Unlink
  BY <1>2 DEF Unlink, OpensDb, NoDatabase
<1>3. CASE MakeFile
  BY <1>3, FileBecomes DEF MakeFile, Becomes
<1>4. CASE CreateTables
  BY <1>4, FileBecomes DEF CreateTables, Becomes
<1>5. CASE ClearDimensions
  BY <1>5, FileBecomes DEF ClearDimensions, Becomes
<1>6. CASE ClearList
  BY <1>6, FileBecomes DEF ClearList, Becomes
<1>7. CASE SetFlag
  BY <1>7 DEF SetFlag
<1>8. CASE Dimensions
  BY <1>8 DEF Dimensions
<1>9. CASE InsertDimension
  BY <1>9, FileBecomes DEF InsertDimension, Becomes
<1>10. CASE EmptyList
  BY <1>10, FileBecomes DEF EmptyList, Becomes
<1>11. CASE BeginImport
  <2>1. dbPc = "begin" /\ dbPc' = "insert" /\ nextRow' = 1 /\ db' = db /\ rollback' = <<db>>
    BY <1>11 DEF BeginImport
  <2>2. db.rows = <<>> /\ rollback'[1] = db
    BY <2>1
  <2>3. <<>> \in Seq(Rows) /\ FirstRows(<<>>, 0) /\ 1 \in 1 .. Len(ShippedRows) + 1 /\ 1 - 1 = 0
    BY ProgramDbAssumption DEF FirstRows
  <2> QED BY <2>1, <2>2, <2>3
<1>12. CASE InsertRow
  <2>1. dbPc' = "insert" /\ db'.tables = db.tables /\ rollback' = rollback /\ dbPc = "insert"
    BY <1>12, FileBecomes DEF InsertRow, Becomes
  <2>2. ~db.tables => db'.rows = <<>>
    BY <1>12, FileBecomes
  <2>3. /\ nextRow' \in 1 .. Len(ShippedRows) + 1 /\ db'.rows \in Seq(Rows)
        /\ db.tables => FirstRows(db'.rows, nextRow' - 1)
    BY <1>12, InsertKeeps
  <2> QED BY <2>1, <2>2, <2>3
<1>13. CASE CommitRows
  <2>1. dbPc = "insert" /\ db' = db /\ dbPc' \in {"flag", "dims", "again"}
    BY <1>13 DEF CommitRows
  <2>2. db.tables => db.rows = ShippedRows
    <3> SUFFICES ASSUME db.tables PROVE db.rows = ShippedRows
      OBVIOUS
    <3>1. nextRow - 1 = Len(ShippedRows)
      BY <1>13, <2>1 DEF CommitRows
    <3>2. FirstRows(db.rows, Len(ShippedRows))
      BY <2>1, <3>1
    <3> QED BY <2>1, <3>2, AllRows
  <2> QED BY <2>1, <2>2
<1>14. CASE AskAgain
  BY <1>14 DEF AskAgain
<1>15. ASSUME NEW base, NEW atsc, NEW range, NEW air, NEW general,
              AskChannels(base, atsc, range, air, general)
       PROVE  RowsInv'
  BY <1>15 DEF AskChannels
<1>16. ASSUME NEW c, setTvCountry(c) PROVE RowsInv'
  BY <1>16 DEF setTvCountry, Serving
<1>17. CASE CleanAll
  BY <1>17, FileBecomes DEF CleanAll, Serving, Becomes
<1>18. CASE ServerDown
  <2>1. dbPc' = "down"
    BY <1>18 DEF ServerDown
  <2>2. CASE dbPc = "insert"
    <3>1. db' = rollback[1]
      BY <1>18, <2>2, FellInImport
    <3> QED BY <2>1, <2>2, <3>1
  <2>3. CASE dbPc # "insert"
    <3>1. db' = db
      BY <1>18, <2>3, FileBecomes
    <3> QED BY <2>1, <2>3, <3>1
  <2> QED BY <2>2, <2>3
<1>19. CASE UNCHANGED dbVars
  BY <1>19 DEF dbVars, Serving, ScanIsListed
<1> QED
  BY <1>1, <1>2, <1>3, <1>4, <1>5, <1>6, <1>7, <1>8, <1>9, <1>10, <1>11, <1>12, <1>13, <1>14, <1>15, <1>16, <1>17, <1>18, <1>19
     DEF DbNext

\* Scans are given what the list has.
LEMMA WantedKept == DbInv /\ [DbNext]_dbVars => WantedInv'
<1> SUFFICES ASSUME DbInv, [DbNext]_dbVars PROVE WantedInv'
  OBVIOUS
<1> USE ProgramDbAssumption DEF DbInv, DbTypeOK, WantedInv, Serving, NoTables
<1>1. CASE OpenFile
  BY <1>1 DEF OpenFile, OpensDb, ListEmpty
<1>2. CASE Unlink
  BY <1>2 DEF Unlink, OpensDb, NoDatabase
<1>3. CASE MakeFile
  BY <1>3 DEF MakeFile
<1>4. CASE CreateTables
  BY <1>4 DEF CreateTables
<1>5. CASE ClearDimensions
  BY <1>5 DEF ClearDimensions
<1>6. CASE ClearList
  BY <1>6 DEF ClearList
<1>7. CASE SetFlag
  BY <1>7 DEF SetFlag
<1>8. CASE Dimensions
  BY <1>8 DEF Dimensions
<1>9. CASE InsertDimension
  BY <1>9 DEF InsertDimension
<1>10. CASE EmptyList
  BY <1>10 DEF EmptyList
<1>11. CASE BeginImport
  BY <1>11 DEF BeginImport
<1>12. CASE InsertRow
  BY <1>12 DEF InsertRow
<1>13. CASE CommitRows
  BY <1>13 DEF CommitRows, NoTxn
<1>14. CASE AskAgain
  <2>1. dbPc' = "up"
    BY <1>14 DEF AskAgain
  <2>2. ~NoTables' => ScanGets(tried', wanted')
    BY <1>14, AgainKeeps
  <2> QED BY <2>1, <2>2 DEF Serving
<1>15. ASSUME NEW base, NEW atsc, NEW range, NEW air, NEW general,
              AskChannels(base, atsc, range, air, general)
       PROVE  WantedInv'
  <2>1. Serving' /\ (dbPc' = "up" /\ ~NoTables' => ScanGets(tried', wanted'))
    BY <1>15, AskKeeps
  <2>2. ~NoTables' /\ dbPc' # "up" => Answer(Shipped, wanted') = {} /\ wanted'.imports
    BY <1>15, AskKeeps
  <2> QED BY <2>1, <2>2
<1>16. ASSUME NEW c, setTvCountry(c) PROVE WantedInv'
  BY <1>16 DEF setTvCountry, Serving
<1>17. CASE CleanAll
  BY <1>17 DEF CleanAll, Serving
<1>18. CASE ServerDown
  BY <1>18 DEF ServerDown, NoTxn
<1>19. CASE UNCHANGED dbVars
  BY <1>19 DEF dbVars, Serving, ScanIsListed
<1> QED
  BY <1>1, <1>2, <1>3, <1>4, <1>5, <1>6, <1>7, <1>8, <1>9, <1>10, <1>11, <1>12, <1>13, <1>14, <1>15, <1>16, <1>17, <1>18, <1>19
     DEF DbNext

\* For every list of rows, however often and wherever the server falls: a server that is up has what
\* it was shipped with, and its scans are given that, but for the scars that no start mends.
THEOREM DatabaseIsServed == DbSpec => []DatabaseServes
<1>1. DbInit => DbInv
  BY DbInitInv
<1>2. DbInv /\ [DbNext]_dbVars => DbInv'
  BY DbTypeKept, TablesKept, RowsKept, CountKept, DimsKept, WantedKept DEF DbInv
<1>3. DbInv => DatabaseServes
  <2> SUFFICES ASSUME DbInv PROVE ReadyIsWhole /\ ScanIsListed
    BY DEF DatabaseServes
  <2>1. dbPc = "up" /\ ~NoTables => db.tables /\ db.rows = ShippedRows
    BY DEF DbInv, TablesInv, RowsInv
  <2>2. dbPc = "up" /\ scars = {} => db.dims = Dims
    BY DEF DbInv, DimsInv, Serving, Short, NoTables
  <2>3. ReadyIsWhole
    BY <2>1, <2>2 DEF ReadyIsWhole, NoTables
  <2>4. ScanIsListed
    BY DEF DbInv, WantedInv, ScanIsListed, ScanGets, NoTables
  <2> QED BY <2>3, <2>4
<1> QED BY <1>1, <1>2, <1>3, PTL DEF DbSpec

-----------------------------------------------------------------------------
(* HDMI inputs.                                                            *)

\* Four numbers of four bits each in one word.
IsWord(n, a, b, c, d) ==
  {a, b, c, d} \subseteq 0 .. 15 /\ n = a + 16 * b + 256 * c + 4096 * d
LEMMA NibblesOfWord ==
  ASSUME NEW n, NEW a, NEW b, NEW c, NEW d, IsWord(n, a, b, c, d)
  PROVE  Nibble(n, 0) = a /\ Nibble(n, 1) = b /\ Nibble(n, 2) = c /\ Nibble(n, 3) = d
<1>0. /\ a \in 0 .. 15 /\ b \in 0 .. 15 /\ c \in 0 .. 15 /\ d \in 0 .. 15
      /\ n = a + 16 * b + 256 * c + 4096 * d
  BY DEF IsWord
<1>1. n \div 1 = n /\ n % 16 = a
  BY <1>0
<1>2. n \div 16 = b + 16 * c + 256 * d /\ (b + 16 * c + 256 * d) % 16 = b
  BY <1>0
<1>3. n \div 256 = c + 16 * d /\ (c + 16 * d) % 16 = c
  BY <1>0
<1>4. n \div 4096 = d /\ d % 16 = d
  BY <1>0
<1>5. Weights[0 + 1] = 1 /\ Weights[1 + 1] = 16 /\ Weights[2 + 1] = 256 /\ Weights[3 + 1] = 4096
  BY DEF Weights
<1> QED BY <1>1, <1>2, <1>3, <1>4, <1>5 DEF Nibble

\* The input a port of the chip is wired to, as every translation finds it.
InputAt(port) == IF SourceOf(port) = SOURCE_MAX THEN Unmapped ELSE SourceOf(port) - 4

LEMMA InputFound ==
  ASSUME board \in Boards, NEW port \in 0 .. 3
  PROVE  /\ InputAt(port) \in 0 .. 15
         /\ \A p \in Inputs : board.wired[p] = port => SourceOf(port) = HdmiSource(p) /\ InputAt(port) = p
<1> DEFINE S == {p \in Inputs : board.wired[p] = port}
<1>1. CASE S = {}
  <2>1. SourceOf(port) = SOURCE_MAX
    BY <1>1 DEF SourceOf
  <2> QED BY <1>1, <2>1 DEF InputAt, Unmapped
<1>2. CASE S # {}
  <2>1. PICK p \in Inputs : board.wired[p] = port
    BY <1>2
  <2>2. S = {p}
    <3> SUFFICES ASSUME NEW q \in Inputs, board.wired[q] = port, q # p PROVE FALSE
      BY <2>1
    <3>1. port = NotWired
      BY <2>1, InputsAssumption
    <3> QED BY <3>1 DEF NotWired
  <2>3. p \in 1 .. 4
    BY <2>1 DEF Inputs
  <2>4. (CHOOSE r \in S : \A q \in S : r <= q) = p
    BY <2>2, <2>3
  <2>5. SourceOf(port) = HdmiSource(p)
    BY <1>2, <2>4 DEF SourceOf
  <2>6. HdmiSource(p) = p + 4 /\ HdmiSource(p) # SOURCE_MAX
    BY <2>3 DEF HdmiSource, SOURCE_HDMI1, SOURCE_MAX
  <2>7. InputAt(port) = p
    BY <2>3, <2>5, <2>6 DEF InputAt
  <2>8. \A q \in Inputs : board.wired[q] = port => q = p
    BY <2>2
  <2>9. InputAt(port) \in 0 .. 15
    BY <2>3, <2>7
  <2>10. ASSUME NEW q \in Inputs, board.wired[q] = port PROVE SourceOf(port) = HdmiSource(q) /\ InputAt(port) = q
    <3>1. q = p
      BY <2>8, <2>10
    <3> QED BY <3>1, <2>5, <2>7
  <2> QED BY <2>9, <2>10
<1> QED BY <1>1, <1>2

\* What is kept of an input, and what calls hold.
Versions == [Inputs -> 0 .. 15]
EdidPlaces == {"idle", "read", "tell", "load", "give", "restore"}
EdidCalls == [pc : EdidPlaces, port : 0 .. 4, version : 0 .. 15, next : Inputs, word : Versions, locked : BOOLEAN]
InputsTyped ==
  /\ board \in Boards /\ kept \in Versions /\ paths \in Versions /\ picked = paths
  /\ envMap = CalHdmiPortCecPhysicAddr /\ edidOn \in BOOLEAN
  /\ edidCalls \in [EdidCallers -> EdidCalls] /\ missed \in [EdidCallers -> SUBSET Inputs]
  /\ \A c \in EdidCallers : edidCalls[c].pc # "idle" => edidCalls[c].port \in Inputs
  /\ ~edidOn => \A c \in EdidCallers : edidCalls[c] = NoCall

\* What a call has read is what is stored, but for what was stored since; so is what the boot loader
\* was told.
HasRead(c) ==
  CASE edidCalls[c].pc = "read" -> {p \in Inputs : p < edidCalls[c].next}
    [] edidCalls[c].pc = "tell" -> Inputs
    [] OTHER -> {}
WordsRead == \A c \in EdidCallers : \A p \in HasRead(c) \ missed[c] : edidCalls[c].word[p] = kept[p]
BootTold ==
  \E told \in Versions : envEdid = WordOf(told) /\ \A p \in Inputs \ envStale : told[p] = kept[p]

\* What a call is about to give is what was chosen last, unless that was chosen since; and so it is
\* with what the receiver was given.
ReadFresh ==
  \A c \in EdidCallers : edidCalls[c].pc = "give" =>
    board.enabled /\ (c \in overtaken \/ edidCalls[c].version = picked[edidCalls[c].port])
ReceiverFresh ==
  \/ given = NoneGiven
  \/ /\ board.enabled /\ given \in [port : Inputs, version : 0 .. 15]
     /\ \/ lag
        \/ \E c \in EdidCallers : Renews(c, given.port)
        \/ given.version = picked[given.port]
InputsInv == InputsTyped /\ WordsRead /\ BootTold /\ ReadFresh /\ ReceiverFresh

\* A step of the inputs, by name.
InputsStep ==
  \/ OpenEdid \/ InputsRestart
  \/ \E p \in Inputs, v \in 0 .. 15 : SaveHdmiEdidVersion(p, v)
  \/ \E c \in EdidCallers :
       \/ \E p \in Inputs, v \in 0 .. 15 : SetHdmiEdidVersion(c, p, v)
       \/ ReadVersion(c) \/ TellVersions(c) \/ LoadEdid(c) \/ GiveEdid(c)
       \/ \E v \in 0 .. 15 : EdidRestoreDefault(c, v)
       \/ RestoreNext(c)
       \/ \E p \in Inputs : SwitchInput(c, p + 4)
       \/ SwitchInput(c, SOURCE_MAX)
  \/ UNCHANGED inputVars
LEMMA InputsSteps == [InputsNext]_inputVars => InputsStep
<1>1. ChangedPorts \subseteq Inputs /\ EdidVersions \subseteq 0 .. 15
  BY InputsAssumption
<1>2. \A p \in ChangedPorts : HdmiSource(p) = p + 4
  BY <1>1 DEF HdmiSource, SOURCE_HDMI1, Inputs
<1> QED BY <1>1, <1>2 DEF InputsNext, InputsStep

\* A call that is none, one that begins, and one whose place changes, have the shape of a call.
LEMMA CallsMade ==
  /\ NoVersions \in Versions /\ NoCall \in EdidCalls
  /\ \A pc \in EdidPlaces, port \in 0 .. 4, version \in 0 .. 15, locked \in BOOLEAN :
       /\ EdidCall(pc, port, version, locked) \in EdidCalls
       /\ EdidCall(pc, port, version, locked).port = port
  /\ NoCall.pc = "idle" /\ NoCall.port = 0
<1>1. NoVersions \in Versions /\ 1 \in Inputs /\ 0 \in 0 .. 4 /\ 0 \in 0 .. 15
  BY DEF NoVersions, Versions, Inputs
<1>2. \A pc \in EdidPlaces, port \in 0 .. 4, version \in 0 .. 15, locked \in BOOLEAN :
        EdidCall(pc, port, version, locked) \in EdidCalls
  BY <1>1 DEF EdidCall, EdidCalls
<1>3. "idle" \in EdidPlaces
  BY DEF EdidPlaces
<1>4. NoCall \in EdidCalls
  BY <1>1, <1>2, <1>3 DEF NoCall
<1>5. \A pc \in EdidPlaces, port \in 0 .. 4, version \in 0 .. 15, locked \in BOOLEAN :
        EdidCall(pc, port, version, locked).port = port
  BY DEF EdidCall
<1>6. NoCall.pc = "idle" /\ NoCall.port = 0
  BY DEF NoCall, EdidCall
<1> QED BY <1>1, <1>2, <1>4, <1>5, <1>6

\* One caller's call changes.
Changes(c, call) == edidCalls' = [edidCalls EXCEPT ![c] = call]
LEMMA TypesOfChange ==
  ASSUME InputsTyped, NEW c \in EdidCallers, NEW call \in EdidCalls, Changes(c, call), edidOn,
         call.pc # "idle" => call.port \in Inputs,
         UNCHANGED <<board, envMap, edidOn>>, kept' \in Versions, paths' \in Versions, picked' = paths',
         missed' \in [EdidCallers -> SUBSET Inputs]
  PROVE  InputsTyped'
<1>1. edidCalls' \in [EdidCallers -> EdidCalls]
  BY DEF InputsTyped, Changes
<1>2. \A d \in EdidCallers : edidCalls'[d].pc # "idle" => edidCalls'[d].port \in Inputs
  BY DEF InputsTyped, Changes
<1>3. CalHdmiPortCecPhysicAddr' = CalHdmiPortCecPhysicAddr
  BY DEF CalHdmiPortCecPhysicAddr, SourceOf
<1> QED BY <1>1, <1>2, <1>3 DEF InputsTyped

\* A field of a call that changes.
LEMMA CallChanged ==
  ASSUME NEW call \in EdidCalls
  PROVE  /\ \A pc \in EdidPlaces : [call EXCEPT !.pc = pc] \in EdidCalls
         /\ \A port \in 0 .. 4 : [call EXCEPT !.port = port] \in EdidCalls
         /\ \A version \in 0 .. 15 : [call EXCEPT !.version = version] \in EdidCalls
         /\ \A next \in Inputs : [call EXCEPT !.next = next] \in EdidCalls
         /\ \A word \in Versions : [call EXCEPT !.word = word] \in EdidCalls
BY DEF EdidCalls
LEMMA PlacesOfCalls ==
  {"idle", "read", "tell", "load", "give", "restore"} \subseteq EdidPlaces /\ Inputs \subseteq 0 .. 4 /\ 1 \in Inputs
BY DEF EdidPlaces, Inputs

LEMMA InputsTypedKept == InputsTyped /\ InputsStep => InputsTyped'
<1> SUFFICES ASSUME InputsTyped, InputsStep PROVE InputsTyped'
  OBVIOUS
<1>1. \A c \in EdidCallers : edidCalls[c] \in EdidCalls
  BY DEF InputsTyped
<1>2. \A c \in EdidCallers : edidCalls[c].pc # "idle" => edidOn
  BY CallsMade DEF InputsTyped
<1>3. ASSUME board' = board PROVE CalHdmiPortCecPhysicAddr' = CalHdmiPortCecPhysicAddr
  BY <1>3 DEF CalHdmiPortCecPhysicAddr, SourceOf
<1>5. CASE OpenEdid
  <2>1. paths' \in Versions /\ picked' = paths' /\ edidOn' \in BOOLEAN /\ edidOn'
    BY <1>5 DEF OpenEdid, SelectAll, InputsTyped
  <2>2. UNCHANGED <<board, kept, envMap, edidCalls, missed>>
    BY <1>5 DEF OpenEdid
  <2> QED BY <1>3, <2>1, <2>2 DEF InputsTyped
<1>6. CASE InputsRestart
  <2>1. UNCHANGED <<board, kept, paths>> /\ picked' = paths /\ envMap' = CalHdmiPortCecPhysicAddr /\ edidOn' = FALSE
    BY <1>6 DEF InputsRestart, Starting
  <2>2. edidCalls' = [c \in EdidCallers |-> NoCall] /\ missed' = [c \in EdidCallers |-> {}]
    BY <1>6 DEF InputsRestart
  <2> QED BY <1>3, <2>1, <2>2, CallsMade DEF InputsTyped
<1>7. ASSUME NEW p \in Inputs, NEW v \in 0 .. 15, SaveVersion(p, v)
      PROVE  UNCHANGED <<board, envMap, paths, picked>> /\ kept' \in Versions /\ missed' \in [EdidCallers -> SUBSET Inputs]
  <2>1. [kept EXCEPT ![p] = v] \in Versions
    BY DEF InputsTyped, Versions
  <2>2. \A d \in EdidCallers : missed[d] \cup {p} \subseteq Inputs
    BY DEF InputsTyped
  <2> QED BY <1>7, <2>1, <2>2 DEF SaveVersion
<1>8. ASSUME NEW p \in Inputs, NEW v \in 0 .. 15, SaveHdmiEdidVersion(p, v) PROVE InputsTyped'
  <2>1. UNCHANGED <<edidCalls, edidOn>>
    BY <1>8 DEF SaveHdmiEdidVersion, AskedEdid
  <2> QED BY <1>3, <1>7, <1>8, <2>1 DEF SaveHdmiEdidVersion, InputsTyped
<1>9. ASSUME NEW c \in EdidCallers, NEW p \in Inputs, NEW v \in 0 .. 15, SetHdmiEdidVersion(c, p, v)
      PROVE  InputsTyped'
  <2>1. EdidCall("read", p, v, FALSE) \in EdidCalls /\ EdidCall("read", p, v, FALSE).port \in Inputs
    <3>1. "read" \in EdidPlaces /\ p \in 0 .. 4 /\ p \in Inputs /\ FALSE \in BOOLEAN
      BY PlacesOfCalls
    <3> QED BY <3>1, CallsMade
  <2>2. Changes(c, EdidCall("read", p, v, FALSE)) /\ edidOn /\ UNCHANGED edidOn
    BY <1>9 DEF SetHdmiEdidVersion, AskEdid, AskedEdid, Changes
  <2>3. paths' \in Versions /\ picked' = paths' /\ UNCHANGED <<board, kept, envMap, missed>>
    BY <1>9 DEF SetHdmiEdidVersion, InputsTyped, Versions
  <2> QED BY <2>1, <2>2, <2>3, TypesOfChange DEF InputsTyped
<1>10. ASSUME NEW c \in EdidCallers, ReadVersion(c) PROVE InputsTyped'
  <2>1. PICK p \in Inputs : p = edidCalls[c].next
    BY <1>1 DEF EdidCalls
  <2>2. PICK word \in Versions : word = [edidCalls[c].word EXCEPT ![p] = kept[p]]
    BY <1>1, <2>1 DEF EdidCalls, Versions, InputsTyped
  <2>3. PICK call \in EdidCalls :
          /\ call = [edidCalls[c] EXCEPT !.word = word, !.next = IF p = 4 THEN 1 ELSE p + 1,
                                         !.pc = IF p = 4 THEN "tell" ELSE "read"]
          /\ call.pc # "idle" => call.port \in Inputs
    BY <1>1, <1>10, <2>1 DEF EdidCalls, EdidPlaces, Inputs, InputsTyped, ReadVersion
  <2>4. Changes(c, call)
    <3>1. edidCalls' = [edidCalls EXCEPT ![c].word[p] = kept[p], ![c].next = IF p = 4 THEN 1 ELSE p + 1,
                                         ![c].pc = IF p = 4 THEN "tell" ELSE "read"]
      BY <1>10, <2>1 DEF ReadVersion
    <3> QED BY <3>1, <2>2, <2>3, <1>1 DEF Changes, InputsTyped, EdidCalls
  <2>5. edidOn /\ UNCHANGED <<edidOn, board, kept, paths, picked, envMap>> /\ missed' \in [EdidCallers -> SUBSET Inputs]
    BY <1>2, <1>10, <2>1 DEF ReadVersion, InputsTyped
  <2> QED BY <2>3, <2>4, <2>5, TypesOfChange DEF InputsTyped
<1>11. ASSUME NEW c \in EdidCallers, TellVersions(c) PROVE InputsTyped'
  <2>1. PICK call \in EdidCalls :
          call = [edidCalls[c] EXCEPT !.pc = "load", !.word = NoVersions] /\ call.port \in Inputs
    <3>1. PICK told \in EdidCalls : told = [edidCalls[c] EXCEPT !.pc = "load"]
      BY <1>1, CallChanged, PlacesOfCalls
    <3>2. [told EXCEPT !.word = NoVersions] \in EdidCalls
      BY CallChanged, CallsMade
    <3>3. edidCalls[c].port \in Inputs
      BY <1>11 DEF InputsTyped, TellVersions
    <3>4. [told EXCEPT !.word = NoVersions].port = edidCalls[c].port
      BY <3>1, <1>1 DEF EdidCalls
    <3>5. [told EXCEPT !.word = NoVersions] = [edidCalls[c] EXCEPT !.pc = "load", !.word = NoVersions]
      BY <3>1
    <3> QED BY <3>2, <3>3, <3>4, <3>5
  <2>2. Changes(c, call)
    BY <1>11, <2>1, <1>1 DEF Changes, TellVersions, EdidCalls, InputsTyped
  <2>3. edidOn /\ UNCHANGED <<edidOn, board, kept, paths, picked, envMap>> /\ missed' \in [EdidCallers -> SUBSET Inputs]
    BY <1>2, <1>11 DEF TellVersions, InputsTyped
  <2> QED BY <2>1, <2>2, <2>3, TypesOfChange DEF InputsTyped
<1>12. ASSUME NEW c \in EdidCallers, Return(c), edidOn, UNCHANGED <<edidOn, board, paths, picked, envMap>>,
              kept' \in Versions, missed' \in [EdidCallers -> SUBSET Inputs]
       PROVE  InputsTyped'
  <2>1. Changes(c, NoCall) /\ NoCall \in EdidCalls /\ NoCall.pc = "idle"
    BY <1>12, CallsMade DEF Return, Changes
  <2> QED BY <1>12, <2>1, TypesOfChange DEF InputsTyped
<1>13. ASSUME NEW c \in EdidCallers, LoadEdid(c) PROVE InputsTyped'
  <2>1. edidOn /\ UNCHANGED <<edidOn, board, kept, paths, picked, envMap, missed>>
    BY <1>2, <1>13 DEF LoadEdid
  <2>2. CASE Return(c)
    BY <1>12, <2>1, <2>2 DEF InputsTyped
  <2>3. CASE edidCalls' = [edidCalls EXCEPT ![c].pc = "give", ![c].version = LoadedVersion(c)]
    <3>1. edidCalls[c].port \in Inputs
      BY <1>13 DEF LoadEdid, InputsTyped
    <3>2. LoadedVersion(c) \in 0 .. 15
      BY <3>1 DEF LoadedVersion, InputsTyped, Versions
    <3>3. PICK call \in EdidCalls :
            call = [edidCalls[c] EXCEPT !.pc = "give", !.version = LoadedVersion(c)] /\ call.port \in Inputs
      <4>1. PICK version \in 0 .. 15 : version = LoadedVersion(c)
        BY <3>2
      <4>2. PICK read \in EdidCalls : read = [edidCalls[c] EXCEPT !.pc = "give"]
        BY <1>1, CallChanged, PlacesOfCalls
      <4>3. [read EXCEPT !.version = version] \in EdidCalls
        BY CallChanged
      <4>4. [read EXCEPT !.version = version].port = edidCalls[c].port
        BY <4>2, <1>1 DEF EdidCalls
      <4>5. [read EXCEPT !.version = version] = [edidCalls[c] EXCEPT !.pc = "give", !.version = LoadedVersion(c)]
        BY <4>1, <4>2
      <4> QED BY <3>1, <4>3, <4>4, <4>5
    <3>4. Changes(c, call)
      BY <2>3, <3>3, <1>1 DEF Changes, EdidCalls, InputsTyped
    <3> QED BY <2>1, <3>3, <3>4, TypesOfChange DEF InputsTyped
  <2> QED BY <1>13, <2>2, <2>3 DEF LoadEdid, Fail
<1>14. ASSUME NEW c \in EdidCallers, GiveEdid(c) PROVE InputsTyped'
  <2>1. edidOn /\ UNCHANGED <<edidOn, board, kept, paths, picked, envMap, missed>> /\ Return(c)
    BY <1>2, <1>14 DEF GiveEdid, Fail
  <2> QED BY <1>12, <2>1 DEF InputsTyped
<1>15. ASSUME NEW c \in EdidCallers, NEW v \in 0 .. 15, EdidRestoreDefault(c, v) PROVE InputsTyped'
  <2>1. EdidCall("restore", 1, v, FALSE) \in EdidCalls /\ EdidCall("restore", 1, v, FALSE).port \in Inputs
    <3>1. PICK port : port = 1
      OBVIOUS
    <3>2. "restore" \in EdidPlaces /\ port \in 0 .. 4 /\ port \in Inputs /\ FALSE \in BOOLEAN
      BY <3>1, PlacesOfCalls
    <3>3. EdidCall("restore", port, v, FALSE) \in EdidCalls /\ EdidCall("restore", port, v, FALSE).port \in Inputs
      BY <3>2, CallsMade
    <3> QED BY <3>1, <3>3
  <2>2. Changes(c, EdidCall("restore", 1, v, FALSE)) /\ edidOn /\ UNCHANGED edidOn
    BY <1>15 DEF EdidRestoreDefault, AskEdid, AskedEdid, Changes
  <2>3. UNCHANGED <<board, kept, paths, picked, envMap, missed>>
    BY <1>15 DEF EdidRestoreDefault
  <2> QED BY <2>1, <2>2, <2>3, TypesOfChange DEF InputsTyped
<1>16. ASSUME NEW c \in EdidCallers, RestoreNext(c) PROVE InputsTyped'
  <2>1. edidCalls[c].port \in Inputs /\ edidCalls[c].version \in 0 .. 15 /\ edidOn /\ UNCHANGED edidOn
    BY <1>1, <1>2, <1>16 DEF RestoreNext, InputsTyped, EdidCalls
  <2>2. UNCHANGED <<board, envMap, paths, picked>> /\ kept' \in Versions /\ missed' \in [EdidCallers -> SUBSET Inputs]
    BY <1>7, <1>16, <2>1 DEF RestoreNext
  <2>3. CASE Return(c)
    BY <1>12, <2>1, <2>2, <2>3
  <2>4. CASE edidCalls[c].port # 4 /\ edidCalls' = [edidCalls EXCEPT ![c].port = @ + 1]
    <3>1. PICK call \in EdidCalls : call = [edidCalls[c] EXCEPT !.port = @ + 1] /\ call.port \in Inputs
      <4>1. PICK port \in Inputs : port = edidCalls[c].port + 1
        BY <2>1, <2>4 DEF Inputs
      <4>2. [edidCalls[c] EXCEPT !.port = port] \in EdidCalls
        BY <1>1, CallChanged, PlacesOfCalls
      <4>3. [edidCalls[c] EXCEPT !.port = port].port = port
        BY <1>1 DEF EdidCalls
      <4> QED BY <4>1, <4>2, <4>3
    <3>2. Changes(c, call)
      BY <2>4, <3>1, <1>1 DEF Changes, EdidCalls, InputsTyped
    <3> QED BY <2>1, <2>2, <3>1, <3>2, TypesOfChange DEF InputsTyped
  <2> QED BY <1>16, <2>3, <2>4 DEF RestoreNext
<1>17. ASSUME NEW c \in EdidCallers, NEW source, SwitchInput(c, source),
              source = SOURCE_MAX \/ \E p \in Inputs : source = p + 4
       PROVE  InputsTyped'
  <2>1. edidOn /\ UNCHANGED <<edidOn, board, kept, paths, picked, envMap, missed>>
    BY <1>17 DEF SwitchInput, AskEdid, AskedEdid
  <2>2. PICK call \in EdidCalls : Changes(c, call) /\ (call.pc # "idle" => call.port \in Inputs)
    <3>1. CASE source = SOURCE_MAX
      <4>1. Changes(c, NoCall)
        BY <1>17, <3>1 DEF SwitchInput, AskEdid, Changes
      <4> QED BY <4>1, CallsMade
    <3>2. CASE source # SOURCE_MAX
      <4>1. source - 4 \in Inputs
        BY <1>17, <3>2 DEF Inputs
      <4>2. Changes(c, EdidCall("load", source - 4, 0, TRUE))
        BY <1>17, <3>2 DEF SwitchInput, AskEdid, Changes
      <4>3. EdidCall("load", source - 4, 0, TRUE) \in EdidCalls /\ EdidCall("load", source - 4, 0, TRUE).port \in Inputs
        <5>1. "load" \in EdidPlaces /\ Inputs \subseteq 0 .. 4 /\ 0 \in 0 .. 15
          BY PlacesOfCalls
        <5> QED BY <4>1, <5>1, CallsMade
      <4> QED BY <4>2, <4>3
    <3> QED BY <3>1, <3>2
  <2> QED BY <2>1, <2>2, TypesOfChange DEF InputsTyped
<1>18. CASE UNCHANGED inputVars
  BY <1>3, <1>18 DEF inputVars, InputsTyped
<1> QED BY <1>5, <1>6, <1>8, <1>9, <1>10, <1>11, <1>13, <1>14, <1>15, <1>16, <1>17, <1>18 DEF InputsStep

LEMMA WordsReadKept == InputsTyped /\ WordsRead /\ InputsStep => WordsRead'
<1> SUFFICES ASSUME InputsTyped, WordsRead, InputsStep, NEW c \in EdidCallers,
                    NEW p \in HasRead(c)' \ missed'[c]
             PROVE  edidCalls'[c].word[p] = kept'[p]
  BY DEF WordsRead
<1>1. p \in Inputs
  BY DEF HasRead
<1>2. ASSUME edidCalls'[c] = edidCalls[c] PROVE HasRead(c)' = HasRead(c)
  BY <1>2 DEF HasRead
<1>3. ASSUME edidCalls'[c] = edidCalls[c], kept' = kept, missed'[c] = missed[c] PROVE edidCalls'[c].word[p] = kept'[p]
  BY <1>2, <1>3 DEF WordsRead
<1>4. ASSUME edidCalls'[c].pc \notin {"read", "tell"} PROVE FALSE
  BY <1>4 DEF HasRead
<1>5. ASSUME edidCalls'[c].pc = "read" PROVE p < edidCalls'[c].next
  BY <1>5 DEF HasRead
<1>6. NoCall.pc = "idle"
  BY CallsMade
<1>7. CASE OpenEdid
  BY <1>3, <1>7 DEF OpenEdid
<1>8. CASE InputsRestart
  BY <1>4, <1>6, <1>8 DEF InputsRestart
<1>9. ASSUME NEW q \in Inputs, NEW v \in 0 .. 15, SaveVersion(q, v),
             edidCalls'[c] = edidCalls[c] \/ edidCalls'[c].pc \in {"idle", "restore"}
      PROVE  edidCalls'[c].word[p] = kept'[p]
  <2>1. edidCalls'[c] = edidCalls[c] /\ edidCalls[c].pc \in {"read", "tell"}
    BY <1>4, <1>9
  <2>2. missed'[c] = missed[c] \cup {q}
    BY <1>9, <2>1 DEF SaveVersion
  <2>3. p \in HasRead(c) \ missed[c] /\ p # q
    BY <1>2, <2>1, <2>2
  <2>4. kept'[p] = kept[p]
    BY <1>9, <2>3 DEF SaveVersion, InputsTyped, Versions
  <2> QED BY <2>1, <2>3, <2>4 DEF WordsRead
<1>10. ASSUME NEW q \in Inputs, NEW v \in 0 .. 15, SaveHdmiEdidVersion(q, v) PROVE edidCalls'[c].word[p] = kept'[p]
  BY <1>9, <1>10 DEF SaveHdmiEdidVersion
<1>11. ASSUME NEW d \in EdidCallers, NEW call, Changes(d, call), d # c PROVE edidCalls'[c] = edidCalls[c]
  BY <1>11 DEF Changes, InputsTyped
<1>12. ASSUME NEW d \in EdidCallers, NEW call, Changes(d, call), UNCHANGED <<kept, missed>>,
              call.pc \notin {"read", "tell"} \/ (call.pc = "read" /\ call.next = 1)
       PROVE  edidCalls'[c].word[p] = kept'[p]
  <2>1. CASE d = c
    <3>1. edidCalls'[c] = call
      BY <1>12, <2>1 DEF Changes, InputsTyped
    <3>2. call.pc = "read" /\ p < 1
      BY <1>4, <1>5, <1>12, <3>1
    <3> QED BY <1>1, <3>2 DEF Inputs
  <2>2. CASE d # c
    BY <1>3, <1>11, <1>12, <2>2
  <2> QED BY <2>1, <2>2
<1>13. ASSUME NEW d \in EdidCallers, NEW q \in Inputs, NEW v \in 0 .. 15, SetHdmiEdidVersion(d, q, v)
       PROVE  edidCalls'[c].word[p] = kept'[p]
  <2>1. Changes(d, EdidCall("read", q, v, FALSE)) /\ UNCHANGED <<kept, missed>>
    BY <1>13 DEF SetHdmiEdidVersion, AskEdid, Changes
  <2>2. EdidCall("read", q, v, FALSE).pc = "read" /\ EdidCall("read", q, v, FALSE).next = 1
    BY DEF EdidCall
  <2> QED BY <1>12, <2>1, <2>2
<1>14. ASSUME NEW d \in EdidCallers, ReadVersion(d) PROVE edidCalls'[c].word[p] = kept'[p]
  <2>1. kept' = kept /\ missed' = [missed EXCEPT ![d] = @ \ {edidCalls[d].next}]
    BY <1>14 DEF ReadVersion
  <2>2. CASE d # c
    <3>1. edidCalls'[c] = edidCalls[c] /\ missed'[c] = missed[c]
      BY <1>14, <2>1, <2>2 DEF ReadVersion, InputsTyped
    <3> QED BY <1>3, <2>1, <3>1
  <2>3. CASE d = c
    <3>1. PICK q \in Inputs : q = edidCalls[c].next
      BY DEF InputsTyped, EdidCalls
    <3>2. /\ edidCalls'[c].word = [edidCalls[c].word EXCEPT ![q] = kept[q]]
          /\ edidCalls'[c].pc = (IF q = 4 THEN "tell" ELSE "read")
          /\ edidCalls'[c].next = (IF q = 4 THEN 1 ELSE q + 1)
      BY <1>14, <2>3, <3>1 DEF ReadVersion, InputsTyped, EdidCalls
    <3>3. edidCalls[c].word \in Versions /\ edidCalls[c].pc = "read"
      BY <1>14, <2>3 DEF InputsTyped, EdidCalls, ReadVersion
    <3>4. CASE p = q
      BY <2>1, <3>2, <3>3, <3>4 DEF Versions
    <3>5. CASE p # q
      <4>1. p < q
        BY <1>1, <1>5, <3>1, <3>2, <3>5 DEF Inputs
      <4>2. missed'[c] = missed[c] \ {q}
        BY <2>1, <2>3, <3>1 DEF InputsTyped
      <4>3. p \in HasRead(c) \ missed[c]
        BY <1>1, <3>1, <3>3, <3>5, <4>1, <4>2 DEF HasRead
      <4>4. edidCalls'[c].word[p] = edidCalls[c].word[p]
        BY <1>1, <3>2, <3>3, <3>5 DEF Versions
      <4> QED BY <2>1, <4>3, <4>4 DEF WordsRead
    <3> QED BY <3>4, <3>5
  <2> QED BY <2>2, <2>3
<1>15. ASSUME NEW d \in EdidCallers, TellVersions(d) PROVE edidCalls'[c].word[p] = kept'[p]
  <2>1. CASE d = c
    <3>1. edidCalls'[c].pc = "load"
      BY <1>15, <2>1 DEF TellVersions, InputsTyped, EdidCalls
    <3> QED BY <1>4, <3>1
  <2>2. CASE d # c
    <3>1. edidCalls'[c] = edidCalls[c] /\ missed'[c] = missed[c] /\ kept' = kept
      BY <1>15, <2>2 DEF TellVersions, InputsTyped
    <3> QED BY <1>3, <3>1
  <2> QED BY <2>1, <2>2
<1>16. ASSUME NEW d \in EdidCallers, Return(d), UNCHANGED <<kept, missed>> PROVE edidCalls'[c].word[p] = kept'[p]
  BY <1>6, <1>12, <1>16 DEF Return, Changes
<1>17. ASSUME NEW d \in EdidCallers, LoadEdid(d) PROVE edidCalls'[c].word[p] = kept'[p]
  <2>1. UNCHANGED <<kept, missed>>
    BY <1>17 DEF LoadEdid
  <2>2. CASE Return(d)
    BY <1>16, <2>1, <2>2
  <2>3. CASE edidCalls' = [edidCalls EXCEPT ![d].pc = "give", ![d].version = LoadedVersion(d)]
    <3>1. CASE d = c
      <4>1. edidCalls'[c].pc = "give"
        BY <2>3, <3>1 DEF InputsTyped, EdidCalls
      <4> QED BY <1>4, <4>1
    <3>2. CASE d # c
      BY <1>3, <2>1, <2>3, <3>2 DEF InputsTyped
    <3> QED BY <3>1, <3>2
  <2> QED BY <1>17, <2>2, <2>3 DEF LoadEdid, Fail
<1>18. ASSUME NEW d \in EdidCallers, GiveEdid(d) PROVE edidCalls'[c].word[p] = kept'[p]
  BY <1>16, <1>18 DEF GiveEdid, Fail
<1>19. ASSUME NEW d \in EdidCallers, NEW v \in 0 .. 15, EdidRestoreDefault(d, v) PROVE edidCalls'[c].word[p] = kept'[p]
  <2>1. Changes(d, EdidCall("restore", 1, v, FALSE)) /\ UNCHANGED <<kept, missed>>
    BY <1>19 DEF EdidRestoreDefault, AskEdid, Changes
  <2>2. EdidCall("restore", 1, v, FALSE).pc = "restore"
    BY DEF EdidCall
  <2> QED BY <1>12, <2>1, <2>2
<1>20. ASSUME NEW d \in EdidCallers, RestoreNext(d) PROVE edidCalls'[c].word[p] = kept'[p]
  <2>1. edidCalls[d].port \in Inputs /\ edidCalls[d].version \in 0 .. 15 /\ edidCalls[d].pc = "restore"
    BY <1>20 DEF RestoreNext, InputsTyped, EdidCalls
  <2>2. edidCalls'[c] = edidCalls[c] \/ edidCalls'[c].pc \in {"idle", "restore"}
    <3>1. CASE d # c
      BY <1>20, <3>1 DEF RestoreNext, Return, InputsTyped
    <3>2. CASE d = c /\ Return(d)
      BY <1>6, <3>2 DEF Return, InputsTyped
    <3>3. CASE d = c /\ edidCalls' = [edidCalls EXCEPT ![d].port = @ + 1]
      <4>1. edidCalls'[c].pc = "restore"
        BY <2>1, <3>3 DEF InputsTyped, EdidCalls
      <4> QED BY <4>1
    <3> QED BY <1>20, <3>1, <3>2, <3>3 DEF RestoreNext
  <2> QED BY <1>9, <1>20, <2>1, <2>2 DEF RestoreNext
<1>21. ASSUME NEW d \in EdidCallers, NEW source, SwitchInput(d, source) PROVE edidCalls'[c].word[p] = kept'[p]
  <2>1. PICK call : Changes(d, call) /\ (call = NoCall \/ call = EdidCall("load", source - 4, 0, TRUE))
    BY <1>21 DEF SwitchInput, AskEdid, Changes
  <2>2. call.pc \in {"idle", "load"}
    BY <1>6, <2>1 DEF EdidCall
  <2>3. UNCHANGED <<kept, missed>>
    BY <1>21 DEF SwitchInput
  <2> QED BY <1>12, <2>1, <2>2, <2>3
<1>22. CASE UNCHANGED inputVars
  BY <1>3, <1>22 DEF inputVars
<1> QED BY <1>7, <1>8, <1>10, <1>13, <1>14, <1>15, <1>17, <1>18, <1>19, <1>20, <1>21, <1>22 DEF InputsStep

LEMMA BootToldKept == InputsTyped /\ WordsRead /\ BootTold /\ InputsStep => BootTold'
<1> SUFFICES ASSUME InputsTyped, WordsRead, BootTold, InputsStep PROVE BootTold'
  OBVIOUS
<1>1. ASSUME NEW told \in Versions, envEdid' = WordOf(told), \A p \in Inputs \ envStale' : told[p] = kept'[p]
      PROVE  BootTold'
  <2>1. WordOf(told)' = WordOf(told)
    BY DEF WordOf
  <2> QED BY <1>1, <2>1 DEF BootTold
<1>2. PICK told \in Versions : envEdid = WordOf(told) /\ \A p \in Inputs \ envStale : told[p] = kept[p]
  BY DEF BootTold
<1>3. ASSUME UNCHANGED <<envEdid, envStale, kept>> PROVE BootTold'
  BY <1>1, <1>2, <1>3
<1>4. ASSUME kept' = kept, envEdid' = WordOf(kept) PROVE BootTold'
  BY <1>1, <1>4 DEF InputsTyped
<1>5. CASE OpenEdid
  BY <1>3, <1>4, <1>5 DEF OpenEdid
<1>6. CASE InputsRestart
  BY <1>4, <1>6 DEF InputsRestart, Starting
<1>7. ASSUME NEW q \in Inputs, NEW v \in 0 .. 15, SaveVersion(q, v) PROVE BootTold'
  <2>1. envEdid' = envEdid /\ envStale' = envStale \cup {q} /\ \A p \in Inputs \ {q} : kept'[p] = kept[p]
    BY <1>7 DEF SaveVersion, InputsTyped, Versions
  <2> QED BY <1>1, <1>2, <2>1
<1>8. ASSUME NEW q \in Inputs, NEW v \in 0 .. 15, SaveHdmiEdidVersion(q, v) PROVE BootTold'
  BY <1>7, <1>8 DEF SaveHdmiEdidVersion
<1>9. ASSUME NEW d \in EdidCallers, RestoreNext(d) PROVE BootTold'
  <2>1. edidCalls[d].port \in Inputs /\ edidCalls[d].version \in 0 .. 15
    BY <1>9 DEF RestoreNext, InputsTyped, EdidCalls
  <2> QED BY <1>7, <1>9, <2>1 DEF RestoreNext
<1>10. ASSUME NEW d \in EdidCallers, TellVersions(d) PROVE BootTold'
  <2>1. edidCalls[d].word \in Versions
    BY DEF InputsTyped, EdidCalls
  <2>2. envEdid' = WordOf(edidCalls[d].word) /\ envStale' = missed[d] /\ kept' = kept
    BY <1>10 DEF TellVersions
  <2>3. HasRead(d) = Inputs
    BY <1>10 DEF HasRead, TellVersions
  <2>4. \A p \in Inputs \ envStale' : edidCalls[d].word[p] = kept'[p]
    BY <2>2, <2>3 DEF WordsRead
  <2> QED BY <1>1, <2>1, <2>2, <2>4
<1>11. ASSUME NEW d \in EdidCallers, LoadEdid(d) \/ GiveEdid(d) \/ ReadVersion(d) PROVE BootTold'
  BY <1>3, <1>11 DEF LoadEdid, GiveEdid, ReadVersion
<1>12. ASSUME NEW d \in EdidCallers, NEW q, NEW v,
              SetHdmiEdidVersion(d, q, v) \/ EdidRestoreDefault(d, v) \/ SwitchInput(d, q)
       PROVE  BootTold'
  BY <1>3, <1>12 DEF SetHdmiEdidVersion, EdidRestoreDefault, SwitchInput
<1>13. CASE UNCHANGED inputVars
  BY <1>3, <1>13 DEF inputVars
<1> QED BY <1>5, <1>6, <1>8, <1>9, <1>10, <1>11, <1>12, <1>13 DEF InputsStep

\* A caller that changes nothing of another's call.
LEMMA OthersStay ==
  ASSUME InputsTyped, NEW c \in EdidCallers, NEW d \in EdidCallers, c # d,
         Return(d) \/ (\E call : Changes(d, call)) \/ ReadVersion(d) \/ TellVersions(d) \/ LoadEdid(d) \/ RestoreNext(d)
  PROVE  edidCalls'[c] = edidCalls[c]
BY DEF InputsTyped, Return, Changes, ReadVersion, TellVersions, LoadEdid, Fail, RestoreNext

LEMMA ReadFreshKept == InputsTyped /\ ReadFresh /\ InputsStep => ReadFresh'
<1> SUFFICES ASSUME InputsTyped, ReadFresh, InputsStep, NEW c \in EdidCallers, edidCalls'[c].pc = "give"
             PROVE  board'.enabled /\ (c \in overtaken' \/ edidCalls'[c].version = picked'[edidCalls'[c].port])
  BY DEF ReadFresh
<1>1. NoCall.pc = "idle"
  BY CallsMade
<1>2. ASSUME edidCalls'[c] = edidCalls[c], UNCHANGED <<board, picked>>, c \in overtaken => c \in overtaken'
      PROVE  board'.enabled /\ (c \in overtaken' \/ edidCalls'[c].version = picked'[edidCalls'[c].port])
  BY <1>2 DEF ReadFresh
<1>3. CASE OpenEdid
  BY <1>1, <1>3 DEF OpenEdid, InputsTyped
<1>4. CASE InputsRestart
  BY <1>1, <1>4 DEF InputsRestart
<1>5. ASSUME NEW q \in Inputs, NEW v \in 0 .. 15, SaveHdmiEdidVersion(q, v)
      PROVE  board'.enabled /\ (c \in overtaken' \/ edidCalls'[c].version = picked'[edidCalls'[c].port])
  BY <1>2, <1>5 DEF SaveHdmiEdidVersion, SaveVersion
<1>6. ASSUME NEW d \in EdidCallers, NEW call, Changes(d, call), call.pc # "give"
      PROVE  d # c /\ edidCalls'[c] = edidCalls[c]
  BY <1>6 DEF Changes, InputsTyped
<1>7. ASSUME NEW d \in EdidCallers, NEW q \in Inputs, NEW v \in 0 .. 15, SetHdmiEdidVersion(d, q, v)
      PROVE  board'.enabled /\ (c \in overtaken' \/ edidCalls'[c].version = picked'[edidCalls'[c].port])
  <2>1. Changes(d, EdidCall("read", q, v, FALSE)) /\ EdidCall("read", q, v, FALSE).pc = "read"
    BY <1>7 DEF SetHdmiEdidVersion, AskEdid, Changes, EdidCall
  <2>2. edidCalls'[c] = edidCalls[c]
    BY <1>6, <2>1
  <2>3. board' = board /\ picked' = [picked EXCEPT ![q] = v] /\ overtaken \subseteq overtaken'
    BY <1>7 DEF SetHdmiEdidVersion
  <2>4. CASE edidCalls[c].port = q
    BY <1>7, <2>2, <2>3, <2>4 DEF SetHdmiEdidVersion, ReadFresh
  <2>5. CASE edidCalls[c].port # q
    <3>1. picked'[edidCalls[c].port] = picked[edidCalls[c].port]
      BY <2>2, <2>3, <2>5 DEF InputsTyped, Versions
    <3> QED BY <2>2, <2>3, <3>1 DEF ReadFresh
  <2> QED BY <2>4, <2>5
<1>8. ASSUME NEW d \in EdidCallers, ReadVersion(d) \/ TellVersions(d)
      PROVE  board'.enabled /\ (c \in overtaken' \/ edidCalls'[c].version = picked'[edidCalls'[c].port])
  <2>1. d # c
    <3>1. edidCalls'[d].pc \in {"read", "tell", "load"}
      BY <1>8 DEF ReadVersion, TellVersions, InputsTyped, EdidCalls
    <3> QED BY <3>1
  <2>2. edidCalls'[c] = edidCalls[c]
    BY <1>8, <2>1, OthersStay
  <2> QED BY <1>2, <1>8, <2>2 DEF ReadVersion, TellVersions
<1>9. ASSUME NEW d \in EdidCallers, Return(d), UNCHANGED <<board, picked>>, overtaken \ {d} \subseteq overtaken'
      PROVE  board'.enabled /\ (c \in overtaken' \/ edidCalls'[c].version = picked'[edidCalls'[c].port])
  <2>1. d # c /\ edidCalls'[c] = edidCalls[c]
    BY <1>1, <1>6, <1>9 DEF Return, Changes
  <2> QED BY <1>2, <1>9, <2>1
<1>10. ASSUME NEW d \in EdidCallers, LoadEdid(d)
       PROVE  board'.enabled /\ (c \in overtaken' \/ edidCalls'[c].version = picked'[edidCalls'[c].port])
  <2>1. UNCHANGED <<board, picked>> /\ paths = picked /\ overtaken \ {d} \subseteq overtaken'
    BY <1>10 DEF LoadEdid, Fail, InputsTyped
  <2>2. CASE Return(d)
    BY <1>9, <2>1, <2>2
  <2>3. CASE board.enabled /\ edidCalls' = [edidCalls EXCEPT ![d].pc = "give", ![d].version = LoadedVersion(d)]
             /\ UNCHANGED overtaken
    <3>1. CASE d = c
      <4>1. edidCalls'[c].version = LoadedVersion(c) /\ edidCalls'[c].port = edidCalls[c].port
        BY <2>3, <3>1 DEF InputsTyped, EdidCalls
      <4> QED BY <2>1, <2>3, <4>1 DEF LoadedVersion
    <3>2. CASE d # c
      <4>1. edidCalls'[c] = edidCalls[c]
        BY <1>10, <3>2, OthersStay
      <4> QED BY <1>2, <2>1, <2>3, <4>1
    <3> QED BY <3>1, <3>2
  <2> QED BY <1>10, <2>2, <2>3 DEF LoadEdid, Fail
<1>11. ASSUME NEW d \in EdidCallers, GiveEdid(d)
       PROVE  board'.enabled /\ (c \in overtaken' \/ edidCalls'[c].version = picked'[edidCalls'[c].port])
  BY <1>9, <1>11 DEF GiveEdid, Fail
<1>12. ASSUME NEW d \in EdidCallers, NEW v \in 0 .. 15, EdidRestoreDefault(d, v)
       PROVE  board'.enabled /\ (c \in overtaken' \/ edidCalls'[c].version = picked'[edidCalls'[c].port])
  <2>1. Changes(d, EdidCall("restore", 1, v, FALSE)) /\ EdidCall("restore", 1, v, FALSE).pc = "restore"
    BY <1>12 DEF EdidRestoreDefault, AskEdid, Changes, EdidCall
  <2> QED BY <1>2, <1>6, <1>12, <2>1 DEF EdidRestoreDefault
<1>13. ASSUME NEW d \in EdidCallers, RestoreNext(d)
       PROVE  board'.enabled /\ (c \in overtaken' \/ edidCalls'[c].version = picked'[edidCalls'[c].port])
  <2>1. d # c
    <3>1. edidCalls'[d].pc \in {"idle", "restore"}
      BY <1>1, <1>13 DEF RestoreNext, Return, InputsTyped, EdidCalls
    <3> QED BY <3>1
  <2>2. edidCalls'[c] = edidCalls[c]
    BY <1>13, <2>1, OthersStay
  <2> QED BY <1>2, <1>13, <2>2 DEF RestoreNext, SaveVersion
<1>14. ASSUME NEW d \in EdidCallers, NEW source, SwitchInput(d, source)
       PROVE  board'.enabled /\ (c \in overtaken' \/ edidCalls'[c].version = picked'[edidCalls'[c].port])
  <2>1. PICK call : Changes(d, call) /\ (call = NoCall \/ call = EdidCall("load", source - 4, 0, TRUE))
    BY <1>14 DEF SwitchInput, AskEdid, Changes
  <2>2. call.pc # "give"
    BY <1>1, <2>1 DEF EdidCall
  <2> QED BY <1>2, <1>6, <1>14, <2>1, <2>2 DEF SwitchInput
<1>15. CASE UNCHANGED inputVars
  BY <1>2, <1>15 DEF inputVars
<1> QED BY <1>3, <1>4, <1>5, <1>7, <1>8, <1>10, <1>11, <1>12, <1>13, <1>14, <1>15 DEF InputsStep

LEMMA ReceiverFreshKept == InputsTyped /\ ReadFresh /\ ReceiverFresh /\ InputsStep => ReceiverFresh'
<1> SUFFICES ASSUME InputsTyped, ReadFresh, ReceiverFresh, InputsStep PROVE ReceiverFresh'
  OBVIOUS
<1>1. NoCall.pc = "idle" /\ NoCall.port = 0
  BY CallsMade
<1>2. ASSUME given' = NoneGiven PROVE ReceiverFresh'
  BY <1>2 DEF ReceiverFresh, NoneGiven
<1>3. ASSUME given # NoneGiven
      PROVE  /\ board.enabled /\ given \in [port : Inputs, version : 0 .. 15]
             /\ lag \/ (\E c \in EdidCallers : Renews(c, given.port)) \/ given.version = picked[given.port]
  BY <1>3 DEF ReceiverFresh
<1>4. ASSUME UNCHANGED <<board, given>>, lag => lag',
             picked'[given.port] = picked[given.port] \/ \E c \in EdidCallers : Renews(c, given.port)',
             given # NoneGiven => \A c \in EdidCallers :
               Renews(c, given.port) => lag' \/ \E d \in EdidCallers : Renews(d, given.port)'
      PROVE  ReceiverFresh'
  <2>1. CASE given = NoneGiven
    BY <1>2, <1>4, <2>1
  <2>2. CASE given # NoneGiven
    <3>1. lag' \/ (\E c \in EdidCallers : Renews(c, given.port)') \/ given.version = picked'[given.port]
      BY <1>3, <1>4, <2>2
    <3> QED BY <1>3, <1>4, <2>2, <3>1 DEF ReceiverFresh
  <2> QED BY <2>1, <2>2
<1>5. ASSUME NEW c \in EdidCallers, edidCalls'[c].port = edidCalls[c].port, edidCalls'[c].pc # "restore",
             UNCHANGED given, NEW d \in EdidCallers, Renews(d, given.port), d = c
      PROVE  Renews(c, given.port)'
  BY <1>5 DEF Renews
<1>6. ASSUME NEW c \in EdidCallers, edidCalls'[c] = edidCalls[c], UNCHANGED given, Renews(c, given.port)
      PROVE  Renews(c, given.port)'
  BY <1>6 DEF Renews
<1>7. CASE OpenEdid
  <2>1. UNCHANGED <<board, edidCalls, lag>>
    BY <1>7 DEF OpenEdid
  <2>2. CASE board.enabled
    <3>1. picked' = kept /\ paths' = kept /\ given' \in {NoneGiven, [port |-> 1, version |-> kept[1]]}
      BY <1>7, <2>2 DEF OpenEdid, SelectAll
    <3>2. 1 \in Inputs /\ kept[1] \in 0 .. 15
      BY DEF InputsTyped, Versions, Inputs
    <3>3. CASE given' = [port |-> 1, version |-> kept[1]]
      <4>1. given'.version = picked'[given'.port] /\ given' \in [port : Inputs, version : 0 .. 15]
        BY <3>1, <3>2, <3>3
      <4> QED BY <2>1, <2>2, <4>1 DEF ReceiverFresh
    <3> QED BY <1>2, <3>1, <3>3
  <2>3. CASE ~board.enabled
    BY <1>2, <1>3, <1>7, <2>3 DEF OpenEdid
  <2> QED BY <2>2, <2>3
<1>8. CASE InputsRestart
  BY <1>2, <1>8 DEF InputsRestart
<1>9. ASSUME NEW q \in Inputs, NEW v \in 0 .. 15, SaveHdmiEdidVersion(q, v) PROVE ReceiverFresh'
  BY <1>4, <1>6, <1>9 DEF SaveHdmiEdidVersion, SaveVersion
<1>10. ASSUME NEW d \in EdidCallers, edidCalls[d] = NoCall, NEW call, Changes(d, call), NEW c \in EdidCallers,
              given # NoneGiven, Renews(c, given.port), UNCHANGED given
       PROVE  Renews(c, given.port)'
  <2>1. given.port # 0
    BY <1>3, <1>10 DEF Inputs
  <2>2. c # d
    BY <1>1, <1>10, <2>1 DEF Renews
  <2> QED BY <1>6, <1>10, <2>2, OthersStay
<1>11. ASSUME NEW d \in EdidCallers, NEW q \in Inputs, NEW v \in 0 .. 15, SetHdmiEdidVersion(d, q, v)
       PROVE  ReceiverFresh'
  <2>1. Changes(d, EdidCall("read", q, v, FALSE)) /\ edidCalls[d] = NoCall
    BY <1>11 DEF SetHdmiEdidVersion, AskEdid, Changes
  <2>2. UNCHANGED <<board, given, lag>> /\ picked' = [picked EXCEPT ![q] = v]
    BY <1>11 DEF SetHdmiEdidVersion
  <2>3. EdidCall("read", q, v, FALSE).port = q /\ EdidCall("read", q, v, FALSE).pc = "read"
    BY DEF EdidCall
  <2>4. edidCalls'[d] = EdidCall("read", q, v, FALSE)
    BY <2>1 DEF Changes, InputsTyped
  <2>5. Renews(d, q)'
    BY <2>3, <2>4 DEF Renews
  <2>6. given.port = q \/ picked'[given.port] = picked[given.port]
    BY <2>2 DEF InputsTyped, Versions
  <2> QED BY <1>4, <1>10, <2>1, <2>2, <2>5, <2>6
<1>12. ASSUME NEW d \in EdidCallers, ReadVersion(d) \/ TellVersions(d), NEW c \in EdidCallers, Renews(c, given.port)
       PROVE  Renews(c, given.port)'
  <2>1. edidCalls'[d].port = edidCalls[d].port /\ edidCalls'[d].pc # "restore" /\ UNCHANGED given
    BY <1>12 DEF ReadVersion, TellVersions, InputsTyped, EdidCalls
  <2>2. CASE c = d
    BY <1>5, <1>12, <2>1, <2>2
  <2>3. CASE c # d
    BY <1>6, <1>12, <2>1, <2>3, OthersStay
  <2> QED BY <2>2, <2>3
<1>13. ASSUME NEW d \in EdidCallers, ReadVersion(d) \/ TellVersions(d) PROVE ReceiverFresh'
  <2>1. UNCHANGED <<board, given, lag, picked>>
    BY <1>13 DEF ReadVersion, TellVersions
  <2> QED BY <1>4, <1>12, <1>13, <2>1
<1>14. ASSUME NEW d \in EdidCallers, Return(d), NEW c \in EdidCallers, Renews(c, given.port), UNCHANGED given
       PROVE  edidCalls[d].port = given.port \/ Renews(c, given.port)'
  BY <1>6, <1>14, OthersStay DEF Renews
<1>15. ASSUME NEW d \in EdidCallers, Fail(d), UNCHANGED <<board, picked>> PROVE ReceiverFresh'
  <2>1. Return(d) /\ UNCHANGED given /\ lag' = (lag \/ given.port = edidCalls[d].port)
    BY <1>15 DEF Fail
  <2> QED BY <1>4, <1>14, <1>15, <2>1
<1>16. ASSUME NEW d \in EdidCallers, LoadEdid(d) PROVE ReceiverFresh'
  <2>1. UNCHANGED <<board, picked>>
    BY <1>16 DEF LoadEdid
  <2>2. CASE ~board.enabled /\ UNCHANGED given
    BY <1>2, <1>3, <2>2
  <2>3. CASE board.enabled /\ UNCHANGED <<given, lag>>
             /\ edidCalls' = [edidCalls EXCEPT ![d].pc = "give", ![d].version = LoadedVersion(d)]
    <3>1. edidCalls'[d].port = edidCalls[d].port /\ edidCalls'[d].pc # "restore"
      BY <2>3 DEF InputsTyped, EdidCalls
    <3>2. ASSUME NEW c \in EdidCallers, Renews(c, given.port) PROVE Renews(c, given.port)'
      <4>1. CASE c = d
        BY <1>5, <2>3, <3>1, <3>2, <4>1
      <4>2. CASE c # d
        BY <1>6, <1>16, <2>3, <3>2, <4>2, OthersStay
      <4> QED BY <4>1, <4>2
    <3> QED BY <1>4, <2>1, <2>3, <3>2
  <2> QED BY <1>15, <1>16, <2>1, <2>2, <2>3 DEF LoadEdid
<1>17. ASSUME NEW d \in EdidCallers, GiveEdid(d) PROVE ReceiverFresh'
  <2>1. UNCHANGED <<board, picked>>
    BY <1>17 DEF GiveEdid
  <2>2. CASE given' = [port |-> edidCalls[d].port, version |-> edidCalls[d].version] /\ lag' = (d \in overtaken)
    <3>1. edidCalls[d].pc = "give" /\ edidCalls[d].port \in Inputs /\ edidCalls[d].version \in 0 .. 15
      BY <1>17 DEF GiveEdid, InputsTyped, EdidCalls
    <3>2. board.enabled /\ (d \in overtaken \/ edidCalls[d].version = picked[edidCalls[d].port])
      BY <3>1 DEF ReadFresh
    <3>3. given'.port = edidCalls[d].port /\ given'.version = edidCalls[d].version
      BY <2>2
    <3>4. lag' \/ given'.version = picked'[given'.port]
      BY <2>1, <2>2, <3>2, <3>3
    <3>5. given' \in [port : Inputs, version : 0 .. 15]
      BY <2>2, <3>1
    <3> QED BY <2>1, <3>2, <3>4, <3>5 DEF ReceiverFresh
  <2> QED BY <1>15, <1>17, <2>1, <2>2 DEF GiveEdid
<1>18. ASSUME NEW d \in EdidCallers, NEW v \in 0 .. 15, EdidRestoreDefault(d, v) PROVE ReceiverFresh'
  <2>1. Changes(d, EdidCall("restore", 1, v, FALSE)) /\ edidCalls[d] = NoCall
    BY <1>18 DEF EdidRestoreDefault, AskEdid, Changes
  <2>2. UNCHANGED <<board, given, lag, picked>>
    BY <1>18 DEF EdidRestoreDefault
  <2> QED BY <1>4, <1>10, <2>1, <2>2
<1>19. ASSUME NEW d \in EdidCallers, RestoreNext(d) PROVE ReceiverFresh'
  <2>1. UNCHANGED <<board, given, lag, picked>>
    BY <1>19 DEF RestoreNext, SaveVersion
  <2>2. ASSUME NEW c \in EdidCallers, Renews(c, given.port) PROVE Renews(c, given.port)'
    <3>1. c # d
      BY <1>19, <2>2 DEF RestoreNext, Renews
    <3> QED BY <1>6, <1>19, <2>1, <2>2, <3>1, OthersStay
  <2> QED BY <1>4, <2>1, <2>2
<1>20. ASSUME NEW d \in EdidCallers, NEW source, SwitchInput(d, source) PROVE ReceiverFresh'
  <2>1. PICK call : Changes(d, call) /\ edidCalls[d] = NoCall
    BY <1>20 DEF SwitchInput, AskEdid, Changes
  <2>2. UNCHANGED <<board, given, lag, picked>>
    BY <1>20 DEF SwitchInput
  <2> QED BY <1>4, <1>10, <2>1, <2>2
<1>21. CASE UNCHANGED inputVars
  BY <1>4, <1>6, <1>21 DEF inputVars
<1> QED BY <1>7, <1>8, <1>9, <1>11, <1>13, <1>16, <1>17, <1>18, <1>19, <1>20, <1>21 DEF InputsStep

LEMMA InputsKept == InputsInv /\ [InputsNext]_inputVars => InputsInv'
BY InputsSteps, InputsTypedKept, WordsReadKept, BootToldKept, ReadFreshKept, ReceiverFreshKept DEF InputsInv

LEMMA PortsFollow == InputsInv => PortsAgree
<1> SUFFICES ASSUME InputsInv PROVE PortsAgree
  OBVIOUS
<1>1. \A bit \in 0 .. 3 : InputAt(bit) \in 0 .. 15
  BY InputFound DEF InputsInv, InputsTyped
<1>2. envMap = InputAt(0) + 16 * InputAt(1) + 256 * InputAt(2) + 4096 * InputAt(3)
  BY DEF InputsInv, InputsTyped, CalHdmiPortCecPhysicAddr, InputAt
<1>3. /\ Nibble(envMap, 0) = InputAt(0) /\ Nibble(envMap, 1) = InputAt(1)
      /\ Nibble(envMap, 2) = InputAt(2) /\ Nibble(envMap, 3) = InputAt(3)
  <2>1. PICK a, b, c, d : a = InputAt(0) /\ b = InputAt(1) /\ c = InputAt(2) /\ d = InputAt(3)
    OBVIOUS
  <2>2. a \in 0 .. 15 /\ b \in 0 .. 15 /\ c \in 0 .. 15 /\ d \in 0 .. 15
    BY <1>1, <2>1
  <2>3. IsWord(envMap, a, b, c, d)
    BY <1>2, <2>1, <2>2 DEF IsWord
  <2> QED BY <2>1, <2>2, <2>3, NibblesOfWord
<1>4. \A bit \in 0 .. 3 : Nibble(envMap, bit) = InputAt(bit)
  BY <1>3
<1>5. \A bit \in 0 .. 3 : PlugSource(bit) = SourceOf(bit)
  BY DEF PlugSource
<1>6. \A bit \in 0 .. 3 : Nibble(envMap, bit) = IF PlugSource(bit) = SOURCE_MAX THEN Unmapped ELSE PlugSource(bit) - 4
  BY <1>4, <1>5 DEF InputAt
<1>7. ASSUME NEW p \in Inputs, board.wired[p] # NotWired
      PROVE  Nibble(envMap, CecPort(HdmiSource(p)) - 1) = p /\ PlugSource(PlugBit(HdmiSource(p))) = HdmiSource(p)
  <2>1. PICK port : port = board.wired[p]
    OBVIOUS
  <2>2. port \in 0 .. 3
    BY <1>7, <2>1, InputsAssumption DEF InputsInv, InputsTyped, NotWired
  <2>3. PortOf(HdmiSource(p)) = port
    BY <2>1 DEF PortOf, HdmiSource, SOURCE_HDMI1, Inputs
  <2>4. CecPort(HdmiSource(p)) - 1 = port /\ PlugBit(HdmiSource(p)) = port
    BY <1>7, <2>1, <2>2, <2>3 DEF CecPort, PlugBit
  <2>5. SourceOf(port) = HdmiSource(p) /\ InputAt(port) = p
    BY <2>1, <2>2, InputFound DEF InputsInv, InputsTyped
  <2> QED BY <1>4, <1>5, <2>2, <2>4, <2>5
<1> QED BY <1>6, <1>7 DEF PortsAgree

LEMMA EdidFollows == InputsInv => EdidAsPicked
<1> SUFFICES ASSUME InputsInv PROVE EdidAsPicked
  OBVIOUS
<1>1. ASSUME given.port # 0, ~lag, \A c \in EdidCallers : ~Renews(c, given.port)
      PROVE  given.version = picked[given.port]
  BY <1>1 DEF InputsInv, ReceiverFresh, NoneGiven
<1>2. \A p \in Inputs \ envStale : Nibble(envEdid, p - 1) = kept[p]
  <2>1. PICK told \in Versions : envEdid = WordOf(told) /\ \A p \in Inputs \ envStale : told[p] = kept[p]
    BY DEF InputsInv, BootTold
  <2>2. PICK a, b, c, d : a = told[1] /\ b = told[2] /\ c = told[3] /\ d = told[4]
    OBVIOUS
  <2>3. a \in 0 .. 15 /\ b \in 0 .. 15 /\ c \in 0 .. 15 /\ d \in 0 .. 15
    BY <2>2 DEF Versions, Inputs
  <2>4. IsWord(envEdid, a, b, c, d)
    BY <2>1, <2>2, <2>3 DEF WordOf, IsWord
  <2>5. /\ Nibble(envEdid, 0) = a /\ Nibble(envEdid, 1) = b
        /\ Nibble(envEdid, 2) = c /\ Nibble(envEdid, 3) = d
    BY <2>3, <2>4, NibblesOfWord
  <2>6. \A p \in Inputs : Nibble(envEdid, p - 1) = told[p]
    BY <2>2, <2>5 DEF Inputs
  <2> QED BY <2>1, <2>6
<1> QED BY <1>1, <1>2 DEF EdidAsPicked

\* For every board that wires no two inputs to one port, all versions of four bits, and any number of
\* callers that change and renew EDIDs beside one another: the server, the boot loader, the receiver
\* and CEC agree on each input's port and EDID.
THEOREM InputsAreAgreed == InputsSpec => []InputsAgree
<1>1. InputsInit => InputsInv
  <2> SUFFICES ASSUME InputsInit PROVE InputsInv
    OBVIOUS
  <2>1. InputsTyped
    BY CallsMade DEF InputsInit, InputsTyped
  <2>2. WordsRead /\ ReadFresh
    BY CallsMade DEF InputsInit, WordsRead, ReadFresh, HasRead
  <2>3. BootTold
    BY <2>1 DEF InputsInit, BootTold, InputsTyped
  <2> QED BY <2>1, <2>2, <2>3 DEF InputsInit, InputsInv, ReceiverFresh
<1>2. InputsInv => InputsAgree
  BY PortsFollow, EdidFollows DEF InputsAgree
<1> QED BY <1>1, <1>2, InputsKept, PTL DEF InputsSpec

-----------------------------------------------------------------------------
(* The settings.  While a restore of the defaults meets no other call,     *)
(* each setting it is about is restored or among the saves to come.        *)

\* The settings a client finds restored, and what each is restored to.
Zeros == {"FactoryBurnMode", "SystemLanguage", "AgingMode", "PanelType", "BlackoutEnable", "StandbyMode",
          "CVBSStd", "HDMIHdcpSwitcher", "HDMIColorRangeMode", "ParentalControlSwitch"}
Restorable == Zeros \cup ConfigSettings \cup Edids \cup {"PowerOnMusicVolume", "PowerOnOffChannel", "Mark01"}
DefaultOf(k) ==
  CASE k \in Zeros -> 0
    [] k \in ConfigSettings -> -1
    [] k \in Edids -> EdidDefault
    [] k = "PowerOnMusicVolume" -> 20
    [] k = "PowerOnOffChannel" -> 1
    [] OTHER -> 221

\* What a list of saves holds.
Elems(s) == {s[i] : i \in 1 .. Len(s)}
IsList(s) == s \in Seq(Elems(s))
RestoreSaves == Elems(Tv_SSMRestoreDefaultSetting)

\* What the store holds of a setting is its default; a list of saves has one of it.
Restored(k) == k \in DOMAIN blob /\ blob[k] = Stored(k, DefaultOf(k))
ToCome(s, k) == \E e \in Elems(s) : e[1] = k

\* The one call is c's restore, and what it has yet to save is what is not yet restored.
RestoreGoes(c) ==
  /\ \A d \in Users : d # c => saving[d] = <<>>
  /\ saving[c] \in Seq(RestoreSaves) /\ saving[c] # <<>>
  /\ \A k \in Restorable : Restored(k) \/ ToCome(saving[c], k)
RestoreInv ==
  /\ restore = "going" => reachable = TRUE /\ \E c \in Users : RestoreGoes(c)
  /\ restore = "done" => (\A c \in Users : saving[c] = <<>>) /\ \A k \in Restorable : Restored(k)
SettingsInv == FlagKept /\ RestoreInv

\* Lists: of functions on 1 .. n, end to end, and without their heads.
LEMMA ListOf == ASSUME NEW s, NEW n \in Nat, s = [i \in 1 .. n |-> s[i]] PROVE IsList(s)
<1>1. s \in Seq({s[i] : i \in 1 .. n}) /\ Len(s) = n
  OBVIOUS
<1> QED BY <1>1 DEF IsList, Elems

LEMMA ElemsOf ==
  ASSUME NEW s, NEW t, IsList(s), IsList(t)
  PROVE  IsList(s \o t) /\ Elems(s \o t) = Elems(s) \cup Elems(t)
<1> DEFINE S == Elems(s) \cup Elems(t)
<1>0. s \in Seq(S) /\ t \in Seq(S)
  BY DEF IsList
<1> HIDE DEF S
<1>1. \A i \in 1 .. Len(s) : (s \o t)[i] = s[i]
  BY <1>0
<1>2. \A i \in 1 .. Len(t) : (s \o t)[Len(s) + i] = t[i] /\ Len(s) + i \in 1 .. Len(s \o t)
  BY <1>0
<1>3. Len(s \o t) = Len(s) + Len(t) /\ Len(s) \in Nat /\ Len(t) \in Nat /\ s \o t \in Seq(S)
  BY <1>0
<1>4. \A i \in 1 .. Len(s \o t) : i \in 1 .. Len(s) \/ \E j \in 1 .. Len(t) : i = Len(s) + j
  <2> SUFFICES ASSUME NEW i \in 1 .. Len(s \o t), i \notin 1 .. Len(s) PROVE \E j \in 1 .. Len(t) : i = Len(s) + j
    OBVIOUS
  <2>1. i - Len(s) \in 1 .. Len(t) /\ i = Len(s) + (i - Len(s))
    BY <1>3
  <2> QED BY <2>1
<1>5. ASSUME NEW x \in Elems(s \o t) PROVE x \in Elems(s) \cup Elems(t)
  <2>1. PICK i \in 1 .. Len(s \o t) : x = (s \o t)[i]
    BY DEF Elems
  <2> QED BY <2>1, <1>1, <1>2, <1>4 DEF Elems
<1>6. ASSUME NEW x \in Elems(s) PROVE x \in Elems(s \o t)
  <2>1. PICK i \in 1 .. Len(s) : x = s[i]
    BY DEF Elems
  <2>2. i \in 1 .. Len(s \o t)
    BY <1>3
  <2> QED BY <2>1, <2>2, <1>1 DEF Elems
<1>7. ASSUME NEW x \in Elems(t) PROVE x \in Elems(s \o t)
  BY <1>2 DEF Elems
<1>8. Elems(s \o t) = Elems(s) \cup Elems(t)
  BY <1>5, <1>6, <1>7
<1> QED BY <1>3, <1>8 DEF IsList, S

LEMMA TailOf ==
  ASSUME NEW S, NEW s \in Seq(S), s # <<>>
  PROVE  Head(s) \in S /\ Tail(s) \in Seq(S) /\ Elems(s) = {Head(s)} \cup Elems(Tail(s))
<1>1. Head(s) \in S /\ Tail(s) \in Seq(S) /\ Len(Tail(s)) = Len(s) - 1 /\ Len(s) \in Nat \ {0}
  OBVIOUS
<1>2. Head(s) = s[1] /\ \A i \in 1 .. Len(Tail(s)) : Tail(s)[i] = s[i + 1]
  BY <1>1
<1>3. ASSUME NEW x \in Elems(s) PROVE x \in {Head(s)} \cup Elems(Tail(s))
  <2>1. PICK i \in 1 .. Len(s) : x = s[i]
    BY DEF Elems
  <2>2. CASE i = 1
    BY <2>1, <2>2, <1>2
  <2>3. CASE i # 1
    <3>1. i - 1 \in 1 .. Len(Tail(s)) /\ i - 1 + 1 = i
      BY <1>1, <2>3
    <3>2. Tail(s)[i - 1] = s[i]
      BY <1>2, <3>1
    <3> QED BY <2>1, <3>1, <3>2 DEF Elems
  <2> QED BY <2>2, <2>3
<1>4. ASSUME NEW x \in Elems(Tail(s)) PROVE x \in Elems(s)
  <2>1. PICK i \in 1 .. Len(Tail(s)) : x = Tail(s)[i]
    BY DEF Elems
  <2>2. i + 1 \in 1 .. Len(s)
    BY <1>1
  <2> QED BY <2>1, <2>2, <1>2 DEF Elems
<1>5. Head(s) \in Elems(s)
  BY <1>1, <1>2 DEF Elems
<1> QED BY <1>1, <1>3, <1>4, <1>5

\* The restore's lists one after the other, and what they hold of the settings to be restored.
CTvSaves == <<Put("CVBSStd", 0), Put("LastSelectSourceInput", 0), Put("PanelType", 0),
               Put("DTVProgramID", -1), Put("ATVProgramID", -1), Put("StandbyMode", 0)>>
HdmiSaves == <<Put("HDMIHdcpSwitcher", 0), Put("HDMIColorRangeMode", 0)>>

SavesDefaults(s) == \A e \in Elems(s) : e[1] \in Restorable => e[2] = DefaultOf(e[1])

\* The restore saves what its lists save.
LEMMA RestoreElems ==
  RestoreSaves =
    Elems(SSMRestoreDeviceMarkValues) \cup Elems(MiscSSMRestoreDefault) \cup Elems(ReservedSSMRestoreDefault)
      \cup Elems(CTvSaves) \cup Elems(SSMHDMIEdidRestoreDefault) \cup Elems(HdmiSaves)
  /\ IsList(Tv_SSMRestoreDefaultSetting)
<1>1. IsList(SSMRestoreDeviceMarkValues)
  <2>1. SSMRestoreDeviceMarkValues = [i \in 1 .. 3 |-> SSMRestoreDeviceMarkValues[i]]
    BY DEF SSMRestoreDeviceMarkValues
  <2> QED BY <2>1, ListOf
<1>2. IsList(MiscSSMRestoreDefault)
  <2>1. MiscSSMRestoreDefault = [i \in 1 .. 11 |-> MiscSSMRestoreDefault[i]]
    BY DEF MiscSSMRestoreDefault
  <2> QED BY <2>1, ListOf
<1>3. IsList(ReservedSSMRestoreDefault)
  <2>1. ReservedSSMRestoreDefault = [i \in 1 .. 1 |-> ReservedSSMRestoreDefault[i]]
    BY DEF ReservedSSMRestoreDefault
  <2> QED BY <2>1, ListOf
<1>4. IsList(CTvSaves)
  <2>1. CTvSaves = [i \in 1 .. 6 |-> CTvSaves[i]]
    BY DEF CTvSaves
  <2> QED BY <2>1, ListOf
<1>5. IsList(SSMHDMIEdidRestoreDefault)
  <2>1. SSMHDMIEdidRestoreDefault = [i \in 1 .. 4 |-> SSMHDMIEdidRestoreDefault[i]]
    BY DEF SSMHDMIEdidRestoreDefault, Ports
  <2> QED BY <2>1, ListOf
<1>6. IsList(HdmiSaves)
  <2>1. HdmiSaves = [i \in 1 .. 2 |-> HdmiSaves[i]]
    BY DEF HdmiSaves
  <2> QED BY <2>1, ListOf
<1> DEFINE a == SSMRestoreDeviceMarkValues \o MiscSSMRestoreDefault
           b == a \o ReservedSSMRestoreDefault
           c == b \o CTvSaves
           d == c \o SSMHDMIEdidRestoreDefault
<1>7. IsList(a) /\ Elems(a) = Elems(SSMRestoreDeviceMarkValues) \cup Elems(MiscSSMRestoreDefault)
  BY <1>1, <1>2, ElemsOf
<1> HIDE DEF a
<1>8. IsList(b) /\ Elems(b) = Elems(a) \cup Elems(ReservedSSMRestoreDefault)
  BY <1>3, <1>7, ElemsOf
<1> HIDE DEF b
<1>9. IsList(c) /\ Elems(c) = Elems(b) \cup Elems(CTvSaves)
  BY <1>4, <1>8, ElemsOf
<1> HIDE DEF c
<1>10. IsList(d) /\ Elems(d) = Elems(c) \cup Elems(SSMHDMIEdidRestoreDefault)
  BY <1>5, <1>9, ElemsOf
<1> HIDE DEF d
<1>11. IsList(d \o HdmiSaves) /\ Elems(d \o HdmiSaves) = Elems(d) \cup Elems(HdmiSaves)
  BY <1>6, <1>10, ElemsOf
<1>12. Tv_SSMRestoreDefaultSetting = d \o HdmiSaves
  BY DEF Tv_SSMRestoreDefaultSetting, a, b, c, d, CTvSaves, HdmiSaves
<1> QED BY <1>7, <1>8, <1>9, <1>10, <1>11, <1>12 DEF RestoreSaves

\* It saves every setting a client finds restored, and each with its default.
LEMMA RestoreIsWhole ==
  /\ \A e \in RestoreSaves : e[1] \in Restorable => e[2] = DefaultOf(e[1])
  /\ \A k \in Restorable : \E e \in RestoreSaves : e[1] = k
<1> USE DEF Elems, Put, Restorable, Zeros, Edids, ConfigSettings, Edid, Ports
<1>1. SavesDefaults(SSMRestoreDeviceMarkValues)
  BY DEF SavesDefaults, SSMRestoreDeviceMarkValues, Marks, MarkValue, DefaultOf
<1>2. SavesDefaults(MiscSSMRestoreDefault)
  BY DEF SavesDefaults, MiscSSMRestoreDefault, PutFlag, Mask, DefaultOf
<1>3. SavesDefaults(ReservedSSMRestoreDefault)
  BY DEF SavesDefaults, ReservedSSMRestoreDefault, DefaultOf
<1>4. SavesDefaults(CTvSaves)
  BY DEF SavesDefaults, CTvSaves, DefaultOf
<1>5. SavesDefaults(SSMHDMIEdidRestoreDefault)
  BY DEF SavesDefaults, SSMHDMIEdidRestoreDefault, DefaultOf
<1>6. SavesDefaults(HdmiSaves)
  BY DEF SavesDefaults, HdmiSaves, DefaultOf
<1>7. ToCome(SSMRestoreDeviceMarkValues, "Mark01")
  <2>1. Len(SSMRestoreDeviceMarkValues) = 3 /\ SSMRestoreDeviceMarkValues[1][1] = "Mark01"
    BY DEF SSMRestoreDeviceMarkValues, Marks
  <2> QED BY <2>1 DEF ToCome
<1>8. \A k \in {"FactoryBurnMode", "SystemLanguage", "AgingMode", "PanelType", "BlackoutEnable",
                 "ParentalControlSwitch", "PowerOnMusicVolume", "PowerOnOffChannel"} : ToCome(MiscSSMRestoreDefault, k)
  BY DEF ToCome, MiscSSMRestoreDefault
<1>9. \A k \in {"CVBSStd", "DTVProgramID", "ATVProgramID", "StandbyMode"} : ToCome(CTvSaves, k)
  BY DEF ToCome, CTvSaves
<1>10. \A k \in Edids : ToCome(SSMHDMIEdidRestoreDefault, k)
  <2> SUFFICES ASSUME NEW p \in Ports PROVE ToCome(SSMHDMIEdidRestoreDefault, Edid(p))
    BY DEF Edids
  <2> HIDE DEF Edid
  <2>1. Len(SSMHDMIEdidRestoreDefault) = 4 /\ SSMHDMIEdidRestoreDefault[p][1] = Edid(p)
    BY DEF SSMHDMIEdidRestoreDefault
  <2> QED BY <2>1 DEF ToCome
<1>11. \A k \in {"HDMIHdcpSwitcher", "HDMIColorRangeMode"} : ToCome(HdmiSaves, k)
  BY DEF ToCome, HdmiSaves
<1>12. \A e \in RestoreSaves : e[1] \in Restorable => e[2] = DefaultOf(e[1])
  BY <1>1, <1>2, <1>3, <1>4, <1>5, <1>6, RestoreElems DEF SavesDefaults
<1>13. \A k \in Restorable : \E e \in RestoreSaves : e[1] = k
  <2> HIDE DEF Elems, Put, Edids
  <2> SUFFICES ASSUME NEW k \in Restorable PROVE \E e \in RestoreSaves : e[1] = k
    OBVIOUS
  <2>1. \/ ToCome(SSMRestoreDeviceMarkValues, k) \/ ToCome(MiscSSMRestoreDefault, k) \/ ToCome(CTvSaves, k)
        \/ ToCome(SSMHDMIEdidRestoreDefault, k) \/ ToCome(HdmiSaves, k)
    BY <1>7, <1>8, <1>9, <1>10, <1>11
  <2> QED BY <2>1, RestoreElems DEF ToCome
<1> QED BY <1>12, <1>13

\* A restored setting reads as its default.
LEMMA ReadsDefault == ASSUME NEW k \in Restorable, Restored(k) PROVE Reads(k) = DefaultOf(k)
<1> DEFINE d == DefaultOf(k)
<1>1. Reads(k) = Loaded(k, Stored(k, d), 0)
  BY DEF Reads, Restored
<1>2. k \in SettingNames
  BY DEF Restorable, Zeros, SettingNames, PowerSettings, ParentalSettings, ModeSettings, InputSettings, BacklightSettings,
         HdmiSettings, MarkSettings, Marks
<1>3. CASE k \in {"FactoryBurnMode", "ParentalControlSwitch"}
  <2>1. Setting[k] = Entry(1, 1, "flag") /\ d = 0
    BY <1>2, <1>3 DEF Setting, DefaultOf, Zeros, Edids, Edid, Ports, ConfigSettings
  <2> QED BY <1>1, <2>1 DEF Stored, Loaded, Entry
<1>4. CASE k \in Edids \cup {"HDMIHdcpSwitcher"}
  <2>1. Setting[k] = Entry(1, 1, "capped") /\ d \in {0, 1}
    BY <1>2, <1>4, SettingsAssumption DEF SettingsAssumption, Setting, DefaultOf, Zeros, Edids, Edid, Ports, ConfigSettings
  <2> QED BY <1>1, <2>1 DEF Stored, Loaded, Entry
<1>5. CASE k = "BlackoutEnable"
  <2>1. Setting[k] = Entry(1, 1, "signed") /\ d = 0
    BY <1>2, <1>5 DEF Setting, DefaultOf, Zeros, Edids, Edid, Ports, ConfigSettings
  <2> QED BY <1>1, <2>1 DEF Stored, Loaded, Entry
<1>6. CASE k \in {"AgingMode"} \cup ConfigSettings
  <2>1. Setting[k] = Entry(4, 4, "value") /\ d \in Int
    BY <1>2, <1>6 DEF Setting, DefaultOf, Zeros, Edids, Edid, Ports, ConfigSettings
  <2> QED BY <1>1, <2>1 DEF Stored, Loaded, Entry
<1>7. CASE k \in {"SystemLanguage", "PanelType", "StandbyMode", "CVBSStd", "HDMIColorRangeMode", "PowerOnMusicVolume",
                   "PowerOnOffChannel", "Mark01"}
  <2>1. Setting[k] = Entry(1, 1, "value") /\ d \in 0 .. 255
    BY <1>2, <1>7 DEF Setting, DefaultOf, Zeros, Edids, Edid, Ports, ConfigSettings
  <2> QED BY <1>1, <2>1 DEF Stored, Loaded, Entry
<1> QED BY <1>3, <1>4, <1>5, <1>6, <1>7 DEF Restorable, Zeros

LEMMA RestoreIsRead == RestoreInv => RestoredReadsDefault
<1> SUFFICES ASSUME RestoreInv, restore = "done" PROVE RestoredReadsDefault
  BY DEF RestoredReadsDefault
<1>1. \A k \in Restorable : Reads(k) = DefaultOf(k)
  BY ReadsDefault DEF RestoreInv
<1>2. \A k \in Zeros : Reads(k) = 0
  BY <1>1 DEF Restorable, DefaultOf, Zeros, ConfigSettings, Edids, Edid, Ports
<1>3. \A k \in ConfigSettings : Reads(k) = -1
  BY <1>1 DEF Restorable, DefaultOf, Zeros, ConfigSettings, Edids, Edid, Ports
<1>4. \A p \in Ports : Reads(Edid(p)) = EdidDefault
  <2> SUFFICES ASSUME NEW p \in Ports PROVE Reads(Edid(p)) = EdidDefault
    OBVIOUS
  <2>1. Edid(p) \in Edids
    BY DEF Edids
  <2>2. \A e \in Edids : DefaultOf(e) = EdidDefault
    BY DEF DefaultOf, Edids, Edid, Ports, Zeros, ConfigSettings
  <2> QED BY <1>1, <2>1, <2>2 DEF Restorable
<1>5. Reads("PowerOnMusicVolume") = 20 /\ Reads("PowerOnOffChannel") = 1 /\ Reads("Mark01") = 221
  BY <1>1 DEF Restorable, DefaultOf, Zeros, ConfigSettings, Edids, Edid, Ports
<1>6. DeviceMarkCheck
  BY <1>5 DEF DeviceMarkCheck, Marks, MarkValue
<1>7. \A s \in Sources : ~Blocked(s)
  BY <1>2 DEF Zeros, Blocked
<1> QED BY <1>2, <1>3, <1>4, <1>5, <1>6, <1>7 DEF RestoredReadsDefault, Zeros, ConfigSettings

LEMMA SettingsInitInv == SettingsInit => SettingsInv
  BY DEF SettingsInit, SettingsInv, FlagKept, RestoreInv

\* A restore that meets nothing else goes on from save to save.
LEMMA SaveDone ==
  ASSUME RestoreInv, NEW c \in Users, ~Idle(c), Done(c), saving = [d \in Users |-> saving[d]], reachable' = reachable,
         \A k \in Restorable : Restored(k) /\ NextSave(c)[1] # k => Restored(k)',
         reachable = TRUE /\ NextSave(c) \in RestoreSaves =>
           \A k \in Restorable : NextSave(c)[1] = k => Restored(k)'
  PROVE  RestoreInv'
<1>1. CASE restore = "going"
  <2>1. PICK d \in Users : RestoreGoes(d)
    BY <1>1 DEF RestoreInv
  <2>2. RestoreGoes(c) /\ reachable = TRUE
    BY <1>1, <2>1 DEF RestoreGoes, Idle, RestoreInv
  <2>3. /\ NextSave(c) \in RestoreSaves /\ Tail(saving[c]) \in Seq(RestoreSaves)
        /\ Elems(saving[c]) = {NextSave(c)} \cup Elems(Tail(saving[c]))
    BY <2>2, TailOf DEF RestoreGoes, NextSave
  <2>4. \A k \in Restorable : Restored(k)' \/ ToCome(Tail(saving[c]), k)
    BY <2>2, <2>3 DEF RestoreGoes, ToCome
  <2>5. saving'[c] = Tail(saving[c]) /\ \A e \in Users : e # c => saving'[e] = <<>>
    BY <2>2 DEF Done, RestoreGoes
  <2>6. CASE Tail(saving[c]) = <<>>
    <3>1. restore' = "done"
      BY <1>1, <2>6 DEF Done
    <3>2. \A k \in Restorable : ~ToCome(<<>>, k)
      BY DEF ToCome, Elems
    <3> QED BY <2>4, <2>5, <2>6, <3>1, <3>2 DEF RestoreInv
  <2>7. CASE Tail(saving[c]) # <<>>
    <3>1. restore' = "going"
      BY <1>1, <2>7 DEF Done
    <3>2. RestoreGoes(c)'
      BY <2>3, <2>4, <2>5, <2>7 DEF RestoreGoes, ToCome
    <3> QED BY <2>2, <3>1, <3>2 DEF RestoreInv
  <2> QED BY <2>6, <2>7
<1>2. CASE restore # "going"
  BY <1>2 DEF RestoreInv, Done, Idle
<1> QED BY <1>1, <1>2

\* A call that starts a restore while nobody else has one under way.
LEMMA CallStarts ==
  ASSUME NEW c \in Users, NEW list, NewCall(c, list), saving = [d \in Users |-> saving[d]]
  PROVE  RestoreInv'
<1> SUFFICES ASSUME restore' = "going" PROVE reachable' = TRUE /\ RestoreGoes(c)'
  BY DEF RestoreInv, NewCall
<1>1. list = Tv_SSMRestoreDefaultSetting /\ reachable = TRUE /\ reachable' = reachable /\ \A d \in Users : Idle(d)
  BY DEF NewCall
<1>2. saving'[c] = Tv_SSMRestoreDefaultSetting /\ \A d \in Users : d # c => saving'[d] = <<>>
  BY <1>1 DEF NewCall, Idle
<1>3. Tv_SSMRestoreDefaultSetting \in Seq(RestoreSaves) /\ \A k \in Restorable : ToCome(Tv_SSMRestoreDefaultSetting, k)
  BY RestoreElems, RestoreIsWhole DEF IsList, RestoreSaves, ToCome
<1>4. Tv_SSMRestoreDefaultSetting # <<>>
  <2>1. ~ToCome(<<>>, "Mark01") /\ "Mark01" \in Restorable
    BY DEF ToCome, Elems, Restorable
  <2> QED BY <1>3, <2>1
<1> QED BY <1>1, <1>2, <1>3, <1>4 DEF RestoreGoes, ToCome

SettingTypes == saving = [c \in Users |-> saving[c]] /\ asked = [s \in Sources |-> asked[s]]

\* What a mask that is written leaves of the flags.
LEMMA FlagWritten == ASSUME FlagKept, NEW c \in Users, WriteMask(c) PROVE FlagKept'
<1> SUFFICES ASSUME NEW s \in Sources, asked'[s] # -1 PROVE (s \in parental') <=> (asked'[s] = 1)
  BY DEF FlagKept
<1> DEFINE flag == NextSave(c)[2]
           source == NextSave(c)[3]
<1>1. /\ parental' = IF reachable THEN WithFlag(seen[c], source, flag) ELSE parental
      /\ asked'[s] = CASE s = source -> IF reachable THEN flag ELSE -1
                       [] s # source /\ reachable /\ seen[c] # parental -> -1
                       [] OTHER -> asked[s]
  BY DEF WriteMask
<1> HIDE DEF flag, source
<1>2. CASE s = source
  BY <1>1, <1>2 DEF WithFlag
<1>3. CASE s # source /\ reachable
  BY <1>1, <1>3 DEF WithFlag, FlagKept
<1>4. CASE s # source /\ ~reachable
  BY <1>1, <1>4 DEF FlagKept
<1> QED BY <1>2, <1>3, <1>4

\* A crash or an absence ends what is under way and leaves what is restored.
LEMMA RestoreStops ==
  ASSUME RestoreInv, restore' = Ended, UNCHANGED blob, saving' = saving \/ saving' = [c \in Users |-> <<>>]
  PROVE  RestoreInv'
  BY DEF RestoreInv, Ended, Restored

\* Every step keeps both halves.
LEMMA SettingsNextInv == SettingsInv /\ SettingTypes /\ [SettingsNext]_settingVars => SettingsInv' /\ SettingTypes'
<1> SUFFICES ASSUME SettingsInv, SettingTypes, [SettingsNext]_settingVars PROVE SettingsInv' /\ SettingTypes'
  OBVIOUS
<1> USE DEF SettingsInv
<1>1. CASE UNCHANGED settingVars
  <2>1. UNCHANGED <<blob, parental, reachable, saving, asked, restore>>
    BY <1>1 DEF settingVars, callVars
  <2> QED BY <2>1 DEF FlagKept, RestoreInv, RestoreGoes, Restored, SettingTypes
<1>2. CASE StartUp \/ CopyByte
  <2>1. UNCHANGED <<blob, parental, reachable, saving, asked, restore>>
    BY <1>2 DEF StartUp, CopyByte, callVars
  <2> QED BY <2>1 DEF FlagKept, RestoreInv, RestoreGoes, Restored, SettingTypes
<1>3. CASE ServerCrash \/ SystemControl
  <2>1. UNCHANGED <<blob, parental, asked>> /\ restore' = Ended /\ (saving' = saving \/ saving' = [c \in Users |-> <<>>])
    BY <1>3 DEF ServerCrash, SystemControl
  <2>2. SettingTypes'
    BY <2>1 DEF SettingTypes
  <2> QED BY <2>1, <2>2, RestoreStops DEF FlagKept
<1>4. ASSUME NEW c \in Users, NEW list, NewCall(c, list) PROVE SettingsInv' /\ SettingTypes'
  <2>1. RestoreInv'
    BY <1>4, CallStarts DEF SettingTypes
  <2> QED BY <1>4, <2>1 DEF NewCall, SettingTypes, FlagKept
<1>5. ASSUME NEW c \in Users, Save(c) \/ SaveFlag(c) \/ RestoreDefault(c) \/ FacRestoreDefault(c) \/ PictureDefault(c)
      PROVE  SettingsInv' /\ SettingTypes'
  BY <1>4, <1>5 DEF Save, SaveFlag, RestoreDefault, FacRestoreDefault, PictureDefault
<1>6. ASSUME NEW c \in Users, WriteNTypes(c) PROVE SettingsInv' /\ SettingTypes'
  <2> DEFINE k0 == NextSave(c)[1]
             v0 == NextSave(c)[2]
  <2>1. /\ blob' = [x \in DOMAIN blob \cup (IF Keeps(k0) THEN {k0} ELSE {}) |->
                     IF x = k0 /\ Keeps(k0) THEN Stored(k0, v0) ELSE blob[x]]
        /\ ~Idle(c) /\ Done(c) /\ UNCHANGED <<parental, reachable, asked>>
    BY <1>6 DEF WriteNTypes
  <2>2. ASSUME NEW k \in Restorable, k # k0, Restored(k) PROVE Restored(k)'
    BY <2>1, <2>2 DEF Restored
  <2>3. ASSUME NEW k \in Restorable, k = k0, reachable = TRUE, NextSave(c) \in RestoreSaves PROVE Restored(k)'
    <3>1. v0 = DefaultOf(k0) /\ Keeps(k0)
      BY <2>3, RestoreIsWhole DEF Keeps
    <3> QED BY <2>1, <2>3, <3>1 DEF Restored
  <2>4. RestoreInv'
    BY <2>1, <2>2, <2>3, SaveDone DEF SettingTypes
  <2> QED BY <2>1, <2>4 DEF FlagKept, SettingTypes, Done
<1>7. ASSUME NEW c \in Users, ReadMask(c) PROVE SettingsInv' /\ SettingTypes'
  <2>1. UNCHANGED <<blob, parental, reachable, saving, asked, restore>>
    BY <1>7 DEF ReadMask
  <2> QED BY <2>1 DEF FlagKept, RestoreInv, RestoreGoes, Restored, SettingTypes
<1>8. ASSUME NEW c \in Users, WriteMask(c) PROVE SettingsInv' /\ SettingTypes'
  <2>1. UNCHANGED <<blob, reachable>> /\ Done(c) /\ ~Idle(c) /\ NextSave(c)[1] = Mask
    BY <1>8 DEF WriteMask
  <2>2. \A k \in Restorable : k # Mask
    BY DEF Mask, Restorable, Zeros, ConfigSettings, Edids, Edid, Ports
  <2>3. RestoreInv'
    BY <2>1, <2>2, SaveDone DEF SettingTypes, Restored
  <2>4. SettingTypes'
    BY <1>8 DEF WriteMask, Done, SettingTypes
  <2> QED BY <1>8, <2>3, <2>4, FlagWritten
<1> QED BY <1>1, <1>2, <1>3, <1>5, <1>6, <1>7, <1>8 DEF SettingsNext

(* What was set, and what was restored, is what is read: SSMSaveInputSourceParentalControl's flags *)
(* and Tv_SSMRestoreDefaultSetting.                                                                *)
THEOREM SettingsStay == SettingsSpec => []SettingsKept
<1>1. SettingsInit => SettingsInv /\ SettingTypes
  BY SettingsInitInv DEF SettingsInit, SettingTypes
<1>2. SettingsInv => SettingsKept
  BY RestoreIsRead DEF SettingsInv, SettingsKept
<1> QED BY <1>1, <1>2, SettingsNextInv, PTL DEF SettingsSpec

-----------------------------------------------------------------------------
(* Keys and curve.  The key that was saved last lies in its region of its  *)
(* file, which nothing else is written to.                                 *)

\* A file is a sequence of some length.
IsBytes(f) == \E n \in Nat : f = [i \in 1 .. n |-> f[i]]
KeyAt == layout.at["key"]

KeyLies ==
  /\ ~Refused("key", 0, TotalSize) /\ KeyAt.path \in DOMAIN files
  /\ keySaved = [i \in 1 .. TotalSize |-> keySaved[i]]
  /\ \A i \in 1 .. TotalSize : /\ KeyAt.offset + i \in DOMAIN files[KeyAt.path]
                               /\ files[KeyAt.path][KeyAt.offset + i] = keySaved[i]
KeyInv ==
  /\ layout \in Layouts
  /\ files = [path \in DOMAIN layout.length |-> files[path]]
  /\ \A r \in Regions : layout.at[r].path # "" => IsBytes(files[layout.at[r].path])
  /\ keySaved # <<>> => KeyLies

\* What the layouts say of a region.
LEMMA RegionOf ==
  ASSUME layout \in Layouts, NEW r \in Regions
  PROVE  layout.at[r].offset \in Int /\ (layout.at[r].path = "" \/ layout.at[r].path \in DOMAIN layout.length)
BY KeyLayoutsAssumption

LEMMA SizesAre == TotalSize \in Nat \ {0} /\ AudioSize \in Nat \ {0}
BY KeySizesAssumption DEF TotalSize

LEMMA KeyFound == KeyInv => SavedKeyIsFound
<1> SUFFICES ASSUME KeyInv, keySaved # <<>> PROVE BytesRead("key", 0, TotalSize) = keySaved
  BY DEF SavedKeyIsFound
<1>1. KeyLies
  BY DEF KeyInv
<1>2. KeyAt.offset \in Int
  <2>1. "key" \in Regions
    BY DEF Regions
  <2> QED BY <2>1, RegionOf DEF KeyInv, KeyAt
<1>3. Start("key", 0) = KeyAt.offset
  <2>1. KeyAt.offset + 0 = KeyAt.offset
    BY <1>2
  <2> QED BY <2>1 DEF Start, KeyAt
<1> QED BY <1>1, <1>3 DEF KeyLies, BytesRead, RegionFile, KeyAt

\* What a write leaves: the file's other bytes, and the data where they were put.
LEMMA Written ==
  ASSUME KeyInv, NEW r \in Regions, NEW off \in Nat, NEW data, NEW size \in Nat \ {0},
         data = [i \in 1 .. size |-> data[i]], ~Refused(r, off, size)
  PROVE  LET old == files[RegionFile(r)]
             new == BytesWritten(r, off, data)
             first == layout.at[r].offset + off
         IN /\ IsBytes(new) /\ first \in Nat
            /\ \A i \in 1 .. size : first + i \in DOMAIN new /\ new[first + i] = data[i]
            /\ \A j \in DOMAIN old : (j <= first \/ j > first + size) => j \in DOMAIN new /\ new[j] = old[j]
<1> DEFINE old == files[RegionFile(r)]
           first == layout.at[r].offset + off
           new == BytesWritten(r, off, data)
<1>1. layout.at[r].offset \in Nat /\ layout.at[r].path # ""
  <2>1. layout.at[r].offset \in Int
    BY RegionOf DEF KeyInv
  <2>2. ~(layout.at[r].offset < 0)
    BY DEF Refused
  <2>3. layout.at[r].path # ""
    BY DEF Refused
  <2>4. layout.at[r].offset \in Nat
    BY <2>1, <2>2
  <2> QED BY <2>3, <2>4
<1>2. PICK n \in Nat : old = [i \in 1 .. n |-> old[i]]
  BY <1>1 DEF KeyInv, IsBytes, RegionFile
<1>3. first \in Nat /\ Start(r, off) = first
  <2>1. layout.at[r].offset \in Nat
    BY <1>1
  <2> QED BY <2>1 DEF Start
<1>4. Len(data) = size /\ Len(old) = n
  <2>1. \A s, m \in Nat : s = [i \in 1 .. m |-> s[i]] => Len(s) = m
    OBVIOUS
  <2> QED BY <1>2
<1> DEFINE length == IF first + size > n THEN first + size ELSE n
<1>5. new = [i \in 1 .. length |->
              CASE i \in (first + 1) .. (first + size) -> data[i - first]
                [] i \notin (first + 1) .. (first + size) /\ i <= n -> old[i]
                [] OTHER -> Undefined]
  BY <1>3, <1>4 DEF BytesWritten
<1>6. length \in Nat /\ length >= first + size /\ length >= n
  BY <1>3
<1> HIDE DEF new, old, first, length
<1>7. IsBytes(new)
  <2>1. new = [i \in 1 .. length |-> new[i]]
    BY <1>5
  <2> QED BY <1>6, <2>1 DEF IsBytes
<1>8. ASSUME NEW i \in 1 .. size PROVE first + i \in DOMAIN new /\ new[first + i] = data[i]
  <2>1. first + i \in 1 .. length /\ first + i \in (first + 1) .. (first + size) /\ first + i - first = i
    BY <1>3, <1>6
  <2> DEFINE j == first + i
  <2> HIDE DEF j
  <2>2. j \in 1 .. length /\ j \in (first + 1) .. (first + size) /\ j - first = i
    BY <1>3, <2>1 DEF j
  <2>3. j \in DOMAIN new /\ new[j] = data[j - first]
    BY <1>5, <2>2
  <2> QED BY <2>2, <2>3 DEF j
<1>9. ASSUME NEW j \in DOMAIN old, j <= first \/ j > first + size PROVE j \in DOMAIN new /\ new[j] = old[j]
  <2>1. j \in 1 .. n
    BY <1>2
  <2>2. j \in 1 .. length /\ j \notin (first + 1) .. (first + size) /\ j <= n
    BY <1>3, <1>6, <1>9, <2>1
  <2> QED BY <1>5, <2>2
<1> QED BY <1>3, <1>7, <1>8, <1>9 DEF new, old, first

LEMMA KeyInitInv == KeyInit => KeyInv
<1> SUFFICES ASSUME KeyInit PROVE KeyInv
  OBVIOUS
<1>1. files = [path \in DOMAIN layout.length |-> files[path]] /\ layout \in Layouts /\ keySaved = <<>>
  BY DEF KeyInit
<1>2. ASSUME NEW r \in Regions, layout.at[r].path # "" PROVE IsBytes(files[layout.at[r].path])
  <2> DEFINE path == layout.at[r].path
             n == layout.length[path]
  <2>1. n \in Nat /\ path \in DOMAIN layout.length
    BY <1>1, <1>2, KeyLayoutsAssumption
  <2>2. files[path] = [i \in 1 .. n |-> "shipped"]
    BY <2>1 DEF KeyInit
  <2> HIDE DEF n, path
  <2>3. files[path] = [i \in 1 .. n |-> files[path][i]]
    BY <2>2
  <2> QED BY <2>1, <2>3 DEF IsBytes, path
<1> QED BY <1>1, <1>2 DEF KeyInv

\* A save of the key puts it there, one of the audio curve does not touch it.
LEMMA FileWritten ==
  ASSUME KeyInv, NEW r \in Regions, NEW off \in Nat, NEW data, NEW size \in Nat \ {0},
         data = [i \in 1 .. size |-> data[i]], ~Refused(r, off, size), UNCHANGED layout,
         files' = [files EXCEPT ![RegionFile(r)] = BytesWritten(r, off, data)]
  PROVE  /\ layout' \in Layouts /\ files' = [path \in DOMAIN layout'.length |-> files'[path]]
         /\ \A q \in Regions : layout'.at[q].path # "" => IsBytes(files'[layout'.at[q].path])
<1>1. IsBytes(BytesWritten(r, off, data))
  BY Written
<1>2. \A path \in DOMAIN layout.length :
        files'[path] = IF path = RegionFile(r) THEN BytesWritten(r, off, data) ELSE files[path]
  BY DEF KeyInv
<1>3. files' = [path \in DOMAIN layout.length |-> files'[path]]
  BY DEF KeyInv
<1>4. ASSUME NEW q \in Regions, layout.at[q].path # "" PROVE IsBytes(files'[layout.at[q].path])
  <2>1. layout.at[q].path \in DOMAIN layout.length
    BY <1>4, RegionOf DEF KeyInv
  <2>2. IsBytes(files[layout.at[q].path])
    BY <1>4 DEF KeyInv
  <2> QED BY <1>1, <1>2, <2>1, <2>2
<1> QED BY <1>3, <1>4 DEF KeyInv

LEMMA KeyWritten ==
  ASSUME KeyInv, NEW key \in Keys, ~Refused("key", 0, TotalSize), UNCHANGED layout, keySaved' = key,
         files' = [files EXCEPT ![RegionFile("key")] = BytesWritten("key", 0, key)]
  PROVE  KeyInv'
<1>1. key = [i \in 1 .. TotalSize |-> key[i]] /\ "key" \in Regions /\ TotalSize \in Nat \ {0}
  BY KeyLayoutsAssumption, SizesAre DEF Regions
<1>2. /\ layout' \in Layouts /\ files' = [path \in DOMAIN layout'.length |-> files'[path]]
      /\ \A q \in Regions : layout'.at[q].path # "" => IsBytes(files'[layout'.at[q].path])
  BY <1>1, FileWritten
<1> DEFINE new == BytesWritten("key", 0, key)
<1>3. \A i \in 1 .. TotalSize : layout.at["key"].offset + 0 + i \in DOMAIN new /\ new[layout.at["key"].offset + 0 + i] = key[i]
  BY <1>1, Written
<1>4. KeyAt.path \in DOMAIN files /\ KeyAt.offset \in Int
  <2>1. layout \in Layouts /\ layout.at["key"].path # "" /\ DOMAIN files = DOMAIN layout.length
    BY DEF KeyInv, Refused
  <2> QED BY <1>1, <2>1, RegionOf DEF KeyAt
<1>5. files'[KeyAt.path] = new /\ DOMAIN files' = DOMAIN files
  BY <1>4 DEF RegionFile, KeyAt
<1> HIDE DEF new
<1>6. ASSUME NEW i \in 1 .. TotalSize
      PROVE  KeyAt.offset + i \in DOMAIN new /\ new[KeyAt.offset + i] = key[i]
  <2>1. KeyAt.offset + 0 + i = KeyAt.offset + i
    BY <1>4
  <2> QED BY <1>3, <2>1 DEF KeyAt
<1>7. KeyLies'
  BY <1>1, <1>4, <1>5, <1>6 DEF KeyLies, KeyAt, Refused
<1> QED BY <1>2, <1>7 DEF KeyInv

LEMMA CurveWritten ==
  ASSUME KeyInv, NEW off \in Nat, NEW size \in Nat \ {0}, NEW data, data = [i \in 1 .. size |-> data[i]],
         ~Refused("audio", off, size), UNCHANGED <<layout, keySaved>>,
         files' = [files EXCEPT ![RegionFile("audio")] = BytesWritten("audio", off, data)]
  PROVE  KeyInv'
<1>1. "audio" \in Regions /\ "key" \in Regions /\ TotalSize \in Nat \ {0} /\ AudioSize \in Nat \ {0}
  BY SizesAre DEF Regions
<1>2. /\ layout' \in Layouts /\ files' = [path \in DOMAIN layout'.length |-> files'[path]]
      /\ \A q \in Regions : layout'.at[q].path # "" => IsBytes(files'[layout'.at[q].path])
  BY <1>1, FileWritten
<1> SUFFICES ASSUME keySaved # <<>>, KeyLies PROVE KeyLies'
  BY <1>2 DEF KeyInv
<1> DEFINE a == layout.at["audio"].offset
           k == KeyAt.offset
           new == BytesWritten("audio", off, data)
           old == files[RegionFile("audio")]
<1>3. \A j \in DOMAIN old : (j <= a + off \/ j > a + off + size) => j \in DOMAIN new /\ new[j] = old[j]
  BY <1>1, Written
<1>4. a \in Int /\ k \in Int /\ a >= 0 /\ off + size <= AudioSize
  <2>1. a \in Int /\ k \in Int
    BY <1>1, RegionOf DEF KeyInv, KeyAt
  <2>2. ~(a < 0) /\ ~(off + size > AudioSize)
    BY DEF Refused, SizeOf
  <2> QED BY <1>1, <2>1, <2>2
<1>5. CASE KeyAt.path = RegionFile("audio")
  <2>1. KeyApart(layout.at["key"], layout.at["audio"])
    BY KeyLayoutsAssumption DEF KeyInv
  <2>2. k + TotalSize <= a \/ a + AudioSize <= k
    BY <1>4, <1>5, <2>1 DEF KeyApart, KeyAt, RegionFile
  <2>3. files'[KeyAt.path] = new /\ old = files[KeyAt.path] /\ DOMAIN files' = DOMAIN files
    BY <1>5 DEF KeyLies
  <2> HIDE DEF a, k, new, old
  <2>4. ASSUME NEW i \in 1 .. TotalSize PROVE k + i \in DOMAIN new /\ new[k + i] = keySaved[i]
    <3>1. k + i <= a + off \/ k + i > a + off + size
      BY <1>1, <1>4, <2>2
    <3>2. k + i \in DOMAIN old /\ old[k + i] = keySaved[i]
      BY <2>3 DEF KeyLies, k
    <3> QED BY <1>3, <3>1, <3>2
  <2> QED BY <2>3, <2>4 DEF KeyLies, KeyAt, Refused, k
<1>6. CASE KeyAt.path # RegionFile("audio")
  <2>1. files'[KeyAt.path] = files[KeyAt.path] /\ DOMAIN files' = DOMAIN files
    BY <1>6 DEF KeyLies
  <2> QED BY <2>1 DEF KeyLies, KeyAt, Refused
<1> QED BY <1>5, <1>6

\* Nothing else touches what a key is found by.
LEMMA KeyStays ==
  ASSUME KeyInv, UNCHANGED <<layout, files, keySaved>> PROVE KeyInv'
  BY DEF KeyInv, KeyLies, KeyAt, Refused

LEMMA KeyNextInv == KeyInv /\ [KeyNext]_keyVars => KeyInv'
<1> SUFFICES ASSUME KeyInv, [KeyNext]_keyVars PROVE KeyInv'
  OBVIOUS
<1>1. CASE UNCHANGED keyVars
  BY <1>1, KeyStays DEF keyVars
<1>2. ASSUME NEW name \in Names, KeyData_Save(name) \/ KeyData_Read(name) PROVE KeyInv'
  BY <1>2, KeyStays DEF KeyData_Save, KeyData_Read
<1>3. CASE SSMSaveHDCPKey
  <2>1. PICK key \in Keys, outcome \in Outcomes, full \in BOOLEAN :
          /\ IF ~Refused("key", 0, TotalSize)
             THEN SaveRegion("key", 0, key, outcome, full) ELSE UNCHANGED <<files, leaked>>
          /\ IF Refused("key", 0, TotalSize) \/ outcome # "done"
             THEN UNCHANGED keySaved ELSE keySaved' = IF full THEN key ELSE keySaved
          /\ UNCHANGED layout
    BY <1>3 DEF SSMSaveHDCPKey
  <2>2. CASE ~Refused("key", 0, TotalSize) /\ outcome = "done" /\ full = TRUE
    BY <2>1, <2>2, KeyWritten DEF SaveRegion
  <2>3. CASE ~(~Refused("key", 0, TotalSize) /\ outcome = "done" /\ full = TRUE)
    BY <2>1, <2>3, KeyStays DEF SaveRegion
  <2> QED BY <2>2, <2>3
<1>4. CASE SSMSetHDCPKey
  BY <1>4, KeyStays DEF SSMSetHDCPKey
<1>5. CASE SSMSaveAudioNoLinePoints
  <2>1. PICK off \in -1 .. AudioSize, size \in 1 .. AudioSize, outcome \in Outcomes, full \in BOOLEAN :
          /\ IF Refused("audio", off, size) THEN UNCHANGED <<files, leaked>>
             ELSE SaveRegion("audio", off, [i \in 1 .. size |-> "saved"], outcome, full)
          /\ UNCHANGED <<layout, keySaved>>
    BY <1>5 DEF SSMSaveAudioNoLinePoints
  <2> DEFINE data == [i \in 1 .. size |-> "saved"]
  <2>2. CASE ~Refused("audio", off, size) /\ outcome = "done" /\ full = TRUE
    <3>1. off \in Nat /\ size \in Nat \ {0}
      <4>1. ~(off < 0)
        BY <2>2 DEF Refused
      <4> QED BY <4>1, SizesAre
    <3>2. data = [i \in 1 .. size |-> data[i]]
      OBVIOUS
    <3>3. files' = [files EXCEPT ![RegionFile("audio")] = BytesWritten("audio", off, data)]
      BY <2>1, <2>2 DEF SaveRegion
    <3> HIDE DEF data
    <3> QED BY <2>1, <2>2, <3>1, <3>2, <3>3, CurveWritten
  <2>3. CASE ~(~Refused("audio", off, size) /\ outcome = "done" /\ full = TRUE)
    BY <2>1, <2>3, KeyStays DEF SaveRegion
  <2> QED BY <2>2, <2>3
<1>6. ASSUME NEW port \in 1 .. 4, SSMSetHDMIEdid(port) PROVE KeyInv'
  BY <1>6, KeyStays DEF SSMSetHDMIEdid
<1> QED BY <1>1, <1>2, <1>3, <1>4, <1>5, <1>6 DEF KeyNext

(* What was saved last of the key is found, whatever of the audio curve is saved beside it and    *)
(* whichever saves and reads fail: RealRWData, SSMSaveHDCPKey, SSMSaveAudioNoLinePoints.          *)
THEOREM SavedKeyStays == KeySpec => []SavedKeyIsFound
<1> QED BY KeyInitInv, KeyNextInv, KeyFound, PTL DEF KeySpec

-----------------------------------------------------------------------------
(* What a scan tells.                                                      *)

\* Service s is program p of stream ts, in what the options leave of it.
ToldFrom(s, ts, p) ==
  /\ ts.kind = "digital" /\ p \in ts.programs
  /\ s.freq = ts.freq /\ s.tsid \in {ts.pat, ts.sdt, ts.vct} /\ s.id = p.id
  /\ opts.std = "atsc" /\ opts.audiodata /\ (\E j \in DOMAIN p.auds : p.auds[j]) => p.auds[s.audio]
  /\ opts.std = "atsc" =>
       /\ ~(s.ca /\ opts.fta) /\ ~(s.type = "tv" /\ opts.notv) /\ ~(s.type = "radio" /\ opts.noradio)
       /\ ~(opts.hide /\ p.listed /\ p.hidden)

Rising == \A i, j \in DOMAIN found : i < j => found[i].freq < found[j].freq
ToldIsFound ==
  \A s \in stored : s.kind = "digital" => \E i \in DOMAIN found : \E p \in found[i].programs : ToldFrom(s, found[i], p)

StoreInv == found \in Seq(OnAir) /\ Rising /\ ToldIsFound /\ NothingLost

LEMMA FirstAudioHasData ==
  ASSUME NEW p, p.auds \in Seq(BOOLEAN), opts.std = "atsc", opts.audiodata, \E j \in DOMAIN p.auds : p.auds[j]
  PROVE  p.auds[FirstAudio(p)]
<1> DEFINE T == {j \in DOMAIN p.auds : p.auds[j]}
           first(i) == i \in DOMAIN p.auds /\ p.auds[i] /\ \A j \in 1 .. i - 1 : ~p.auds[j]
<1>1. p.auds # <<>> /\ T # {} /\ T \subseteq Nat
  OBVIOUS
<1>2. PICK k \in T : \A j \in T : k <= j
  BY <1>1, LeastOf
<1>3. first(k)
  BY <1>2
<1>4. first(CHOOSE i \in DOMAIN p.auds : p.auds[i] /\ \A j \in 1 .. i - 1 : ~p.auds[j])
  BY <1>3
<1> QED BY <1>1, <1>4 DEF FirstAudio

\* The streams found differ in their frequency.
LEMMA OneStream ==
  ASSUME StoreInv, NEW i \in DOMAIN found, NEW j \in DOMAIN found, found[i].freq = found[j].freq
  PROVE  i = j
<1>1. i \in Int /\ j \in Int /\ found[i] \in OnAir /\ found[j] \in OnAir
  BY DEF StoreInv
<1>2. found[i].freq \in Nat /\ found[j].freq \in Nat
  BY <1>1, OnAirAssumption
<1> QED BY <1>1, <1>2 DEF StoreInv, Rising

LEMMA StoredIs == StoreInv => StoredAsFound
<1> SUFFICES ASSUME StoreInv PROVE StoredAsFound
  OBVIOUS
<1>1. OwnStream
  BY DEF StoreInv, ToldIsFound, ToldFrom, OwnStream
<1>2. ExcludedNotTold
  <2> SUFFICES ASSUME opts.std = "atsc", NEW s \in stored, s.kind = "digital"
               PROVE  /\ ~(s.ca /\ opts.fta) /\ ~(s.type = "tv" /\ opts.notv)
                      /\ ~(s.type = "radio" /\ opts.noradio)
                      /\ opts.hide => \A i \in DOMAIN found : found[i].freq = s.freq =>
                           \A p \in found[i].programs : p.id = s.id => ~(p.listed /\ p.hidden)
    BY DEF ExcludedNotTold
  <2>1. PICK i \in DOMAIN found : \E p \in found[i].programs : ToldFrom(s, found[i], p)
    BY DEF StoreInv, ToldIsFound
  <2>2. PICK p \in found[i].programs : ToldFrom(s, found[i], p)
    BY <2>1
  <2>3. ASSUME NEW j \in DOMAIN found, found[j].freq = s.freq, NEW q \in found[j].programs, q.id = s.id
        PROVE  q = p
    <3>1. found[i].freq = found[j].freq
      BY <2>2, <2>3 DEF ToldFrom
    <3>2. j = i
      BY <3>1, OneStream
    <3>3. found[i] \in OnAir
      BY DEF StoreInv
    <3> QED BY <2>2, <2>3, <3>2, <3>3, OnAirAssumption DEF ToldFrom
  <2> QED BY <2>2, <2>3 DEF ToldFrom
<1> QED BY <1>1, <1>2 DEF StoreInv, StoredAsFound, TellsWhatIsAsked

LEMMA StoreStarts == StoreInit => StoreInv
BY DEF StoreInit, StoreInv, Rising, ToldIsFound, NothingLost

\* What has been told stays true when a stream is found.
LEMMA FindKeeps ==
  ASSUME StoreInv, NEW ts \in OnAir, FindStream(ts)
  PROVE  StoreInv'
<1>1. found \in Seq(OnAir) /\ found' = Append(found, ts) /\ UNCHANGED <<opts, stored>> /\ storePc' # "over"
  BY DEF StoreInv, FindStream
<1>2. /\ found' \in Seq(OnAir) /\ DOMAIN found \subseteq DOMAIN found' /\ DOMAIN found' = DOMAIN found \cup {Len(found) + 1}
      /\ found'[Len(found) + 1] = ts /\ \A i \in DOMAIN found : found'[i] = found[i] /\ i <= Len(found) /\ i \in Int
  BY <1>1
<1>3. Rising'
  <2>1. \A i \in DOMAIN found : found[i].freq < ts.freq
    BY DEF FindStream
  <2>2. Len(found) \in Nat
    BY <1>1
  <2> SUFFICES ASSUME NEW i \in DOMAIN found', NEW j \in DOMAIN found', i < j
               PROVE  found'[i].freq < found'[j].freq
    BY DEF Rising
  <2>3. CASE j \in DOMAIN found
    <3>1. i \in DOMAIN found
      BY <1>2, <2>2, <2>3
    <3> QED BY <1>2, <2>3, <3>1 DEF StoreInv, Rising
  <2>4. CASE j = Len(found) + 1
    <3>1. i \in DOMAIN found
      BY <1>2, <2>2, <2>4
    <3> QED BY <1>2, <2>1, <2>4, <3>1
  <2> QED BY <1>2, <2>3, <2>4
<1>4. ToldIsFound'
  <2> SUFFICES ASSUME NEW s \in stored', s.kind = "digital"
               PROVE  \E i \in DOMAIN found' : \E p \in found'[i].programs : ToldFrom(s, found[i], p)'
    BY DEF ToldIsFound
  <2>0. s \in stored
    BY <1>1
  <2>1. PICK i \in DOMAIN found : \E p \in found[i].programs : ToldFrom(s, found[i], p)
    BY <2>0 DEF StoreInv, ToldIsFound
  <2>2. \A p : ToldFrom(s, found[i], p) => ToldFrom(s, found[i], p)'
    BY <1>1, <1>2 DEF ToldFrom
  <2> QED BY <1>2, <2>1, <2>2
<1>5. NothingLost'
  BY <1>1 DEF NothingLost
<1> QED BY <1>2, <1>3, <1>4, <1>5 DEF StoreInv

-----------------------------------------------------------------------------
(* The store.                                                              *)

LEMMA TsIdIsOwn == \A ts : TsId(ts) \in {ts.pat, ts.sdt, ts.vct}
BY DEF TsId

\* What Service makes of a program that is not left out.
LEMMA ServiceTold ==
  ASSUME NEW ts \in OnAir, ts.kind = "digital", NEW p \in ts.programs,
         opts.std = "atsc" => ~SkipProgram(p), NEW number
  PROVE  LET s == Service(ts, p, ServiceType(p), number) IN
         /\ ToldFrom(s, ts, p) /\ s.kind = "digital"
         /\ s.freq = ts.freq /\ s.id = p.id /\ s.av = (p.vid \/ p.auds # <<>>)
<1> DEFINE s == Service(ts, p, ServiceType(p), number)
<1>1. /\ s.kind = "digital" /\ s.freq = ts.freq /\ s.tsid = TsId(ts) /\ s.id = p.id /\ s.type = ServiceType(p)
      /\ s.ca = Scrambled(p) /\ s.av = (p.vid \/ p.auds # <<>>) /\ s.audio = FirstAudio(p)
  BY DEF Service
<1> HIDE DEF s
<1>2. s.tsid \in {ts.pat, ts.sdt, ts.vct}
  BY <1>1, TsIdIsOwn
<1>3. opts.std = "atsc" /\ opts.audiodata /\ (\E j \in DOMAIN p.auds : p.auds[j]) => p.auds[s.audio]
  BY <1>1, FirstAudioHasData, OnAirAssumption
<1>4. opts.std = "atsc" =>
        /\ ~(s.ca /\ opts.fta) /\ ~(s.type = "tv" /\ opts.notv) /\ ~(s.type = "radio" /\ opts.noradio)
        /\ ~(opts.hide /\ p.listed /\ p.hidden)
  BY <1>1 DEF SkipProgram
<1>5. ToldFrom(s, ts, p)
  BY <1>1, <1>2, <1>3, <1>4 DEF ToldFrom
<1> QED BY <1>1, <1>5 DEF s

LEMMA ServicesTold ==
  ASSUME NEW ts \in OnAir, ts.kind = "digital", NEW s \in ServicesOf(ts), s.av
  PROVE  \E p \in ts.programs : ToldFrom(s, ts, p)
<1>1. CASE opts.std = "atsc"
  <2>1. PICK p \in Programs(ts) : ~SkipProgram(p) /\ s = Service(ts, p, ServiceType(p), AtscNumber(ts, p))
    BY <1>1 DEF ServicesOf, AtscServices
  <2> QED BY <2>1, ServiceTold DEF Programs
<1>2. CASE opts.std # "atsc"
  <2>1. CASE \E p \in Programs(ts) : s = Service(ts, p, ServiceType(p), <<0, 0>>)
    <3>1. PICK p \in Programs(ts) : s = Service(ts, p, ServiceType(p), <<0, 0>>)
      BY <2>1
    <3> QED BY <1>2, <3>1, ServiceTold DEF Programs
  <2>2. CASE \E p \in ts.programs : s = [Service(ts, p, "none", <<0, 0>>) EXCEPT !.av = FALSE]
    BY <2>2 DEF Service
  <2> QED BY <1>2, <2>1, <2>2 DEF ServicesOf, DvbServices
<1> QED BY <1>1, <1>2

\* A receivable program that no option excludes is among the services.
LEMMA ServicesComplete ==
  ASSUME NEW ts \in OnAir, ts.kind = "digital", NEW p \in Programs(ts), ts.pat # NoId,
         p.vid \/ p.auds # <<>>, ~opts.fta /\ ~opts.notv /\ ~opts.noradio /\ ~opts.hide,
         opts.checkdata => (p.vid /\ p.vdata) \/ p.auds = <<TRUE>>
  PROVE  \E s \in ServicesOf(ts) : s.av /\ s.freq = ts.freq /\ s.id = p.id
<1>1. p \in ts.programs
  BY DEF Programs
<1>2. ~SkipProgram(p)
  <2>1. ServiceType(p) # "unknown"
    BY DEF ServiceType
  <2>2. <<TRUE>> # <<>> /\ Len(<<TRUE>>) = 1 /\ <<TRUE>>[1] = TRUE
    OBVIOUS
  <2>3. p.auds = <<TRUE>> => HasData(p)
    BY <2>2 DEF HasData
  <2>4. opts.checkdata => HasData(p)
    BY <2>3 DEF HasData
  <2> QED BY <2>1, <2>4 DEF SkipProgram
<1>3. CASE opts.std = "atsc"
  <2> DEFINE s == Service(ts, p, ServiceType(p), AtscNumber(ts, p))
  <2>1. s \in ServicesOf(ts)
    BY <1>2, <1>3 DEF ServicesOf, AtscServices
  <2>2. s.av /\ s.freq = ts.freq /\ s.id = p.id
    BY <1>1, <1>2, ServiceTold
  <2> QED BY <2>1, <2>2
<1>4. CASE opts.std # "atsc"
  <2> DEFINE s == Service(ts, p, ServiceType(p), <<0, 0>>)
  <2>1. s \in ServicesOf(ts)
    BY <1>4 DEF ServicesOf, DvbServices
  <2>2. s.av /\ s.freq = ts.freq /\ s.id = p.id
    BY <1>1, <1>2, ServiceTold
  <2> QED BY <2>1, <2>2
<1> QED BY <1>3, <1>4

LEMMA AnalogIsAnalog == \A before : \A s \in AnalogServices(before) : s.kind = "analog"
BY DEF AnalogServices

LEMMA StoreKeeps ==
  ASSUME StoreInv, StoreScan
  PROVE  StoreInv'
<1>1. /\ UNCHANGED <<opts, found>> /\ found \in Seq(OnAir)
      /\ \E before : stored' = Notified(DigitalServices \cup AnalogServices(before))
  BY DEF StoreInv, StoreScan
<1>2. PICK before : stored' = Notified(DigitalServices \cup AnalogServices(before))
  BY <1>1
<1>3. /\ Digital(Len(found)) = {i \in DOMAIN found : found[i].kind = "digital"}
      /\ \A i \in DOMAIN found : found[i] \in OnAir
  BY <1>1 DEF Digital
<1>4. \A s : s \in DigitalServices <=> \E i \in Digital(Len(found)) : s \in ServicesOf(found[i])
  BY DEF DigitalServices
<1>5. ToldIsFound'
  <2> SUFFICES ASSUME NEW s \in stored', s.kind = "digital"
               PROVE  \E i \in DOMAIN found' : \E p \in found'[i].programs : ToldFrom(s, found[i], p)'
    BY DEF ToldIsFound
  <2>1. s.av /\ s \in DigitalServices
    BY <1>2, AnalogIsAnalog DEF Notified
  <2>2. PICK i \in Digital(Len(found)) : s \in ServicesOf(found[i])
    BY <1>4, <2>1
  <2>3. PICK p \in found[i].programs : ToldFrom(s, found[i], p)
    BY <1>3, <2>1, <2>2, ServicesTold
  <2>4. ToldFrom(s, found[i], p)'
    BY <1>1, <2>3 DEF ToldFrom
  <2> QED BY <1>1, <1>3, <2>2, <2>3, <2>4
<1>6. NothingLost'
  <2> SUFFICES ASSUME NEW i \in Digital(Len(found))', NEW p \in Programs(found'[i]), found'[i].pat # NoId,
                      p.vid \/ p.auds # <<>>, ~opts'.fta /\ ~opts'.notv /\ ~opts'.noradio /\ ~opts'.hide,
                      opts'.checkdata => (p.vid /\ p.vdata) \/ p.auds = <<TRUE>>
               PROVE  \E s \in stored' : s.freq = found'[i].freq /\ s.id = p.id
    BY DEF NothingLost, Digital
  <2>0. i \in Digital(Len(found)) /\ found'[i] = found[i] /\ opts' = opts
    BY <1>1 DEF Digital
  <2>1. /\ found[i] \in OnAir /\ found[i].kind = "digital" /\ p \in Programs(found[i]) /\ found[i].pat # NoId
        /\ ~opts.fta /\ ~opts.notv /\ ~opts.noradio /\ ~opts.hide
        /\ opts.checkdata => (p.vid /\ p.vdata) \/ p.auds = <<TRUE>>
    BY <1>3, <2>0
  <2>2. PICK s \in ServicesOf(found[i]) : s.av /\ s.freq = found[i].freq /\ s.id = p.id
    BY <2>1, ServicesComplete
  <2> QED BY <1>2, <1>4, <2>0, <2>2 DEF Notified
<1>7. Rising'
  BY <1>1 DEF StoreInv, Rising
<1> QED BY <1>1, <1>5, <1>6, <1>7 DEF StoreInv

LEMMA StoreStays ==
  ASSUME StoreInv, UNCHANGED <<opts, found, stored>>, storePc' # "over" \/ UNCHANGED storePc
  PROVE  StoreInv'
<1>1. Rising' /\ found' \in Seq(OnAir)
  BY DEF StoreInv, Rising
<1>2. ToldIsFound'
  <2> SUFFICES ASSUME NEW s \in stored', s.kind = "digital"
               PROVE  \E i \in DOMAIN found' : \E p \in found'[i].programs : ToldFrom(s, found[i], p)'
    BY DEF ToldIsFound
  <2>1. PICK i \in DOMAIN found : \E p \in found[i].programs : ToldFrom(s, found[i], p)
    BY DEF StoreInv, ToldIsFound
  <2>2. \A p : ToldFrom(s, found[i], p) => ToldFrom(s, found[i], p)'
    BY DEF ToldFrom
  <2> QED BY <2>1, <2>2
<1>3. NothingLost'
  <2>1. CASE storePc' # "over"
    BY <2>1 DEF NothingLost
  <2>2. CASE UNCHANGED storePc
    <3>1. found' = found /\ opts' = opts /\ stored' = stored /\ storePc' = storePc
      BY <2>2
    <3>2. NothingLost
      BY DEF StoreInv
    <3> SUFFICES ASSUME storePc' = "over", NEW i \in Digital(Len(found))', NEW p \in Programs(found'[i]),
                        found'[i].pat # NoId, p.vid \/ p.auds # <<>>,
                        ~opts'.fta /\ ~opts'.notv /\ ~opts'.noradio /\ ~opts'.hide,
                        opts'.checkdata => (p.vid /\ p.vdata) \/ p.auds = <<TRUE>>
                 PROVE  \E s \in stored' : s.freq = found'[i].freq /\ s.id = p.id
      BY Zenon DEF NothingLost
    <3>3. /\ i \in Digital(Len(found)) /\ p \in Programs(found[i]) /\ found[i].pat # NoId /\ storePc = "over"
          /\ ~opts.fta /\ ~opts.notv /\ ~opts.noradio /\ ~opts.hide
          /\ opts.checkdata => (p.vid /\ p.vdata) \/ p.auds = <<TRUE>>
      BY <3>1 DEF Digital
    <3>4. \E s \in stored : s.freq = found[i].freq /\ s.id = p.id
      BY <3>2, <3>3 DEF NothingLost
    <3> QED BY <3>1, <3>4
  <2> QED BY <2>1, <2>2
<1> QED BY <1>1, <1>2, <1>3 DEF StoreInv

\* Each service is told as found in its own stream, nothing is told that the options exclude, and
\* nothing receivable is lost that they do not (storeScan).
THEOREM StoredIsAsFound == StoreSpec => []StoredAsFound
<1>1. StoreInv /\ [StoreNext]_storeVars => StoreInv'
  <2> SUFFICES ASSUME StoreInv, [StoreNext]_storeVars PROVE StoreInv'
    OBVIOUS
  <2>1. ASSUME NEW ts \in OnAir, FindStream(ts) PROVE StoreInv'
    BY <2>1, FindKeeps
  <2>2. CASE ScanDone
    BY <2>2, StoreStays DEF ScanDone
  <2>3. CASE StoreScan
    BY <2>3, StoreKeeps
  <2>4. CASE UNCHANGED storeVars
    BY <2>4, StoreStays DEF storeVars
  <2> QED BY <2>1, <2>2, <2>3, <2>4 DEF StoreNext
<1> QED BY <1>1, StoreStarts, StoredIs, PTL DEF StoreSpec

=============================================================================
