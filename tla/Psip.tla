-------------------------------- MODULE Psip --------------------------------
(***************************************************************************)
(* The tables of an ATSC stream the server reads for its clients: rating   *)
(* regions (CTvRrt) and emergency alerts (CTvEas).                         *)
(*                                                                         *)
(* RRT.  The demux's thread hands over a table; the server turns it into   *)
(* an XML file, saved again after every value, between a START and an END  *)
(* told to the clients, whose threads look values up in the file meanwhile.*)
(* EAS.  One event object is filled by every alert and never cleared.      *)
(*                                                                         *)
(* Tables and Alerts are the data on air; bounds: MaxTables and MaxAlerts. *)
(* EasInts is the length of the event's arrays (64).                       *)
(***************************************************************************)
EXTENDS Integers, Sequences, SequencesExt

CONSTANTS Tables, Alerts, Searchers, MaxTables, MaxAlerts, EasInts

ASSUME PsipAssumption == MaxTables \in Nat /\ MaxAlerts \in Nat /\ EasInts \in Nat

NoText == "no text"

EasBytes == 0 .. 255

\* On air, a table has one section for a region, with a name of its own; an alert's descriptors are
\* strings of bytes, none longer than the event's arrays.
ASSUME BroadcastAssumption ==
  /\ \A t \in Tables :
       /\ t \in Seq([region : Int, name : STRING, dims : Seq([name : STRING, values : Seq(STRING)])])
       /\ \A i, j \in DOMAIN t : i # j => t[i].region # t[j].region /\ (t[i].name # t[j].name \/ t[i].name = NoText)
  /\ Alerts \subseteq [texts : Seq(STRING), descriptors : Seq(Seq(EasBytes))]
  /\ \A a \in Alerts : \A i \in DOMAIN a.descriptors : Len(a.descriptors[i]) <= EasInts

-----------------------------------------------------------------------------
(* A rating table is a sequence of sections                                *)
(*   [region, name, dims : sequence of [name, values : sequence of texts]] *)
(* whose first value of a dimension stands for "not rated".                *)

VARIABLES
  xmlFile,     \* the rating systems as last saved; empty without a file
  xmlDoc,      \* the document of the update in progress
  table,       \* the table of the last update
  unsaved,     \* its values still to be put into the document
  saveFailed,  \* the last value of the update could not be saved
  told,        \* the last event of the update told: "none", "START", "END"
  tables,      \* tables received
  rrtHandle,   \* the EPG handle collecting the table is open
  scanStatus,  \* mRrtScanStatus: "none", "scanning", "ended"
  scanResult,  \* mScanResult
  starting,    \* callers between the destruction of the old handle and the start
  searching    \* the caller in its manual search, or "none"

rrtVars == <<xmlFile, xmlDoc, table, unsaved, saveFailed, told, tables,
             rrtHandle, scanStatus, scanResult, starting, searching>>

NoFile == <<>>

\* One info object serves all values: MultipleStringParser leaves what was there when a text is missing.
Carried(texts) ==
  LET present == {k \in DOMAIN texts : texts[k] # NoText} IN
  IF present = {} THEN NoText ELSE texts[Max(present)]

\* RrtDataUpdate's loops: the dimensions of all sections, their values but the first of each, and the
\* infos handed to SaveDataToXml, one after the other.
RatingDims(sections) ==
  FlattenSeq([i \in 1 .. Len(sections) |-> [d \in 1 .. Len(sections[i].dims) |->
    [region |-> sections[i].region, country |-> Carried([k \in 1 .. i |-> sections[k].name]), dim |-> d - 1,
     name |-> sections[i].dims[d].name, values |-> sections[i].dims[d].values]]])
RatingValues(dims) ==
  FlattenSeq([k \in 1 .. Len(dims) |-> [v \in 1 .. (Len(dims[k].values) - 1) |->
    [region |-> dims[k].region, dim |-> dims[k].dim, id |-> v, name |-> dims[k].country,
     dimName |-> Carried([x \in 1 .. k |-> dims[x].name]), text |-> dims[k].values[v + 1]]]])
RrtInfos(sections) ==
  LET values == RatingValues(RatingDims(sections)) IN
  [k \in 1 .. Len(values) |-> [values[k] EXCEPT !.text = Carried([x \in 1 .. k |-> values[x].text])]]

\* SaveDataToXml: a value joins the last rating system when that has its dimension's name, its
\* region's name and its dimension's number; else it starts a system of its own.
System(info) == [name |-> info.dimName, region |-> info.region, country |-> info.name, dim |-> info.dim,
                 values |-> <<[id |-> info.id, title |-> info.text]>>]

\* Mutant of SameSystem: the dimension's number is not compared.
SameSystemByName(system, info) == system.name = info.dimName /\ system.country = info.name

SameSystem(system, info) ==
  system.name = info.dimName /\ system.country = info.name /\ system.dim = info.dim
SaveDataToXml(doc, info) ==
  IF doc # <<>> /\ SameSystem(Last(doc), info)
    THEN [doc EXCEPT ![Len(doc)].values = Append(@, [id |-> info.id, title |-> info.text])]
    ELSE Append(doc, System(info))

\* GetRRTRating: the first value of that number in the systems of that region and dimension.
GetRRTRating(doc, region, dim, id) ==
  LET values == FlattenSeq([i \in 1 .. Len(doc) |->
                   IF doc[i].region = region /\ doc[i].dim = dim THEN doc[i].values ELSE <<>>])
      hits == {k \in 1 .. Len(values) : values[k].id = id}
  IN IF hits = {} THEN NoText ELSE values[Min(hits)].title

-----------------------------------------------------------------------------
(* RRT: callers and the demux's thread.                                    *)

RrtInit ==
  /\ xmlFile = NoFile /\ xmlDoc = <<>> /\ table = <<>> /\ unsaved = <<>> /\ saveFailed = FALSE
  /\ told = "none" /\ tables = 0
  /\ rrtHandle = FALSE /\ scanStatus = "none" /\ scanResult = 0
  /\ starting = {} /\ searching = "none"

updateVars == <<xmlFile, xmlDoc, table, unsaved, saveFailed, told, tables>>

\* CTv::Tv_RrtUpdate destroys the old handle, without a lock: also that of a manual search in
\* progress.  If that fails the caller gets 0 and nothing changes.
StopRrtUpdate(c) ==
  /\ c \notin starting /\ searching # c /\ unsaved = <<>>
  /\ starting' = starting \cup {c} /\ rrtHandle' = FALSE
  /\ UNCHANGED <<updateVars, scanStatus, scanResult, searching>>

\* StartRrtUpdate, under rrt_search_mutex, which a manual search keeps for its five seconds of
\* sleep.  RrtCreate or RrtScanStart may fail: the caller gets 0.
StartRrtUpdate(c, manual) ==
  /\ c \in starting /\ searching = "none"
  /\ starting' = starting \ {c}
  /\ \/ rrtHandle' \in BOOLEAN /\ UNCHANGED <<scanStatus, searching>>
     \/ /\ rrtHandle' = TRUE
        /\ scanStatus' = IF manual THEN "scanning" ELSE scanStatus
        /\ searching' = IF manual THEN c ELSE searching
  /\ UNCHANGED <<updateVars, scanResult>>

\* The five seconds are over; the caller gets mScanResult, of this search or of an earlier one.
SearchEnds ==
  /\ searching # "none"
  /\ searching' = "none" /\ scanStatus' = "ended"
  /\ UNCHANGED <<updateVars, rrtHandle, scanResult, starting>>

\* RrtTableCallback without data.
NoTable ==
  /\ rrtHandle /\ unsaved = <<>>
  /\ scanStatus = "scanning" /\ scanResult' = 0
  /\ UNCHANGED <<updateVars, rrtHandle, scanStatus, starting, searching>>

\* RrtTableCallback: START is told, a new document begun.
TableArrives ==
  /\ rrtHandle /\ unsaved = <<>> /\ told # "START" /\ tables < MaxTables
  /\ \E t \in Tables : table' = t /\ unsaved' = RrtInfos(t)
  /\ scanResult' = IF scanStatus = "scanning" THEN 1 ELSE scanResult
  /\ xmlDoc' = <<>> /\ saveFailed' = FALSE /\ told' = "START" /\ tables' = tables + 1
  /\ UNCHANGED <<xmlFile, rrtHandle, scanStatus, starting, searching>>

\* One value goes into the document, and the document into the file, unless the disk refuses,
\* which leaves the file as it was or empty.
ValueSaved ==
  /\ unsaved # <<>>
  /\ xmlDoc' = SaveDataToXml(xmlDoc, Head(unsaved))
  /\ unsaved' = Tail(unsaved)
  /\ \/ xmlFile' = xmlDoc' /\ saveFailed' = FALSE
     \/ xmlFile' \in {xmlFile, NoFile} /\ saveFailed' = TRUE
  /\ UNCHANGED <<table, told, tables, rrtHandle, scanStatus, scanResult, starting, searching>>

TableEnds ==
  /\ told = "START" /\ unsaved = <<>>
  /\ told' = "END"
  /\ UNCHANGED <<xmlFile, xmlDoc, table, unsaved, saveFailed, tables, rrtHandle, scanStatus, scanResult,
                 starting, searching>>

RrtNext ==
  \/ \E c \in Searchers : StopRrtUpdate(c) \/ \E manual \in BOOLEAN : StartRrtUpdate(c, manual)
  \/ SearchEnds \/ NoTable \/ TableArrives \/ ValueSaved \/ TableEnds

-----------------------------------------------------------------------------
(* EAS.  An alert is [texts, descriptors]; a text is told int by int, a    *)
(* descriptor is copied byte by byte into an array of ints.                *)

VARIABLES
  easOpen,   \* the EPG handle collecting alerts is open
  slot,      \* mCurEasEv, the first of its two texts and descriptors: [text, memory], where memory
             \* is the bytes of p_data[EasInts]
  easTold,   \* the alert as told to the clients last: a descriptor is a sequence of four-byte ints
  alert,     \* the alert received last
  alerts     \* alerts received

easVars == <<easOpen, slot, easTold, alert, alerts>>

Unset == -1
NoAlert == [texts |-> <<>>, descriptors |-> <<>>]
EasInit ==
  /\ easOpen = FALSE /\ slot = [text |-> NoText, memory |-> [k \in 1 .. 4 * EasInts |-> Unset]]
  /\ easTold = NoAlert /\ alert = NoAlert /\ alerts = 0

\* CTv::Tv_Easupdate: EasDestroy, then EasCreate and AM_EPG_ChangeMode.
EasUpdate ==
  /\ easOpen' \in BOOLEAN
  /\ UNCHANGED <<slot, easTold, alert, alerts>>

\* The loop puts one descriptor after the other into the first slot, with a memcpy of its length in
\* bytes: what is beyond stays from the longer ones before it, of this alert or an earlier one.
Overwritten(memory, descriptors) ==
  [k \in DOMAIN memory |->
     LET over == {i \in DOMAIN descriptors : Len(descriptors[i]) >= k}
     IN IF over = {} THEN memory[k] ELSE descriptors[Max(over)][k]]

\* As many ints as the descriptor has bytes are told: its bytes four to an int, then what was there.
Ints(memory, n) == [w \in 1 .. n |-> [b \in 1 .. 4 |-> memory[4 * (w - 1) + b]]]

\* The texts too go into the first slot in turn, so that the last remains.  The second slot is never
\* filled, the count says how many are told, and descriptors are counted only when there is a text.
EasEvtCallback ==
  /\ easOpen /\ alerts < MaxAlerts
  /\ \E a \in Alerts :
       LET descriptors == IF a.texts = <<>> THEN <<>> ELSE a.descriptors
       IN /\ alert' = a
          /\ slot' = [text |-> IF a.texts = <<>> THEN slot.text ELSE Last(a.texts),
                      memory |-> Overwritten(slot.memory, descriptors)]
          /\ easTold' =
               [texts |-> [i \in 1 .. Len(a.texts) |-> IF i = 1 THEN slot'.text ELSE NoText],
                descriptors |-> [i \in 1 .. Len(descriptors) |->
                   IF i = 1 THEN Ints(slot'.memory, Len(Last(descriptors))) ELSE <<>>]]
  /\ alerts' = alerts + 1
  /\ UNCHANGED easOpen

EasNext == EasUpdate \/ EasEvtCallback

-----------------------------------------------------------------------------
PsipInit == RrtInit /\ EasInit
PsipNext == \/ RrtNext /\ UNCHANGED easVars
            \/ EasNext /\ UNCHANGED rrtVars
psipVars == <<rrtVars, easVars>>
PsipSpec == PsipInit /\ [][PsipNext]_psipVars

-----------------------------------------------------------------------------
(* Properties.                                                             *)

Complete(t) ==
  \A i \in DOMAIN t : t[i].name # NoText /\ \A d \in DOMAIN t[i].dims :
    t[i].dims[d].name # NoText /\ \A v \in DOMAIN t[i].dims[d].values : t[i].dims[d].values[v] # NoText

\* Once END is told, unless the disk refused the last save, a look-up of any value of the table finds
\* its text, whatever tables and refused saves came before.  (BroadcastAssumption: the code compares the
\* regions' names when it joins values, and their numbers when it looks one up.)
RatingFound ==
  told = "END" /\ ~saveFailed /\ Complete(table) =>
    \A i \in DOMAIN table : \A d \in DOMAIN table[i].dims : \A v \in 2 .. Len(table[i].dims[d].values) :
      GetRRTRating(xmlFile, table[i].region, d - 1, v - 1) = table[i].dims[d].values[v]

ByteOf(ints, k) == ints[1 + ((k - 1) \div 4)][1 + ((k - 1) % 4)]

\* An alert with one text at most is told as it was sent, whatever the alerts before it: the text,
\* and a descriptor's length and bytes, for a client that takes the ints for four bytes each.  (One
\* that takes an int for a byte, as the header's i_length and p_data suggest, gets neither the bytes
\* nor only this alert's: three quarters of what is told is left from before.)
AlertToldAsSent ==
  Len(alert.texts) <= 1 /\ Len(alert.descriptors) <= Len(alert.texts) =>
    /\ easTold.texts = alert.texts
    /\ Len(easTold.descriptors) = Len(alert.descriptors)
    /\ \A i \in DOMAIN alert.descriptors :
         LET sent == alert.descriptors[i]
             ints == easTold.descriptors[i]
         IN Len(ints) = Len(sent) /\ \A k \in DOMAIN sent : ByteOf(ints, k) = sent[k]

\* Ratings and alerts reach the clients as the broadcaster sent them.
PsipToldAsSent == RatingFound /\ AlertToldAsSent
=============================================================================
