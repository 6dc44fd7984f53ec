----------------------------- MODULE ScanStore -----------------------------
(***************************************************************************)
(* What CTvScanner makes of the streams a scan has found: storeScan turns  *)
(* them into services, leaves out those the options exclude, gives channel *)
(* numbers and notifies the rest.  It runs once at the end of the scan and *)
(* in most modes also after each new stream, every time over all streams   *)
(* found so far.                                                           *)
(*                                                                         *)
(* A stream is a record of the tables the library has parsed, a program    *)
(* one of what PMT, SDT and VCT say about it.  Names, languages, captions, *)
(* subtitles and formats are left out.                                     *)
(***************************************************************************)
EXTENDS Integers, Sequences, FiniteSets

CONSTANTS
  OnAir,       (* the streams that can be found                            *)
  Table,       (* channel list of the region: frequency in MHz -> number   *)
  MaxFound     (* bound: streams found in one scan                         *)

ASSUME ScanStoreAssumption ==
  /\ MaxFound \in Nat
  /\ DOMAIN Table \subseteq Nat /\ \A f \in DOMAIN Table : Table[f] \in Nat \ {0}

(* A program is listed once in its stream, with its streams in order.      *)
ASSUME OnAirAssumption ==
  \A ts \in OnAir :
    /\ ts.freq \in Nat
    /\ ts.kind = "digital" =>
         /\ \A p \in ts.programs : p.auds \in Seq(BOOLEAN)
         /\ \A p, q \in ts.programs : p.id = q.id => p = q

VARIABLES
  opts,        (* standard, mode and options of the scan                   *)
  found,       (* result->tses                                             *)
  vctTsid,     (* the streams, by frequency, whose use_vct_tsid is set     *)
  tsidList,    (* tsid_list: frequencies whose id VBI has told             *)
  stored,      (* the services notified by the last store                  *)
  lcns,        (* the channel numbers notified by the last store           *)
  storePc      (* "scan", "store", "end", "over"                           *)

storeVars == <<opts, found, vctTsid, tsidList, stored, lcns, storePc>>

NoId == -1

(***************************************************************************)
(* Streams and services.                                                   *)
(***************************************************************************)

\* processAtscTs: a VCT that disagrees with a PAT of id 0 is believed, from the next store on.
UseVctTsid(ts) == opts.std = "atsc" /\ ts.vct # NoId /\ ts.pat = 0 /\ ts.vct # 0

\* processTsInfo: PAT, or SDT in its place, or VCT.
TsId(ts) ==
  IF ts.pat # NoId /\ ts.freq \notin vctTsid THEN IF ts.sdt # NoId THEN ts.sdt ELSE ts.pat
  ELSE ts.vct

\* extractSrvInfoFromSdt: the types that users and ISDB-T define for television are television.
SdtType(p) == IF p.listed /\ p.type = "user" THEN "tv" ELSE IF p.listed THEN p.type ELSE "none"

\* extractSrvInfoFromVc; without video an ATSC program is radio, listed or not.
VctType(p) == IF ~p.vid THEN "radio" ELSE IF p.listed THEN p.type ELSE "none"

\* updateServiceInfo: what the PIDs say goes before what SDT or VCT say.
ServiceType(p) ==
  LET told == IF opts.std = "atsc" THEN VctType(p) ELSE SdtType(p) IN
  CASE p.vid -> "tv"
    [] ~p.vid /\ p.auds # <<>> -> "radio"
    [] OTHER -> IF told \in {"tv", "radio"} THEN "unknown" ELSE told

\* extractCaScrambledFlag: a CA descriptor for the program, or for one of its streams.
Scrambled(p) == p.ca # {}

Programs(ts) == {p \in ts.programs : p.inPmt}

\* The number of an ATSC program: VCT, else the channel list by frequency, else none.
AtscNumber(ts, p) ==
  IF p.listed THEN p.number
  ELSE IF ts.freq \in DOMAIN Table THEN <<Table[ts.freq], p.id>> ELSE <<0, 0>>

\* checkIsSkipProgram: of several audio streams the last one decides.
HasData(p) == (p.vid /\ p.vdata) \/ (p.auds # <<>> /\ p.auds[Len(p.auds)])

SkipProgram(p) ==
  \/ Scrambled(p) /\ opts.fta
  \/ p.listed /\ p.hidden /\ opts.hide
  \/ ServiceType(p) = "tv" /\ opts.notv
  \/ ServiceType(p) = "radio" /\ opts.noradio
  \/ ServiceType(p) = "unknown" /\ opts.validpid
  \/ opts.checkdata /\ ~HasData(p)

\* checkIsSkipProgram: the first audio stream with data changes places with the first one.
FirstAudio(p) ==
  IF p.auds = <<>> THEN 0
  ELSE IF opts.std = "atsc" /\ opts.audiodata /\ \E i \in DOMAIN p.auds : p.auds[i]
  THEN CHOOSE i \in DOMAIN p.auds : p.auds[i] /\ \A j \in 1..i - 1 : ~p.auds[j]
  ELSE 1

Service(ts, p, type, number) ==
  [kind |-> "digital", freq |-> ts.freq, tsid |-> TsId(ts), id |-> p.id, type |-> type,
   number |-> number, ca |-> Scrambled(p), av |-> p.vid \/ p.auds # <<>>, audio |-> FirstAudio(p)]

\* processAtscTs: the programs of the PMTs; those of a VCT alone are never stored.
AtscServices(ts) ==
  IF ts.pat = NoId /\ ts.vct = NoId THEN {}
  ELSE {Service(ts, p, ServiceType(p), AtscNumber(ts, p)) : p \in {q \in Programs(ts) : ~SkipProgram(q)}}

\* processDvbTs: the options leave out nothing; what only the SDT lists has no pids and becomes data.
DvbServices(ts) ==
  IF ts.pat = NoId \/ Programs(ts) = {} THEN {}
  ELSE {Service(ts, p, ServiceType(p), <<0, 0>>) : p \in Programs(ts)} \cup
       {[Service(ts, p, "none", <<0, 0>>) EXCEPT !.av = FALSE] :
          p \in {q \in ts.programs : q.listed /\ ~q.inPmt}}

ServicesOf(ts) == IF opts.std = "atsc" THEN AtscServices(ts) ELSE DvbServices(ts)

Digital(n) == {i \in 1..n : found[i].kind = "digital"}

\* Mutant of DigitalServices: every service gets the parameters of the last stream.
DigitalServicesOfLast ==
  LET last == found[CHOOSE i \in Digital(Len(found)) : \A j \in Digital(Len(found)) : j <= i]
  IN UNION {{[s EXCEPT !.freq = last.freq, !.tsid = TsId(last)] : s \in ServicesOf(found[i])} :
              i \in Digital(Len(found))}
DigitalServices == UNION {ServicesOf(found[i]) : i \in Digital(Len(found))}

(***************************************************************************)
(* Analogue channels.                                                      *)
(***************************************************************************)

AnalogKept ==
  SelectSeq(found, LAMBDA ts : ts.kind = "analog" /\ ~(ts.std = "PAL" /\ opts.nopal))

Near(f) == {g \in DOMAIN Table : f - g \in -2..2}

\* VCT by the id that VBI told, else the channel list within 2 MHz, else past the list's end.
AnalogNumber(ts, before) ==
  IF ts.freq \in tsidList /\ ts.number # 0 THEN ts.number
  ELSE IF Near(ts.freq) # {} THEN Table[CHOOSE g \in Near(ts.freq) : \A h \in Near(ts.freq) : g <= h]
  ELSE LET n == Cardinality(DOMAIN Table) IN IF before <= n + 1 THEN n + 2 ELSE before + 1

\* Numbers are given in the order of the streams; before the first comes a digital service.
AnalogServices(before) ==
  LET number[i \in 0..Len(AnalogKept)] ==
        IF i = 0 THEN before ELSE AnalogNumber(AnalogKept[i], number[i - 1])
  IN {[kind |-> "analog", freq |-> AnalogKept[i].freq, tsid |-> NoId, id |-> 0, type |-> "atv",
       number |-> IF opts.std = "atsc" THEN <<number[i], 0>> ELSE <<0, 0>>,
       ca |-> FALSE, av |-> TRUE, audio |-> 0] : i \in 1..Len(AnalogKept)}

(***************************************************************************)
(* Channel numbers of the NITs.                                            *)
(***************************************************************************)

\* getLcnInfo, insertLcnList: SD and HD number of a service become one entry.
LcnOf(ts) ==
  LET lcn(id, hd) == LET e == {x \in ts.nit : x.id = id /\ x.hd = hd}
                     IN IF e = {} THEN 0 ELSE (CHOOSE x \in e : TRUE).lcn
  IN {[id |-> id, sd |-> lcn(id, FALSE), hd |-> lcn(id, TRUE)] : id \in {e.id : e \in ts.nit}}

(***************************************************************************)
(* The scan.                                                               *)
(***************************************************************************)

OptionSets ==
  [std : {"atsc", "dvb"}, more : BOOLEAN, fta : BOOLEAN, notv : BOOLEAN, noradio : BOOLEAN,
   hide : BOOLEAN, validpid : BOOLEAN, checkdata : BOOLEAN, audiodata : BOOLEAN,
   nopal : BOOLEAN, lcn : BOOLEAN]

StoreInit ==
  /\ opts \in OptionSets
  /\ found = <<>> /\ vctTsid = {} /\ tsidList = {} /\ stored = {} /\ lcns = {} /\ storePc = "scan"

\* A lock on an analogue channel in a scan with VBI (AM_SCAN_EVT_SIGNAL): VBI has told an id by
\* then, or tells it within 250 ms, or not (checkVbiDataReady).
VbiTold(ts) ==
  IF ts.kind = "analog" /\ opts.std = "atsc" THEN {tsidList, tsidList \cup {ts.freq}} ELSE {tsidList}

\* The library finds a stream.  NEW_PROGRAM_MORE stores at once when bit 0 of the mode is set,
\* that is for AUTO, ALLBAND and FREQ.
FindStream(ts) ==
  /\ storePc = "scan" /\ Len(found) < MaxFound
  /\ \A i \in DOMAIN found : found[i].freq < ts.freq
  /\ found' = Append(found, ts)
  /\ tsidList' \in VbiTold(ts)
  /\ storePc' = IF opts.more THEN "store" ELSE "scan"
  /\ UNCHANGED <<opts, vctTsid, stored, lcns>>

ScanDone ==
  /\ storePc = "scan" /\ storePc' = "end"
  /\ UNCHANGED <<opts, found, vctTsid, tsidList, stored, lcns>>

\* notifyService: what has neither video nor audio is not told.
Notified(services) == {s \in services : s.av}

\* storeScan; the services are merged in the order of their addresses.  The list of ids is used
\* up by the first store.
StoreScan ==
  /\ storePc \in {"store", "end"}
  /\ \E before \in {0} \cup {s.number[1] : s \in DigitalServices} :
       /\ before = 0 => DigitalServices = {}
       /\ stored' = Notified(DigitalServices \cup AnalogServices(before))
  /\ lcns' = IF opts.lcn THEN UNION {LcnOf(found[i]) : i \in Digital(Len(found))} ELSE {}
  /\ tsidList' = {}
  /\ vctTsid' = vctTsid \cup {found[i].freq : i \in {j \in Digital(Len(found)) : UseVctTsid(found[j])}}
  /\ storePc' = IF storePc = "end" THEN "over" ELSE "scan"
  /\ UNCHANGED <<opts, found>>

StoreNext == (\E ts \in OnAir : FindStream(ts)) \/ ScanDone \/ StoreScan

StoreSpec == StoreInit /\ [][StoreNext]_storeVars

(***************************************************************************)
(* Properties.                                                             *)
(***************************************************************************)

\* Every service is told with the frequency of the stream it is in, with a stream id from one of
\* that stream's tables, and, under the check for audio data, with an audio stream that has data
\* first if it has one: merging the services of several streams mixes nothing up.
OwnStream ==
  \A s \in stored : s.kind = "digital" =>
    \E i \in DOMAIN found :
      /\ found[i].freq = s.freq /\ s.tsid \in {found[i].pat, found[i].sdt, found[i].vct}
      /\ \E p \in found[i].programs :
           /\ p.id = s.id
           /\ opts.std = "atsc" /\ opts.audiodata /\ (\E j \in DOMAIN p.auds : p.auds[j])
                => p.auds[s.audio]

\* Of an ATSC scan no service is told that an option excludes.
ExcludedNotTold ==
  opts.std = "atsc" =>
    \A s \in stored : s.kind = "digital" =>
      /\ ~(s.ca /\ opts.fta) /\ ~(s.type = "tv" /\ opts.notv) /\ ~(s.type = "radio" /\ opts.noradio)
      /\ opts.hide => \A i \in DOMAIN found : found[i].freq = s.freq =>
           \A p \in found[i].programs : p.id = s.id => ~(p.listed /\ p.hidden)

\* At the end every receivable program that no option excludes has been told: one with a PMT in a
\* stream with a PAT, video or audio, and data in it if that is looked at.  Of several audio
\* streams the code looks at the last, so this is about programs with at most one.
NothingLost ==
  storePc = "over" =>
    \A i \in Digital(Len(found)) : \A p \in Programs(found[i]) :
      /\ found[i].pat # NoId
      /\ p.vid \/ p.auds # <<>>
      /\ ~opts.fta /\ ~opts.notv /\ ~opts.noradio /\ ~opts.hide
      /\ opts.checkdata => (p.vid /\ p.vdata) \/ p.auds = <<TRUE>>
      => \E s \in stored : s.freq = found[i].freq /\ s.id = p.id

\* What a scan tells is what its options ask for: nothing they exclude, and all they do not.
TellsWhatIsAsked == ExcludedNotTold /\ NothingLost

\* A scan tells of what is on air: each service as found in its own stream, and the ones asked for.
StoredAsFound == OwnStream /\ TellsWhatIsAsked
=============================================================================
