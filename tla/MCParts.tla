------------------------------ MODULE MCParts ------------------------------
(***************************************************************************)
(* What is found with the tuner, the picture, the inputs, the settings and *)
(* the events told, in one run: part names the one that moves while the others rest,  *)
(* so that the states add up instead of multiplying.                       *)
(***************************************************************************)
EXTENDS Scanner, ScanStore, Psip, ProgramDb, AtvStandard, VideoLayer, Settings, EventParcel,
        HdmiInputs, TLC

(* Scans: two digital ones of one and two streams, a mixed ATSC scan of a  *)
(* list, a mixed sweep, and an analogue sweep narrower than 1 MHz.         *)
DigitalScan(n) == [atv |-> "none", dtv |-> TRUE, atsc |-> FALSE, total |-> n, width |-> 0]
MCScanKinds ==
  {DigitalScan(1), DigitalScan(2),
   [atv |-> "list", dtv |-> TRUE, atsc |-> TRUE, total |-> 2, width |-> 0],
   [atv |-> "sweep", dtv |-> TRUE, atsc |-> FALSE, total |-> 1, width |-> 3],
   [atv |-> "sweep", dtv |-> FALSE, atsc |-> TRUE, total |-> 1, width |-> 0]}

Prog(id, vid, auds, type) ==
  [id |-> id, inPmt |-> TRUE, listed |-> TRUE, hidden |-> FALSE, ca |-> {}, vid |-> vid,
   vdata |-> vid, auds |-> auds, type |-> type, number |-> <<7, id>>]
Stream(freq, pat, sdt, vct, programs, nit) ==
  [kind |-> "digital", freq |-> freq, pat |-> pat, sdt |-> sdt, vct |-> vct, programs |-> programs, nit |-> nit]
Channel(freq, std, number) == [kind |-> "analog", freq |-> freq, std |-> std, number |-> number]

(* A stream with SDT and NIT, one whose PAT has id 0 and whose VCT hides a *)
(* program, one without a PAT, one without SDT and VCT, three channels.    *)
MCOnAir ==
  {Stream(10, 5, 6, NoId,
          {Prog(1, TRUE, <<TRUE>>, "tv"), [Prog(2, FALSE, <<TRUE>>, "radio") EXCEPT !.ca = {"stream"}],
           [Prog(3, FALSE, <<>>, "user") EXCEPT !.inPmt = FALSE]},
          {[id |-> 1, hd |-> FALSE, lcn |-> 3], [id |-> 1, hd |-> TRUE, lcn |-> 103]}),
   Stream(20, 0, NoId, 8,
          {[Prog(1, TRUE, <<FALSE, TRUE>>, "tv") EXCEPT !.hidden = TRUE],
           [Prog(4, FALSE, <<>>, "tv") EXCEPT !.listed = FALSE]}, {}),
   Stream(30, NoId, NoId, 9, {}, {}),
   Stream(35, 4, NoId, NoId, {[Prog(5, FALSE, <<FALSE>>, "radio") EXCEPT !.listed = FALSE]},
          {[id |-> 1, hd |-> FALSE, lcn |-> 4]}),
   Channel(40, "PAL", 12), Channel(50, "NTSC", 0), Channel(60, "NTSC", 0)}
MCTable == 20 :> 2 @@ 51 :> 3

(* A DVB scan looks at two of the options; NITs are DVB's.                 *)
MCOptions ==
  {o \in OptionSets :
     IF o.std = "dvb"
     THEN ~(o.fta \/ o.notv \/ o.noradio \/ o.hide \/ o.validpid \/ o.checkdata \/ o.audiodata \/ o.nopal)
     ELSE ~o.lcn}

(* Rating tables: two regions, the second in two sections, one of a name   *)
(* without text; a table of the first region with other texts.             *)
Dimension(name, values) == [name |-> name, values |-> values]
Region(region, name, dims) == [region |-> region, name |-> name, dims |-> dims]
MCTables ==
  {<<Region(1, "US", <<Dimension("audience", <<"", "TV-G", "TV-14">>), Dimension("violence", <<"", "V">>)>>),
     Region(2, "CA", <<Dimension("english", <<"", "C", "G">>)>>)>>,
   <<Region(1, "US", <<Dimension("audience", <<"", "TV-Y", NoText>>), Dimension(NoText, <<"">>)>>)>>,
   <<Region(5, "KR", <<Dimension("age", <<"", "7", "12">>), Dimension("age", <<"", "15">>)>>)>>}

(* Alerts with no, one and two texts; descriptors longer and shorter than  *)
(* an int, alone and the shorter over the longer.                          *)
MCAlerts ==
  [texts : {<<>>, <<"nature">>, <<"nature", "alert">>},
   descriptors : {<<>>, <<<<1, 2, 3, 4, 5>>>>, <<<<6, 7>>>>, <<<<1, 2, 3, 4, 5>>, <<6, 7>>>>}]

(* Rows of four lists; a sweep of everything, and one none of them fits in *)
(* but two cable channels.                                                 *)
Row(list, freq, fe, mod) == [list |-> list, freq |-> freq, fe |-> fe, mod |-> mod]
MCRows ==
  <<Row("US,ATSC Air", 57, "ATSC", "VSB"), Row("US,ATSC Cable Standard", 63, "ATSC", "QAM"),
    Row("IN,Default ATV", 48, "ANALOG", "none"), Row("CN,DVB-C allband", 63, "QAM", "QAM")>>
MCRanges == {<<0, 0>>, <<60, 70>>}

(* What a board shows without a signal and after playback.                 *)
MCVideoSettings ==
  {[snow |-> TRUE, blackout |-> FALSE, colour |-> "blue"], [snow |-> FALSE, blackout |-> TRUE, colour |-> "black"]}

(* No offset named, no offset, 2 kHz.                                      *)
MCFine == {-1, 0, 2000}

(* Values to save: off, on, and one wider than a byte.                     *)
MCAsked == {0, 1, 300}

(* Boards with three inputs, with four in order, and with one left out.    *)
MCBoards ==
  {[wired |-> <<1, 0, 2, NotWired>>, enabled |-> TRUE], [wired |-> <<0, 1, 2, 3>>, enabled |-> FALSE],
   [wired |-> <<3, NotWired, 0, 1>>, enabled |-> FALSE]}

VARIABLE part

Parts == {"scanner", "store", "rrt", "eas", "database", "layer", "avevent", "standard",
          "settings", "parcel", "inputs"}

(* The variables of what is found and kept of it, and of the settings.     *)
foundVars == <<scannerVars, storeVars, psipVars, dbVars>>
sideVars == <<settingVars, parcelVars, inputVars>>

(* The layer with one event at a time, raised while no call runs; events   *)
(* that overlap come without calls, as another part.                       *)
LayerNext ==
  /\ VideoNext /\ raised' <= 1
  /\ raising' # raising => NobodyAtWork /\ raising'["audio"] = raising["audio"]

MCInit ==
  /\ part \in Parts
  /\ ScannerInit /\ PsipInit
  /\ StoreInit /\ opts \in (IF part = "store" THEN MCOptions ELSE {CHOOSE o \in MCOptions : TRUE})
  /\ DbInit /\ (part # "database" => created)
  /\ AtvInit /\ ParcelInit
  /\ SettingsInit /\ (part # "settings" => parental = {} /\ precopy = "none")
  /\ InputsInit /\ (part # "inputs" => board.wired[1] = 0)
  /\ VideoInit /\ (part # "layer" => tv.snow)

MCNext ==
  /\ UNCHANGED part
  /\ \/ /\ UNCHANGED <<videoVars, atvVars, sideVars>>
        /\ \/ part = "scanner" /\ ScannerNext /\ UNCHANGED <<storeVars, psipVars, dbVars>>
           \/ part = "store" /\ StoreNext /\ UNCHANGED <<scannerVars, psipVars, dbVars>>
           \/ part = "rrt" /\ RrtNext /\ UNCHANGED <<scannerVars, storeVars, easVars, dbVars>>
           \/ part = "eas" /\ EasNext /\ UNCHANGED <<scannerVars, storeVars, rrtVars, dbVars>>
           \/ part = "database" /\ DbNext /\ UNCHANGED <<scannerVars, storeVars, psipVars>>
     \/ /\ UNCHANGED <<foundVars, sideVars>>
        /\ \/ part = "layer" /\ LayerNext /\ UNCHANGED atvVars
           \/ part = "avevent" /\ VideoNext /\ calls' = 0 /\ UNCHANGED atvVars
           \/ part = "standard" /\ AtvNext /\ UNCHANGED videoVars
     \/ /\ UNCHANGED <<foundVars, videoVars, atvVars>>
        /\ \/ part = "settings" /\ SettingsNext /\ UNCHANGED <<parcelVars, inputVars>>
           \/ part = "parcel" /\ ParcelNext /\ UNCHANGED <<settingVars, inputVars>>
           \/ part = "inputs" /\ InputsNext /\ UNCHANGED <<settingVars, parcelVars>>

MCSpec == MCInit /\ [][MCNext]_<<part, foundVars, videoVars, atvVars, sideVars>>
=============================================================================
