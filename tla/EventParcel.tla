---------------------------- MODULE EventParcel ----------------------------
(***************************************************************************)
(* DroidTvServiceIntf::onTvEvent turns each event of the server into a     *)
(* parcel for the clients: a vector of numbers sized in advance, a vector  *)
(* of texts, and hand-computed slots.  A client reads the slots back in    *)
(* order; a slot written twice or never shifts what it reads.              *)
(*                                                                         *)
(* A field is <<member, index>>.  An event is [kind, n], n being what sets *)
(* the parcel's length.                                                    *)
(* MaxTracks bounds the streams of a service, DataLengths those of raw     *)
(* data, EasCounts the counts of an alert.                                 *)
(***************************************************************************)
EXTENDS Integers, FiniteSets, Sequences, SequencesExt

CONSTANTS MaxTracks, DataLengths, EasCounts

\* The arrays of an EasEvent have 64 elements.
ASSUME ParcelAssumption == MaxTracks \in Nat /\ DataLengths \subseteq Nat /\ EasCounts \subseteq 0 .. 64

VARIABLES
  event,   \* the event told last
  parcel   \* the parcel sent for it: [ints, texts: size and writes of each vector]

parcelVars == <<event, parcel>>

MAX_LCN == 4

\* Members from slot first on; one array of n members from slot first on.
Scalars(first, names) == {<<first + k - 1, <<names[k], 0>>>> : k \in DOMAIN names}
Array(first, n, name) == {<<first + i, <<name, i>>>> : i \in 0 .. (n - 1)}
Vector(size, writes) == [size |-> size, writes |-> writes]
Texts(size, names) == Vector(size, Scalars(0, names))
NoTexts == Vector(0, {})

(***************************************************************************)
(* A scanned service.  a and s count its audio and its subtitle streams.   *)
(***************************************************************************)

HeadWrites ==
  Scalars(0, <<"Type", "Percent", "TotalChannelCount", "LockedStatus", "ChannelIndex", "Frequency",
               "programType", "Strength", "Snr", "VideoStd", "AudioStd", "IsAutoStd", "Mode",
               "SymbolRate", "Modulation", "Bandwidth", "Reserved", "TsId", "ONetId", "ServiceId",
               "Vid", "Vfmt", "Acnt">>)
AudioWrites(a) ==
  Array(23, a, "Aid") \cup Array(a + 23, a, "Afmt") \cup Array(2 * a + 23, a, "Atype")
    \cup Array(3 * a + 23, a, "AExt")

\* Mutant of SubtitleWrites: the third array starts where the second one does.
SubtitleWritesShifted(a, s) ==
  Scalars(4 * a + 23, <<"Pcr", "Scnt">>)
    \cup UNION {Array((CASE k = 3 -> 1 [] OTHER -> k - 1) * s + 4 * a + 25, s,
                      <<"Stype", "Sid", "Sstype", "Sid1", "Sid2">>[k]) : k \in 1 .. 5}
SubtitleWrites(a, s) ==
  Scalars(4 * a + 23, <<"Pcr", "Scnt">>)
    \cup UNION {Array((k - 1) * s + 4 * a + 25, s, <<"Stype", "Sid", "Sstype", "Sid1", "Sid2">>[k]) : k \in 1 .. 5}

TailWrites(base) ==
  Scalars(base + 25, <<"Free_ca", "Scrambled", "ScanMode", "SdtVer", "SortMode", "net_id", "ts_id", "service_id">>)
    \cup {<<i * 3 + base + 33 + k, <<<<"visible", "lcn", "valid">>[k + 1], i>>>> : i \in 0 .. (MAX_LCN - 1), k \in 0 .. 2}
    \cup Scalars(MAX_LCN * 3 + base + 33,
                 <<"MajorChannelNumber", "MinorChannelNumber", "SourceId", "AccessControlled", "Hidden",
                   "HideGuide", "ProgramsInPat", "PatTsId">>)

ScannerParcel(a, s) ==
  [ints |-> Vector(MAX_LCN * 3 + 5 * s + 4 * a + 41,
                   HeadWrites \cup AudioWrites(a) \cup SubtitleWrites(a, s) \cup TailWrites(5 * s + 4 * a)),
   texts |-> Vector(s + a + 3,
                    Scalars(0, <<"ProgramName", "Paras">>) \cup Array(2, a, "Alang") \cup Array(a + 2, s, "Slang")
                      \cup {<<s + a + 2, <<"Vct", 0>>>>})]

(***************************************************************************)
(* An alert: appended member by member to a vector of 1024.                *)
(* n = [codes, locations, exceptions : Nat, texts, descriptors : sequences *)
(* of lengths].                                                            *)
(***************************************************************************)

Named(names) == [k \in DOMAIN names |-> <<names[k], 0>>]
Of(names, i) == [k \in DOMAIN names |-> <<names[k], i>>]
Bytes(name, i, length) == [k \in 1 .. length |-> <<name, 64 * i + k - 1>>]

\* count entries of an array, each with these members.
Entries(count, names) == FlattenSeq([i \in 1 .. count |-> Of(names, i - 1)])

\* Entries that have bytes behind their members, as many as lengths says.
Blocks(lengths, names, name) ==
  FlattenSeq([i \in DOMAIN lengths |-> Of(names, i - 1) \o Bytes(name, i - 1, lengths[i])])

EasHead == <<"eas_section_count", "table_id", "extension", "version", "current_next", "sequence_num",
             "protocol_version", "eas_event_id", "eas_orig_code0", "eas_orig_code1", "eas_orig_code2",
             "eas_event_code_len">>
EasDetails == <<"alert_message_time_remaining", "event_start_time", "event_duration", "alert_priority",
                "details_OOB_source_ID", "details_major_channel_number", "details_minor_channel_number",
                "audio_OOB_source_ID", "location_count">>
EasLocation == <<"i_state_code", "i_country_subdiv", "i_country_code">>
EasException == <<"i_in_band_refer", "i_exception_major_channel_number",
                  "i_exception_minor_channel_number", "exception_OOB_source_ID">>
EasText == <<"lang0", "lang1", "lang2", "i_type", "i_compression_type", "i_mode", "i_number_bytes">>

EasFields(n) ==
  Named(EasHead) \o Entries(n.codes, <<"eas_event_code">>)
    \o Named(EasDetails) \o Entries(n.locations, EasLocation)
    \o Named(<<"exception_count">>) \o Entries(n.exceptions, EasException)
    \o Named(<<"multi_text_count">>) \o Blocks(n.texts, EasText, "compressed_str")
    \o Named(<<"descriptor_text_count">>) \o Blocks(n.descriptors, <<"i_tag", "i_length">>, "p_data")
EasParcel(n) ==
  LET fields == EasFields(n) IN
  [ints |-> Vector(1024, {<<k - 1, fields[k]>> : k \in DOMAIN fields}), texts |-> NoTexts]

(***************************************************************************)
(* The other events.                                                       *)
(***************************************************************************)

\* Size and members, in the order of their slots.
SignalSlots ==
  [epg |-> <<4, <<"type", "time", "programID", "channelID">>>>,
   sourceSwitch |-> <<2, <<"DestSourceInput", "DestSourcePortNum">>>>,
   avPlayback |-> <<2, <<"MsgType", "ProgramId">>>>,
   signal |-> <<4, <<"Trans_fmt", "Fmt", "Status", "Reserved">>>>,
   subtitle |-> <<2, <<"pic_width", "pic_height">>>>,
   adc |-> <<1, <<"State">>>>,
   vga |-> <<1, <<"State">>>>,
   sourceConnect |-> <<2, <<"SourceInput", "connectionState">>>>]
DeviceSlots ==
  [fbc |-> <<2, <<"State", "param">>>>,
   headset |-> <<2, <<"state", "para">>>>,
   frameStable |-> <<1, <<"CurScanningFreq">>>>,
   frontend |-> <<10, <<"Status", "Frequency", "Param1", "Param2", "Param3", "Param4", "Param5", "Param6",
                        "Param7", "Param8">>>>,
   recorder |-> <<2, <<"Status", "Error">>>>,
   rrt |-> <<1, <<"satus">>>>,
   audioCb |-> <<3, <<"cmd", "param1", "param2">>>>]

PlainParcel(slots, texts) == [ints |-> Vector(slots[1], Scalars(0, slots[2])), texts |-> texts]

\* Raw data of n numbers behind a head.
DataParcel(kind, n) ==
  LET head == IF kind = "cec" THEN <<"DataCount">> ELSE <<"DevId", "DataCount">> IN
  [ints |-> Vector(n + Len(head), Scalars(0, head) \cup Array(Len(head), n, "DataBuf")), texts |-> NoTexts]

ParcelOf(e) ==
  CASE e.kind = "scanner" -> ScannerParcel(e.n.audios, e.n.subtitles)
    [] e.kind = "eas" -> EasParcel(e.n)
    [] e.kind \in {"cec", "serial"} -> DataParcel(e.kind, e.n)
    [] e.kind = "recorder" -> PlainParcel(DeviceSlots.recorder, Texts(1, <<"Id">>))
    [] e.kind \in DOMAIN SignalSlots -> PlainParcel(SignalSlots[e.kind], NoTexts)
    [] OTHER -> PlainParcel(DeviceSlots[e.kind], NoTexts)

(***************************************************************************)
(* The handler: a parcel of its own for each event, told and dropped.      *)
(***************************************************************************)

Lengths == UNION {[1 .. k -> EasCounts \ {0}] : k \in 0 .. 2}
Alert == [codes : EasCounts, locations : EasCounts, exceptions : EasCounts, texts : Lengths, descriptors : Lengths]
Streams == [audios : 0 .. MaxTracks, subtitles : 0 .. MaxTracks]
ParcelEvents ==
  [kind : {"scanner"}, n : Streams] \cup [kind : {"eas"}, n : Alert]
    \cup [kind : {"cec", "serial"}, n : DataLengths]
    \cup [kind : DOMAIN SignalSlots \cup DOMAIN DeviceSlots, n : {0}]

NoEvent == [kind |-> "none", n |-> 0]
NoParcel == [ints |-> Vector(0, {}), texts |-> NoTexts]
ParcelInit == event = NoEvent /\ parcel = NoParcel

OnTvEvent ==
  /\ event.kind = "none"
  /\ \E e \in ParcelEvents : event' = e /\ parcel' = ParcelOf(e)

\* Captured frames, whose code is commented out, and kinds the switch does not know send nothing.
Told == event.kind # "none" /\ event' = NoEvent /\ parcel' = NoParcel

ParcelNext == OnTvEvent \/ Told

ParcelSpec == ParcelInit /\ [][ParcelNext]_parcelVars

(***************************************************************************)
(* The members of the event classes.                                       *)
(***************************************************************************)

Each(names, indices) == names \X indices
Once(names) == Each(names, {0})

\* Not told: the polarisation, and the VCT's type, which is part of the text Paras.
ServiceMembers(a, s) ==
  Once({"Type", "Percent", "TotalChannelCount", "LockedStatus", "ChannelIndex", "Mode", "Frequency",
        "SymbolRate", "Modulation", "Bandwidth", "Reserved", "Strength", "Snr", "ProgramName",
        "programType", "Paras", "VideoStd", "AudioStd", "IsAutoStd", "TsId", "ONetId", "ServiceId",
        "Vid", "Vfmt", "Acnt", "Pcr", "Scnt", "Free_ca", "Scrambled", "ScanMode", "SdtVer", "SortMode",
        "MajorChannelNumber", "MinorChannelNumber", "SourceId", "AccessControlled", "Hidden",
        "HideGuide", "Vct", "ProgramsInPat", "PatTsId", "net_id", "ts_id", "service_id"})
    \cup Each({"visible", "lcn", "valid"}, 0 .. (MAX_LCN - 1))
    \cup Each({"Aid", "Afmt", "Alang", "Atype", "AExt"}, 0 .. (a - 1))
    \cup Each({"Stype", "Sid", "Sstype", "Sid1", "Sid2", "Slang"}, 0 .. (s - 1))
BytesOf(lengths, name) ==
  UNION {Each({name}, {64 * i + k : k \in 0 .. (lengths[i + 1] - 1)}) : i \in 0 .. (Len(lengths) - 1)}
AlertMembers(n) ==
  Once({"eas_section_count", "table_id", "extension", "version", "current_next", "sequence_num",
        "protocol_version", "eas_event_id", "eas_orig_code0", "eas_orig_code1", "eas_orig_code2",
        "eas_event_code_len", "alert_message_time_remaining", "event_start_time", "event_duration",
        "alert_priority", "details_OOB_source_ID", "details_major_channel_number",
        "details_minor_channel_number", "audio_OOB_source_ID", "location_count", "exception_count",
        "multi_text_count", "descriptor_text_count"})
    \cup Each({"eas_event_code"}, 0 .. (n.codes - 1))
    \cup Each({"i_state_code", "i_country_subdiv", "i_country_code"}, 0 .. (n.locations - 1))
    \cup Each({"i_in_band_refer", "i_exception_major_channel_number",
               "i_exception_minor_channel_number", "exception_OOB_source_ID"}, 0 .. (n.exceptions - 1))
    \cup Each({"lang0", "lang1", "lang2", "i_type", "i_compression_type", "i_mode", "i_number_bytes"},
              0 .. (Len(n.texts) - 1))
    \cup BytesOf(n.texts, "compressed_str")
    \cup Each({"i_tag", "i_length"}, 0 .. (Len(n.descriptors) - 1))
    \cup BytesOf(n.descriptors, "p_data")

SignalMembers(kind) ==
  CASE kind = "epg" -> {"type", "time", "programID", "channelID"}
    [] kind = "signal" -> {"Trans_fmt", "Fmt", "Status", "Reserved"}
    [] kind \in {"vga", "adc"} -> {"State"}
    [] kind = "serial" -> {"DevId", "DataCount"}
    [] kind = "sourceConnect" -> {"SourceInput", "connectionState"}
    [] kind = "sourceSwitch" -> {"DestSourceInput", "DestSourcePortNum"}
    [] kind = "cec" -> {"DataCount"}
    [] kind = "avPlayback" -> {"MsgType", "ProgramId"}
    [] kind = "audioCb" -> {"cmd", "param1", "param2"}
    [] OTHER -> {}
DeviceMembers(kind) ==
  CASE kind = "fbc" -> {"State", "param"}
    [] kind = "headset" -> {"state", "para"}
    [] kind = "subtitle" -> {"pic_width", "pic_height"}
    [] kind = "frameStable" -> {"CurScanningFreq"}
    [] kind = "frontend" -> {"Status", "Frequency"} \cup
         {"Param1", "Param2", "Param3", "Param4", "Param5", "Param6", "Param7", "Param8"}
    [] kind = "recorder" -> {"Id", "Status", "Error"}
    [] kind = "rrt" -> {"satus"}
    [] OTHER -> {}

Members(e) ==
  CASE e.kind = "scanner" -> ServiceMembers(e.n.audios, e.n.subtitles)
    [] e.kind = "eas" -> AlertMembers(e.n)
    [] OTHER -> Once(SignalMembers(e.kind) \cup DeviceMembers(e.kind))
                  \cup Each({"DataBuf"}, 0 .. (IF e.kind \in {"cec", "serial"} THEN e.n - 1 ELSE -1))

(***************************************************************************)
(* Properties.                                                             *)
(***************************************************************************)

\* The slots of a vector are used once each, from the first to the last; of an alert's 1024 the rest stay free.
EachSlotOnce(vector) ==
  LET slots == {w[1] : w \in vector.writes}
      used == Cardinality(vector.writes)
  IN slots = 0 .. (used - 1) /\ (IF event.kind = "eas" THEN used <= vector.size ELSE used = vector.size)

\* A parcel carries the whole event: every member of it in a slot of its own, no slot free and none
\* outside the vector, for any number of streams, texts and data bytes (DroidTvServiceIntf::onTvEvent).
CarriesWholeEvent ==
  /\ EachSlotOnce(parcel.ints) /\ (event.kind # "eas" => EachSlotOnce(parcel.texts))
  /\ {w[2] : w \in parcel.ints.writes \cup parcel.texts.writes} = Members(event)
=============================================================================
