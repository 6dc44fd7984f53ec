------------------------------ MODULE KeyData ------------------------------
(***************************************************************************)
(* TvKeyData: the board's data that are not settings.  HDCP key, audio     *)
(* curve and EDIDs live in files, one region each, whose path and offset   *)
(* the board's configuration gives; MAC address, bar code, project number  *)
(* and, without a file, the HDCP key live in the key device.  The HDMI     *)
(* receiver gets key and EDID.                                             *)
(*                                                                         *)
(* Sizes are scaled by their constants; a saved byte is "saved", a key one *)
(* of Keys, Names the values of the key device that clients save.          *)
(* Layouts are the configurations: [region |-> [path, offset]] and the     *)
(* length of each file, which is 0 when it has yet to be made; key and      *)
(* audio curve, the regions that are written, do not overlap.              *)
(***************************************************************************)
EXTENDS Integers, Sequences

CONSTANTS HeadSize, ContentSize, AudioSize, EdidSize, Keys, Names, Layouts, MaxLeaks

TotalSize == HeadSize + ContentSize

Regions == {"key", "audio", "edid1", "edid2", "edid3", "edid4"}
KeyApart(key, audio) ==
  key.path = audio.path =>
    \/ audio.offset < 0
    \/ key.offset + TotalSize <= audio.offset
    \/ audio.offset + AudioSize <= key.offset
ASSUME KeySizesAssumption ==
  /\ HeadSize \in Nat \ {0} /\ ContentSize \in Nat \ {0}
  /\ AudioSize \in Nat \ {0} /\ EdidSize \in Nat \ {0}
ASSUME KeyLayoutsAssumption ==
  /\ \A key \in Keys : key = [i \in 1 .. TotalSize |-> key[i]]
  /\ \A l \in Layouts :
       /\ \A r \in Regions : /\ l.at[r].offset \in Int
                             /\ l.at[r].path = "" \/ l.length[l.at[r].path] \in Nat
                             /\ l.at[r].path = "" \/ l.at[r].path \in DOMAIN l.length
       /\ KeyApart(l.at["key"], l.at["audio"])

VARIABLES
  layout,    \* the configuration
  files,     \* path -> its bytes
  store,     \* the key device: name -> its bytes, <<>> when never written
  leaked,    \* descriptors opened and never closed
  receiver,  \* what the HDMI receiver got last: [kind, bytes]
  keySaved,  \* history: the key SSMSaveHDCPKey put into the file last, <<>> for none
  answer     \* the last value a KeyData_Read call gave, <<>> for none

keyVars == <<layout, files, store, leaked, receiver, keySaved, answer>>

Undefined == "undefined"   \* a byte of a buffer nobody wrote
SizeOf(region) == CASE region = "key" -> TotalSize [] region = "audio" -> AudioSize [] OTHER -> EdidSize
NothingGot == [kind |-> "nothing", bytes |-> <<>>]

(***************************************************************************)
(* Files.                                                                  *)
(***************************************************************************)

\* RealRWData: what is refused before the file is touched.
\* Mutant of Refused: the end of the access is not compared with the region's size.
RefusedStart(region, off, size) ==
  layout.at[region].path = "" \/ off < 0 \/ layout.at[region].offset < 0

Refused(region, off, size) ==
  \/ layout.at[region].path = ""
  \/ off < 0
  \/ off + size > SizeOf(region)
  \/ layout.at[region].offset < 0
RegionFile(region) == layout.at[region].path
Start(region, off) == layout.at[region].offset + off

\* ReadDataFromFile: a short read is a success and leaves the rest of the buffer as it was.
BytesRead(region, off, size) ==
  LET bytes == files[RegionFile(region)] IN
  [i \in 1 .. size |-> IF Start(region, off) + i \in DOMAIN bytes THEN bytes[Start(region, off) + i] ELSE Undefined]

\* SaveDataToFile: a write beyond the end makes the file longer.
BytesWritten(region, off, data) ==
  LET bytes == files[RegionFile(region)]
      first == Start(region, off)
      length == IF first + Len(data) > Len(bytes) THEN first + Len(data) ELSE Len(bytes)
  IN [i \in 1 .. length |->
       CASE i \in (first + 1) .. (first + Len(data)) -> data[i - first]
         [] i \notin (first + 1) .. (first + Len(data)) /\ i <= Len(bytes) -> bytes[i]
         [] OTHER -> Undefined]

\* The file may not open; a failed seek or read leaves it open.
Failed(outcome) == leaked' = IF outcome = "seek" THEN leaked + 1 ELSE leaked
Outcomes == {"done", "open", "seek"}
CanFail(outcome) == outcome = "seek" => leaked < MaxLeaks

\* The result of write is not looked at: "done" may have written nothing.
SaveRegion(region, off, data, outcome, full) ==
  /\ Failed(outcome)
  /\ files' = IF outcome = "done" /\ full
              THEN [files EXCEPT ![RegionFile(region)] = BytesWritten(region, off, data)] ELSE files

(***************************************************************************)
(* The key device.                                                         *)
(***************************************************************************)

\* ReadKeyData asks for the size of a key's content whatever the name, and a shorter value is an error.
ReadKeyData(name) == IF Len(store[name]) >= ContentSize THEN SubSeq(store[name], 1, ContentSize) ELSE <<>>

\* WriteKeyData: the device may refuse.
WriteKeyData(name, data) == store' \in {store, [store EXCEPT ![name] = data]}

NameSize == [mac |-> 1, usid |-> 2, projid |-> 1]

\* KeyData_SaveMacAddress, KeyData_SaveBarCode, KeyData_SaveProjectID.
KeyData_Save(name) ==
  /\ WriteKeyData(name, [i \in 1 .. NameSize[name] |-> "saved"])
  /\ UNCHANGED <<layout, files, leaked, receiver, keySaved, answer>>

\* The readers compare the size with the value's own, which ReadKeyData never returns.
KeyData_Read(name) ==
  /\ answer' = IF Len(ReadKeyData(name)) = NameSize[name] THEN ReadKeyData(name) ELSE <<>>
  /\ UNCHANGED <<layout, files, store, leaked, receiver, keySaved>>

(***************************************************************************)
(* The HDCP key.                                                           *)
(***************************************************************************)

DefHeader == [i \in 1 .. HeadSize |-> "header"]
DefContent == [i \in 1 .. ContentSize |-> "default"]

\* SSMSaveHDCPKey: the file, or, when that is refused or fails, the key device, as hexadecimal text
\* under another name than the one SSMReadHDCPKey reads.
SSMSaveHDCPKey ==
  \E key \in Keys, outcome \in Outcomes, full \in BOOLEAN :
    /\ CanFail(outcome)
    /\ IF ~Refused("key", 0, TotalSize)
       THEN SaveRegion("key", 0, key, outcome, full) ELSE UNCHANGED <<files, leaked>>
    /\ IF Refused("key", 0, TotalSize) \/ outcome # "done"
       THEN WriteKeyData("hdcp2_rx", key \o key) /\ UNCHANGED keySaved
       ELSE UNCHANGED store /\ keySaved' = IF full THEN key ELSE keySaved
    /\ UNCHANGED <<layout, receiver, answer>>

\* SSMReadHDCPKey: the file; when that fails the key device, with the default header.
KeyFrom(outcome) ==
  IF ~Refused("key", 0, TotalSize) /\ outcome = "done" THEN BytesRead("key", 0, TotalSize)
  ELSE IF ReadKeyData("hdcp14_rx") # <<>> THEN DefHeader \o ReadKeyData("hdcp14_rx")
  ELSE <<>>

\* RealHandleHDCPKey, RealHandleHDMIEdid: the receiver's device may not open or refuse the data.
Handle(kind, bytes) == receiver' \in {receiver, [kind |-> kind, bytes |-> bytes]}

\* SSMSetHDCPKey, SSMSetDefaultHDCPKey: nothing unless the configuration enables it; a demo board's
\* key is built in.
SSMSetHDCPKey ==
  \E outcome \in Outcomes :
    /\ CanFail(outcome)
    /\ IF layout.demo THEN Handle("key", DefHeader \o DefContent) /\ UNCHANGED leaked
       ELSE /\ IF Refused("key", 0, TotalSize) THEN UNCHANGED leaked ELSE Failed(outcome)
            /\ IF KeyFrom(outcome) # <<>> THEN Handle("key", KeyFrom(outcome)) ELSE UNCHANGED receiver
    /\ UNCHANGED <<layout, files, store, keySaved, answer>>

(***************************************************************************)
(* Audio curve and EDID.                                                   *)
(***************************************************************************)

\* SSMSaveAudioNoLinePoints: part of the region, anywhere the caller says.
SSMSaveAudioNoLinePoints ==
  \E off \in -1 .. AudioSize, size \in 1 .. AudioSize, outcome \in Outcomes, full \in BOOLEAN :
    /\ CanFail(outcome)
    /\ IF Refused("audio", off, size) THEN UNCHANGED <<files, leaked>>
       ELSE SaveRegion("audio", off, [i \in 1 .. size |-> "saved"], outcome, full)
    /\ UNCHANGED <<layout, store, receiver, keySaved, answer>>

EdidRegion(port) == CASE port = 1 -> "edid1" [] port = 2 -> "edid2" [] port = 3 -> "edid3" [] port = 4 -> "edid4"

\* SSMSetHDMIEdid: the port's file behind a head that tells the receiver an EDID from a key.
SSMSetHDMIEdid(port) ==
  \E outcome \in Outcomes :
    LET region == EdidRegion(port) IN
    /\ CanFail(outcome) /\ layout.customerEdid
    /\ IF Refused(region, 0, EdidSize) THEN UNCHANGED <<leaked, receiver>>
       ELSE /\ Failed(outcome)
            /\ IF outcome = "done" THEN Handle("edid", BytesRead(region, 0, EdidSize)) ELSE UNCHANGED receiver
    /\ UNCHANGED <<layout, files, store, keySaved, answer>>

(***************************************************************************)

KeyNames == Names \cup {"hdcp14_rx", "hdcp2_rx"}

KeyInit ==
  /\ layout \in Layouts
  /\ files = [path \in DOMAIN layout.length |-> [i \in 1 .. layout.length[path] |-> "shipped"]]
  /\ \E burnt \in {<<>>, [i \in 1 .. ContentSize |-> "burnt"]} :
       store = [name \in KeyNames |-> IF name = "hdcp14_rx" THEN burnt ELSE <<>>]
  /\ leaked = 0 /\ receiver = NothingGot /\ keySaved = <<>> /\ answer = <<>>

KeyNext ==
  \/ \E name \in Names : KeyData_Save(name) \/ KeyData_Read(name)
  \/ SSMSaveHDCPKey \/ SSMSetHDCPKey \/ SSMSaveAudioNoLinePoints
  \/ \E port \in 1 .. 4 : SSMSetHDMIEdid(port)

KeySpec == KeyInit /\ [][KeyNext]_keyVars

(***************************************************************************)
(* Properties.                                                             *)
(***************************************************************************)

\* A region of a file holds what was saved to it last, whatever is saved to its neighbours: the key
\* last put into the file is the one SSMReadHDCPKey finds there.
SavedKeyIsFound == keySaved # <<>> => BytesRead("key", 0, TotalSize) = keySaved
=============================================================================
