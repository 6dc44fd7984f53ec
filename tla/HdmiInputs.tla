----------------------------- MODULE HdmiInputs -----------------------------
(***************************************************************************)
(* HDMI inputs.  The board's configuration says which port of the chip     *)
(* each input, HDMI1 to HDMI4, is wired to; three parts of the server      *)
(* translate between the two: the map for CEC and the boot loader          *)
(* (CHDMIRxManager), the poll thread (CDevicesPollStatusDetect) and the    *)
(* CEC switch (CTv).  Each input has a version of its EDID: stored by the  *)
(* system control, kept as the path of a file in the configuration, given  *)
(* to the receiver when the input is selected, and told to the boot        *)
(* loader as one number.                                                   *)
(*                                                                         *)
(* Boards are the configurations: [wired : input -> port of the chip,      *)
(* enabled : the customer's EDIDs are used].  Different inputs are wired   *)
(* to different ports.  The files of all versions are there.               *)
(* The server is opened before it has clients; then EdidCallers are the    *)
(* threads their calls run on, which take no lock for the EDIDs but for    *)
(* the switches of the source.                                             *)
(* Bounds: clients select ChangedPorts, or no HDMI input, and change their *)
(* EDIDs, in MaxEdidCalls calls in all.                                    *)
(***************************************************************************)
EXTENDS Integers, FiniteSets

CONSTANTS Boards, EdidVersions, ChangedPorts, EdidCallers, MaxEdidCalls

Inputs == 1 .. 4        \* HDMI_PORT_1 .. HDMI_PORT_4, the inputs
NotWired == -1
ASSUME InputsAssumption ==
  /\ Boards \subseteq [wired : [Inputs -> NotWired .. 3], enabled : BOOLEAN]
  /\ \A b \in Boards : \A p, q \in Inputs : b.wired[p] = b.wired[q] /\ p # q => b.wired[p] = NotWired
  /\ EdidVersions \subseteq 0 .. 15 /\ ChangedPorts \subseteq Inputs
SOURCE_HDMI1 == 5
SOURCE_MAX == 15
Unmapped == 15         \* a nibble without an input
HdmiSource(p) == SOURCE_HDMI1 + p - 1

VARIABLES
  board,     \* the configuration
  paths,     \* port -> the version whose file the configuration names
  kept,      \* port -> the version the system control stores
  envMap, envEdid,   \* the boot loader's port map and EDID versions
  given,     \* what the receiver was given last: [port, version]
  edidOn,    \* mSetHdmiEdid: the TV has been opened
  hdmiSource,\* the current source, SOURCE_MAX for another than HDMI
  edidCalls, \* caller -> [pc, port, version, next: the input it reads next, word: what it has read, locked]
  picked,    \* history: port -> the version chosen for it last, by opening the TV or by a client
  missed,    \* history: caller -> the inputs whose version was stored since it read it
  envStale,  \* history: those the boot loader's versions missed
  overtaken, \* history: callers for whose input a version was chosen since they read the file
  lag,       \* history: a call for the input given last failed, or gave it when it was overtaken
  edidAsked  \* how many calls clients made

inputVars == <<board, paths, kept, envMap, envEdid, given, edidOn, hdmiSource, edidCalls, picked, missed,
               envStale, overtaken, lag, edidAsked>>
NoneGiven == [port |-> 0, version |-> 0]

(***************************************************************************)
(* Translations.                                                           *)
(***************************************************************************)

\* Tvin_GetSourcePortBySourceInput, Tvin_PortToSourceInput.
PortOf(source) ==
  IF source - SOURCE_HDMI1 + 1 \in Inputs THEN board.wired[source - SOURCE_HDMI1 + 1] ELSE NotWired
SourceOf(port) ==
  LET S == {p \in Inputs : board.wired[p] = port} IN
  IF S = {} THEN SOURCE_MAX ELSE HdmiSource(CHOOSE p \in S : \A q \in S : p <= q)

Weights == <<1, 16, 256, 4096>>
Nibble(n, i) == (n \div Weights[i + 1]) % 16

\* Mutant of CalHdmiPortCecPhysicAddr: inputs are counted from 0.
CalHdmiPortFromZero ==
  LET of(port) == IF SourceOf(port) = SOURCE_MAX THEN Unmapped ELSE SourceOf(port) - 5 IN
  of(0) + 16 * of(1) + 256 * of(2) + 4096 * of(3)
CalHdmiPortCecPhysicAddr ==
  LET of(port) == IF SourceOf(port) = SOURCE_MAX THEN Unmapped ELSE SourceOf(port) - 4 IN
  of(0) + 16 * of(1) + 256 * of(2) + 4096 * of(3)

\* Versions, four bits each.
WordOf(v) == v[1] + 16 * v[2] + 256 * v[3] + 4096 * v[4]

\* CTv::Tv_SetDeviceIdForCec tells the port of the chip, counted from 1, and a port not wired as 1.
CecPort(source) == IF PortOf(source) = NotWired THEN 1 ELSE PortOf(source) + 1
\* ChipHdmiPortMaptoSourceInput, SourceInputMaptoChipHdmiPort: the poll thread's bit of a port.
PlugSource(bit) == SourceOf(IF bit \in 0 .. 3 THEN bit ELSE 0)
PlugBit(source) == IF PortOf(source) = NotWired THEN 0 ELSE PortOf(source)

(***************************************************************************)
(* EDIDs.                                                                  *)
(***************************************************************************)

\* Tv_HandeHDMIEDIDFilePathConfig: the file of each port's stored version.
SelectAll == kept

\* CTv::OpenTv: the paths are renewed, and whatever the source is, the first input's EDID is given,
\* if its file and the receiver's device open.
OpenEdid ==
  /\ ~edidOn /\ edidOn' = TRUE
  /\ IF board.enabled
     THEN /\ paths' = SelectAll /\ picked' = kept /\ envEdid' = WordOf(kept) /\ envStale' = {}
          /\ given' \in {NoneGiven, [port |-> 1, version |-> paths'[1]]}
     ELSE UNCHANGED <<paths, picked, envEdid, envStale, given>>
  /\ UNCHANGED <<board, kept, envMap, hdmiSource, edidCalls, missed, overtaken, lag, edidAsked>>

NoVersions == [p \in Inputs |-> 0]
EdidCall(pc, port, version, locked) ==
  [pc |-> pc, port |-> port, version |-> version, next |-> 1, word |-> NoVersions, locked |-> locked]
NoCall == EdidCall("idle", 0, 0, FALSE)
AskedEdid == edidOn /\ edidAsked < MaxEdidCalls /\ edidAsked' = edidAsked + 1 /\ UNCHANGED edidOn
AskEdid(c, call) == AskedEdid /\ edidCalls[c] = NoCall /\ edidCalls' = [edidCalls EXCEPT ![c] = call]
Return(c) == edidCalls' = [edidCalls EXCEPT ![c] = NoCall]

\* CTv::SetHdmiEdidVersion: the port's path, whether or not customers' EDIDs are used.
SetHdmiEdidVersion(c, port, version) ==
  /\ AskEdid(c, EdidCall("read", port, version, FALSE))
  /\ paths' = [paths EXCEPT ![port] = version] /\ picked' = [picked EXCEPT ![port] = version]
  /\ overtaken' = overtaken \cup {d \in EdidCallers : edidCalls[d].pc = "give" /\ edidCalls[d].port = port}
  /\ UNCHANGED <<board, kept, envMap, envEdid, given, hdmiSource, missed, envStale, lag>>

\* The stored versions, input by input, and what the boot loader is told of them.
ReadVersion(c) ==
  /\ edidCalls[c].pc = "read"
  /\ LET p == edidCalls[c].next IN
     /\ edidCalls' = [edidCalls EXCEPT ![c].word[p] = kept[p], ![c].next = IF p = 4 THEN 1 ELSE p + 1,
                            ![c].pc = IF p = 4 THEN "tell" ELSE "read"]
     /\ missed' = [missed EXCEPT ![c] = @ \ {p}]
  /\ UNCHANGED <<board, paths, kept, envMap, envEdid, given, edidOn, hdmiSource, picked, envStale, overtaken,
                 lag, edidAsked>>
TellVersions(c) ==
  /\ edidCalls[c].pc = "tell" /\ envEdid' = WordOf(edidCalls[c].word) /\ envStale' = missed[c]
  /\ missed' = [missed EXCEPT ![c] = {}]
  /\ edidCalls' = [edidCalls EXCEPT ![c].pc = "load", ![c].word = NoVersions]
  /\ UNCHANGED <<board, paths, kept, envMap, given, edidOn, hdmiSource, picked, overtaken, lag, edidAsked>>

\* Mutant of LoadedVersion: the caller's own version instead of the one the configuration names.
OwnVersion(c) == edidCalls[c].version
LoadedVersion(c) == paths[edidCalls[c].port]

\* SSMSetHDMIEdid: nothing unless the customer's EDIDs are used; the file may not be read, the
\* receiver's device may not open, and it keeps what it had.
Fail(c) ==
  /\ Return(c) /\ overtaken' = overtaken \ {c}
  /\ lag' = (lag \/ given.port = edidCalls[c].port) /\ UNCHANGED given
LoadEdid(c) ==
  /\ edidCalls[c].pc = "load"
  /\ \/ /\ board.enabled /\ UNCHANGED <<given, lag, overtaken>>
        /\ edidCalls' = [edidCalls EXCEPT ![c].pc = "give", ![c].version = LoadedVersion(c)]
     \/ board.enabled /\ Fail(c)
     \/ ~board.enabled /\ Return(c) /\ UNCHANGED <<given, lag, overtaken>>
  /\ UNCHANGED <<board, paths, kept, envMap, envEdid, edidOn, hdmiSource, picked, missed, envStale, edidAsked>>
GiveEdid(c) ==
  /\ edidCalls[c].pc = "give"
  /\ \/ /\ given' = [port |-> edidCalls[c].port, version |-> edidCalls[c].version] /\ lag' = (c \in overtaken)
        /\ Return(c) /\ overtaken' = overtaken \ {c}
     \/ Fail(c)
  /\ UNCHANGED <<board, paths, kept, envMap, envEdid, edidOn, hdmiSource, picked, missed, envStale, edidAsked>>

\* CTv::SetSourceSwitchInput, one at a time: the new input's EDID.
SwitchInput(c, source) ==
  /\ \A d \in EdidCallers : ~edidCalls[d].locked
  /\ source # hdmiSource /\ hdmiSource' = source
  /\ AskEdid(c, IF source = SOURCE_MAX THEN NoCall ELSE EdidCall("load", source - 4, 0, TRUE))
  /\ UNCHANGED <<board, paths, kept, envMap, envEdid, given, picked, missed, envStale, overtaken, lag>>

\* CTv::SaveHdmiEdidVersion, and SSMHDMIEdidRestoreDefault, which does so input by input.
SaveVersion(port, version) ==
  /\ kept' = [kept EXCEPT ![port] = version] /\ envStale' = envStale \cup {port}
  /\ missed' = [d \in EdidCallers |-> IF edidCalls[d].pc \in {"read", "tell"} THEN missed[d] \cup {port} ELSE {}]
  /\ UNCHANGED <<board, paths, envMap, envEdid, given, hdmiSource, picked, overtaken, lag>>
SaveHdmiEdidVersion(port, version) ==
  AskedEdid /\ SaveVersion(port, version) /\ UNCHANGED edidCalls
EdidRestoreDefault(c, version) ==
  /\ AskEdid(c, EdidCall("restore", 1, version, FALSE))
  /\ UNCHANGED <<board, paths, kept, envMap, envEdid, given, hdmiSource, picked, missed, envStale, overtaken, lag>>
RestoreNext(c) ==
  /\ edidCalls[c].pc = "restore" /\ SaveVersion(edidCalls[c].port, edidCalls[c].version)
  /\ IF edidCalls[c].port = 4 THEN Return(c) ELSE edidCalls' = [edidCalls EXCEPT ![c].port = @ + 1]
  /\ UNCHANGED <<edidOn, edidAsked>>

(***************************************************************************)

\* The constructor of CTv: the map, and what the boot loader is told.
Starting(word, map) == envEdid' = word /\ envMap' = map /\ envStale' = {}
InputsRestart ==
  /\ edidOn /\ edidOn' = FALSE /\ Starting(WordOf(kept), CalHdmiPortCecPhysicAddr)
  /\ hdmiSource' = SOURCE_MAX /\ given' = NoneGiven /\ lag' = FALSE /\ picked' = paths
  /\ edidCalls' = [c \in EdidCallers |-> NoCall] /\ overtaken' = {} /\ missed' = [c \in EdidCallers |-> {}]
  /\ UNCHANGED <<board, paths, kept, edidAsked>>
InputsInit ==
  /\ board \in Boards
  /\ paths = NoVersions /\ picked = paths /\ kept = NoVersions
  /\ envMap = CalHdmiPortCecPhysicAddr /\ envEdid = WordOf(kept) /\ envStale = {}
  /\ given = NoneGiven /\ lag = FALSE /\ edidOn = FALSE /\ hdmiSource = SOURCE_MAX /\ edidAsked = 0
  /\ edidCalls = [c \in EdidCallers |-> NoCall] /\ overtaken = {} /\ missed = [c \in EdidCallers |-> {}]

InputsNext ==
  \/ OpenEdid \/ InputsRestart
  \/ \E p \in ChangedPorts, v \in EdidVersions : SaveHdmiEdidVersion(p, v)
  \/ \E c \in EdidCallers :
       \/ \E p \in ChangedPorts, v \in EdidVersions : SetHdmiEdidVersion(c, p, v)
       \/ ReadVersion(c) \/ TellVersions(c) \/ LoadEdid(c) \/ GiveEdid(c)
       \/ \E v \in EdidVersions : EdidRestoreDefault(c, v)
       \/ RestoreNext(c)
       \/ \E p \in ChangedPorts : SwitchInput(c, HdmiSource(p))
       \/ SwitchInput(c, SOURCE_MAX)

InputsSpec == InputsInit /\ [][InputsNext]_inputVars

(***************************************************************************)
(* Properties.                                                             *)
(***************************************************************************)

\* The boot loader's map, the CEC event and the poll thread's report name the same input for the same
\* port of the chip, and no two inputs are taken for one another.
PortsAgree ==
  /\ \A bit \in 0 .. 3 :
       Nibble(envMap, bit) = IF PlugSource(bit) = SOURCE_MAX THEN Unmapped ELSE PlugSource(bit) - 4
  /\ \A p \in Inputs : board.wired[p] # NotWired =>
       Nibble(envMap, CecPort(HdmiSource(p)) - 1) = p /\ PlugSource(PlugBit(HdmiSource(p))) = HdmiSource(p)

\* A call is about to give the receiver the input's EDID.
Renews(c, port) == edidCalls[c].port = port /\ edidCalls[c].pc # "restore"

\* The receiver holds, for the input it got it for, the EDID version chosen last, by a client or by
\* opening the TV, once no call is about to renew it, and unless the one that gave it had read
\* the file before that choice, or the last one failed.  The boot loader finds each input's stored
\* version, unless it was stored after the call that told it last had read it.
EdidAsPicked ==
  /\ given.port # 0 /\ ~lag /\ (\A c \in EdidCallers : ~Renews(c, given.port)) =>
       given.version = picked[given.port]
  /\ \A p \in Inputs \ envStale : Nibble(envEdid, p - 1) = kept[p]

\* The server, the boot loader, the receiver and CEC agree on each input's port and EDID.
InputsAgree == PortsAgree /\ EdidAsPicked
=============================================================================
