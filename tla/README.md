# Verification of the Amlogic TV server

TLA+ models of the TV server of this repository (`src/`), checked with TLC on
small instances and, where marked, proved with TLAPS for all values of the
constants. `PROJECT.json` maps every definition to the source lines it stands
for and lists, under `hazards`, what in this code is hard to test.

## 1. The system

`tvserver` is one process. HIDL clients call `DroidTvServer`
(`tvserver/DroidTvServer.cpp`), which forwards each command to `CTv`
(`libtv/tv/CTv.cpp`); events go the other way through `CTv::sendTvEvent`,
`DroidTvServiceIntf::onTvEvent`, which packs them into parcels, and the clients'
callbacks. A second program, `tvfbclinker`, talks to an external panel ("FBC")
over a serial line and upgrades its firmware.

Threads that meet in `CTv`:

| thread | runs | locks |
|---|---|---|
| binder threads (four) | the client calls | `CTv::mLock` in most calls, none in some (`operateDeviceForScan`, `SetHdmiEdidVersion`, the settings, the getters) |
| `CTvMsgQueue` (`tvutils/CMsgQueue.cpp`) | `handleMessage`: FE, AV, scan, EPG, recorder, RRT, EAS events and two delayed jobs | `mLockQueue` around the vector only; `CTv`'s members are read WITHOUT `mLock` |
| `CDevicesPollStatusDetect` | epoll on uevents and vdin; `onVdinSignalChange`, `onSourceConnect` | `CTv::mLock` in `onVdinSignalChange` |
| library threads (dvb, libav, `AM_EVT`, demux) | callbacks of tuner, player, recorder, scanner, rating tables, time-shift file | they only enqueue, except the time-shift file's, the scanner's receiver switch and the rating tables' |
| `CFbcProtocol` | reads frames from the panel | none |
| `CFbcUpgrade` | one upgrade | none; a flag keeps `CFbcProtocol` off the line |

### Components: state, operations, interaction, what makes them correct

* **Message queue** (`CMsgQueueThread`). A vector ordered by due time, a
  condition variable, the thread's exit flag. The consumer releases the lock
  four times per message and reads `size()` without it. Correct if every
  message is handled, once due, in order.
* **CTv core.** `mTvAction` (flags IN_VDIN, STOPING, SCANNING, PLAYING),
  `m_source_input`. The flags decide what each call may do and every call
  updates them by hand; the message thread sees intermediate states. Correct if
  whatever is on can be found and stopped by the call that must stop it.
* **Players, recorders, managers** (`CTvPlayer`, `CTvRecord`, `DevManager`,
  `CAv`). One player, two recorders; a DTV player with time shifting has a
  recorder named "timeshifting" and shares its file. Raw pointers handed out
  after the manager's lock is dropped, ownership of the file, failed starts, a
  library that keeps a session until it is stopped.
* **Front end** (`CFrontEnd`). Two tuner devices, the parameters tuned last, the
  fine-tuning offset. Correct if a request skipped as done was done.
* **Vdin** (`CTvin`). Decoder, snow, the kernel's video paths, whose driver may
  refuse.
* **Video layer** (`CAv`). What is shown and what is recorded as shown, changed
  by threads with and without the lock; the AV library's events.
* **Scanner** (`CTvScanner`). One scan at a time, a receiver that must follow
  it, and the services stored from the streams found.
* **Device poll thread** (`CDevicesPollStatusDetect`). Edge-triggered epoll,
  several sockets in one file, binder threads that overwrite what is remembered.
* **HIDL service** (`DroidTvServer`, `DroidTvServiceIntf`). Clients in slots,
  whose number is the cookie of the death notice; parcels with hand-computed
  slots.
* **FBC link, panel and upgrade.** Framed commands over a serial line with an
  answer awaited in one shared record; settings scaled to bytes; a firmware
  image sent block by block; a boot check that may reboot.
* **RRT and EAS** (`CTvRrt`, `CTvEas`). Rating tables into a file that clients
  look values up in; one event object for all alerts.
* **Settings** (`CTvSetting`), **board data** (`TvKeyData`), **configuration
  file** (`tvconfig`), **programme database** (`tvdb`). What survives a restart,
  written in steps, partly without a lock.
* **HDMI inputs** (`CHDMIRxManager`, `CTv`). Port numbers translated in three
  places, EDID versions kept in four.

## 2. Modules

| module | models | run |
|---|---|---|
| `MsgQueue` | `CMsgQueueThread` | `msg_server`, `msg_api` |
| `Tv` | `CTv`: sources, playback, scans, stop, events | `tv_core`, two violations |
| `Recording` | recorders, the DTV player, their managers, the time-shift file | `playback`, `rec_file`, a violation |
| `TimeShift` | play commands, the library's sessions, media information of a recording | `playback` |
| `FrontEnd` | opening, modes and tuning with the parameter cache | `playback` |
| `VdinDevice` | decoder, snow, video paths | `playback` |
| `DevicesPoll` | `CDevicesPollStatusDetect` | `service` |
| `TvClients` | `DroidTvServer`: clients and events | `service`, a violation |
| `FbcLink` | question and answer over the shared line | `fbc` |
| `FbcUpgrade` | the upgrade thread; implements `FlashTransfer` | `fbc` |
| `FlashTransfer` | abstract: an in-order transfer of an image | refined in `fbc` |
| `FbcPanel` | the panel's settings, their conversions | `fbc` |
| `PanelBoot` | the boot-time check of the environment | `fbc` |
| `Scanner` | the life of a scan, receiver switch, percentages | `parts` |
| `ScanStore` | the services made of the streams found | `parts` |
| `Psip` | rating tables and alerts | `parts` |
| `Settings` | `CTvSetting` and the restores of defaults | `parts` |
| `EventParcel` | `onTvEvent`'s parcels | `parts` |
| `KeyData`, `MacWorker` | keys, EDIDs, audio curve; the MAC address worker | `service` |
| `TvConfig` | the configuration file | `service` |
| `HdmiInputs` | ports and EDID versions | `parts` |
| `ProgramDb` | creation, import, crash recovery and lists of the database | `parts` |
| `VideoLayer` | the video layer and the AV events | `parts` |
| `AtvStandard` | analogue standards and fine tuning | `parts` |

The theorems are in `MsgQueue_proofs`, `Tv_proofs`, `Service_proofs` (about
`TvClients`, `TvConfig`, `DevicesPoll` and `EventParcel`), `Recording_proofs`
(about `Recording` and `TimeShift`), `Tuner_proofs` (about `FrontEnd`, `Scanner`,
`VdinDevice`, `AtvStandard` and `Psip`), `Fbc_proofs` (about `FbcLink`,
`FbcUpgrade`, `FbcPanel` and `PanelBoot`) and `Parts_proofs` (about `MacWorker`,
`VideoLayer`, `ProgramDb`, `HdmiInputs`, `Settings`, `KeyData` and `ScanStore`).
`DataLemmas` has what they need to know of the library's operators on sequences.
`MCMsgQueue`,
`MCTv`, `MCRecording`, `MCPlayback`, `MCService`, `MCFbc` and `MCParts` are the
instances for TLC. Where a run holds modules that share no state, the variable
`part` of its MC module names the one that moves, so that their states add up
instead of multiplying; modules whose components do interact are one part.

In the component modules, the operators whose comment begins with "Mutant of"
are not part of the model: each is the definition after it with a plausible
mistake, and shows that a property of a run notices it. Variables called
"history" or "ghost" in their comment have no counterpart in the code; they hold
what a property compares with. Those named `...Doubt`, `doubt`, `scars` or
`disturbed` hold the reasons for which the code does not promise a property, and
the property says so.

### MsgQueue

`queue` is `m_v_msg`, `msg` the local of `threadLoop`, `now` the monotonic
clock in ticks. `pc` names the place of the consumer; a step is one critical
section of `mLockQueue` or one unlocked read:
`top -> check -> (wait ->) size -> peek -> delay -> (timed -> size ...) ->
sizeAgain -> take -> handle -> top`. `undef` is entered when `m_v_msg[0]` is
read from an empty vector. `SendMsg`, `RemoveMsg`, `ClearMsg`, `RequestExit` are
the calls of other threads; `Api` says which of them the owner makes. The timed
wait may end at any time, since `waitRelative` gets milliseconds where it takes
nanoseconds. `sent` and `last` are history.

### Tv

The members are the record `tv`; the operators before the actions
(`StopPlaying`, `ReleasePlayer`, `StopDecoder`, `StopScan`, `LeaveSource`,
`EnterSource`, ...) have the names of the functions they stand for and map
members to members, so that an action composes them in the order of the code.
A call made under `mLock` is one step, except where it publishes `mTvAction` or
`m_source_input` half way and the message thread can see it: a source switch is
`BeginSwitch`/`FinishSwitch`, a play is a switch and then `PlayLive`,
`PlayShift` or `PlayAtv`, and `StopTvLock` is `BeginStopTv`/`FinishStopTv`;
`busy` remembers what comes next and keeps other callers of `mLock` out.
`queue` and `handler` are the message thread, for the events whose handling
depends on the state of `CTv`; a message keeps, as history, what was true when
it was raised. `TV_ACTION_SOURCE_SWITCHING` and `TV_ACTION_RECORDING` are left
out: nothing reads them.

Nondeterministic: whether a library call succeeds (`ok`), whether
`TVIN_IOC_STOP_DEC` is refused (`Refusals`), whether the set shows snow now.

### Recording, TimeShift

`Recording` is one record `st`: `recs` is `RecorderManager` by id (a `CTvRecord`
with its devices, its `AM_REC` handle and its observer), `lib` what the
recording library keeps for a handle, `player` the one slot of `PlayerManager`,
`open` the open time-shift files, `shift` the file the AV library plays from,
and `update` the pointer the message thread holds between
`getFirstDevWithIdContains` and `onPlayUpdate`. Pointers are modelled by what
they point at; deleting the player turns what pointed at it into `"deleted"`.
The functions of the code are operators from state to state, and the commands,
which hold `mLock`, compose them in one step each. `RecordEnds` is the library's
thread, `FindPlayer`/`PlayUpdate` the message thread without `mLock`. `Tv` sees
of all this only whether a player is registered and what plays; `Recording` sees
nothing of sources and scans, and so may take any command at any time.

`TimeShift` is the same commands from the player's side: the modes (live, time
shift, recording), `setupDefault`, `start`, `stop`, pause, seek and speed, and
the library's session, which stays until it is stopped. `pb.file` is the file of
a played recording as words in packets; `ReadMediaInfo` reads it through the
packet headers into the buffer of computed size.

Nondeterministic: whether `AM_REC_Create`, `AM_REC_StartRecord` and the AV
library succeed, whether the library refuses to stop, and which address a new
handle or file gets, those of closed ones among them. `st.refused` and
`st.crossed` are history: the file the library would not stop playing from, and
the addresses at which a player has closed a recording's file through an
`mTfile` of its own that `tryCloseTFile` never clears; an address given out when
no recording is left at it and nothing is played from it is `crossed` no more. A
failed `startPlay` removes the player's id from `RecorderManager`, so clients are
assumed not to play under an id they record under.

### FrontEnd, AtvStandard, VdinDevice, VideoLayer

`FrontEnd.fend` are the members of `CFrontEnd` (which devices are open, the
mode, the cached parameters), `tuned` what each device is tuned to. `SetPara`
skips a request equal to the cached one, which was stored before the tuning.

`AtvStandard` follows an analogue channel from the standard the scan hears
(`stations`), through the two numbers it is stored as, to the tuner's bits and
the CVBS decoder's format, and the fine-tuning offset beside them.

`VdinDevice` holds `CTvin`'s members and the driver's answers: starting and
stopping the decoder, the snow switch, and the two video paths, rebuilt at the
first switch and checked when coming to digital TV.

`VideoLayer`: a call of `CTv` is the sequence of its steps on layer and flags
(`work`), and the steps of the four actors interleave as far as their locks let
them. `raising` are the AV library's two threads filling the one `mCurAvEvent`,
`inbox` the queue.

### DevicesPoll, TvClients, EventParcel

A socket of `DevicesPoll` is a pair of a device file and a position. `wire` is
its level as the driver knows it, `cache` is `m_hdmi_status` and
`m_avin_status`, `told` (history) what clients heard last. `ready` is the epoll
set: a change (`Plug`) puts the file there, `Wait` takes all of it, which is
what edge triggering means. `poll` is the thread: `batch` the events still to be
handled, `snap` what was read. It compares and reports (`Compare`) and then
remembers (`Store`): each AV input at once, the HDMI ports together after the
last. `caller` are the binder threads in `GetSourceConnectStatus`, which read
and store without a lock.

`TvClients.mClients` are the slots. `Call` and `Die` are client processes;
`SetCallback` and `ServiceDied` are one step each, since they hold `mLock`;
`onEvent` is `LockForEvent`, a `Notify` per slot and `Unlock`, so that clients
die between its calls. `links` and `notices` are what the binder driver knows: a
death turns the client's links into notices, which arrive in any order and at
any later time. `due` (history) keeps the slots as they were when an event was
sent.

`EventParcel` translates every case of `onTvEvent`: a parcel is two vectors of a
size and the slots written, each with the member of the event it holds.

### The panel

`FbcLink`: `linkPc` is the place of each caller in `sendDataAndWaitReply`
(written, arming, armed, waiting, woken, copying), `reply` is `mReplyList`:
`WaitCmd`, whether `reDataLen` is positive, and the data. `uart` are the frames on
the line, `reader` the protocol thread, which polls, reads one frame per edge,
tests `WaitCmd`, and then stores length and data and signals. Nothing is locked, so
each of these is a step, on both sides: an answer that passed the test may be
stored after its caller gave up and another armed, and a record may be copied
while it is written (`Torn`). An upgrade confirmation, or a frame cut short, is a
`Stub`: `uartReadData` takes it for a leader and a length and swallows any number
of the frames behind it, the last perhaps in part. `FbcUpgrade`: `upNext`,
`upResend`, `upCode` are the thread's locals, `flash` what the panel holds; both
directions may lose data and the power may go. `FbcPanel`: `panelReg` are the
panel's registers by command, and each `Set`/`Get` is `CTvFactory`'s conversion,
the command of `CFbcCommunication`, and the byte that fits its frame.
`PanelBoot`: the environment's output mode and reversal against the panel's, with
the comparison by words that the code makes. Bytes of a frame and its CRC are
left out: a damaged frame is one that is lost, and a length beyond the 512 bytes
of `uartReadData`'s buffer is not modelled.

### Scanner, ScanStore, Psip

`Scanner.scan` are the members (`mbScanStart`, `mScanHandle`, the last receiver
type, VBI, the percentage), `lib` the library's scans, `scanCall` the place of a
`Scan` or `stopScan` in its steps, `scanCb` that of `FETypeHelperCB` on the
library's thread, `query` an unlocked call between its test and its use of the
handle. `ScanStore.found` are the streams found, `stored` the services of the
last `storeScan`, which goes over all of them again. `Psip`: `xmlDoc` is the
document being made of a table, `xmlFile` what is on disk, `searching` a manual
search with its handle and its five seconds; `alert` and `easTold` the alert on
air and as told. `slot` is what is kept between alerts: the text and, byte by
byte, the 64 ints of `p_data`, into which `memcpy` puts a descriptor's bytes
(`Overwritten`) and of which as many ints are told as there were bytes (`Ints`):
four bytes to an int, then what longer descriptors left.

### What is kept

`Settings.blob` are the settings the system control keeps (those that a run does
not touch are absent), `parental` the 32-bit mask, `saving` the saves a caller
has left, one step each; the server may crash and the system control be away.
`KeyData.files` are files by path with a region per kind of data; a layout is a
board's configuration. `TvConfig.lines` is the list in memory and `file` the
file, emptied (`savePc`) before it is written. Reading it back is not the identity:
a line with a '#' is a comment and one with both brackets a section, whatever it
was written as (`LineType`), and every blank in it goes (`Trim`). `HdmiInputs`
holds the four copies of an EDID version and the two port maps. The path, the four
reads, the boot loader's word, the reading of the file and the write to the
receiver are steps of a caller (`edidCalls`), which no lock keeps from those of
another; only `SetSourceSwitchInput` has one. `OpenTv` runs while the service is
constructed, before it has clients. `ProgramDb.db` is the database
file, `rollback` what a fall inside a transaction goes back to, `dbPc` the
statement that comes next; `Down` may happen between any two.

## 3. Runs

| run | instance | what it shows |
|---|---|---|
| `msg_server` | 4 messages, delays 0, 1, 3, clock to 3, `sendMsg` only | what CTv relies on: nothing is handled early, out of order or never, and no unlocked read is undefined |
| `msg_api` | 3 messages of 2 types, every call | no lost wake-up |
| `tv_core` | all four kinds of source, snow, driver obeys, one message | ownership and flags of playback, decoder, scanner; what StopTvLock releases |
| `tv_stable_event` | two sources | VIOLATED: stable signal reported after playback ended |
| `tv_stop_report` | two sources | VIOLATED: the stop's own end of playback reported as lost signal |
| `playback` | `Recording`: ids r1, r2 and the reserved "timeshifting", 2 handles, 1 file, addresses given out again, library may refuse. `TimeShift`: 2 player ids, a whole and a cut file. `FrontEnd`: 4 modulations, 1 frequency. `VdinDevice`: 2 signals, 3 sources, refusals | callbacks find recorder and observer; no recording or session nobody can stop; a recording plays as written; a skipped tuning was done; decoder, snow and paths follow |
| `rec_file` | 1 recording id, 2 player ids, 2 handles, 2 files, addresses given out again, library may refuse | nobody closes the file that is played, but for a refusal or a crossed address; leaving the tuner ends and closes everything |
| `rec_play_update` | 1 recording id, 1 player id | VIOLATED: the message thread uses a deleted player |
| `service` | `DevicesPoll`: 2 HDMI ports, one client asking about AV1 and AV2; one HDMI port and AV2 change. `TvClients`: 2 clients, 3 registrations, 2 events. Beside them, one at a time, `KeyData`, `MacWorker`, `TvConfig` | nothing undisturbed is missed; a level that lasts is reported; slots are never confused and are freed; everybody hears everything once per slot, in one order; keys and configuration are found again, one MAC thread works |
| `clients_unlinked` | 2 clients, 2 registrations, 1 event | VIOLATED: a client that dies before `linkToDeath` keeps its slot |
| `fbc` | 2 callers, 2 commands, 2 questions, one confirmation or one upgrade taking the line; 3 blocks, 3 resends; boundary values of each setting; every environment and panel | answers reach who asked; the upgrade implements an in-order transfer and ends; settings come back; no reboot loop |
| `parts` | nine components, one at a time; see below | the properties of `Scanner`, `ScanStore`, `Psip`, `Settings`, `EventParcel`, `ProgramDb`, `VideoLayer`, `AtvStandard`, `HdmiInputs` |

### Properties of several parts

Where a run asks several questions of one component they are conjuncts of one
property, each with its own name and comment in the module: `InDueOrder`
(`NeverEarly`, `HandledInOrder`), `FlagsTellDevices` (`ScannerIsFlagged`,
`DecoderIsFlagged`, `NoDecoderInScan`), `ClientsServed` (`HeardByAll`,
`SameOrder`, `DeathFindsSlot`), `ScanHandled` (`OneScan`, `QueryMeetsScan`), `StoredAsFound`
(`OwnStream`, `ExcludedNotTold`, `NothingLost`), `PsipToldAsSent`
(`RatingFound`, `AlertToldAsSent`), `SettingsKept` (`FlagKept`,
`RestoredReadsDefault`), `InputsAgree` (`PortsAgree`, `EdidAsPicked`),
`DatabaseServes` (`ReadyIsWhole`, `ScanIsListed`), `LayerFollows`
(`LayerAsRecorded`, `DarkAfterStop`), `TunedAsAsked` (`StandardSurvives`,
`FineFollows`), `VdinFollows` (`DtvFindsPath`, `SnowStaysOnAnalog`,
`DecodesTheSignal`).

### Bounds

`MsgQueue`: four messages reach every order of two ties, an earlier and a later
insertion while one is in hand; the clock passes every due time. `MaxMsgs`
bounds the senders, so the consumer may end waiting and `CHECK_DEADLOCK` is off.
`Tv` is finite but for the queue: one waiting message and one in the handler
give every order of two events against the calls. Of the real sources one of
each kind that the code tells apart is enough (tuner analogue, tuner digital,
other video, audio only). `tv_core` takes a driver that obeys; with refusals
three of its properties are false and the others are proved (section 4).

`Recording` is finite once ids, devices and addresses are: three ids for two
slots reach the full manager; two handles let a repeated start lose one while
another runs. In `rec_file` two addresses are enough for a live play's file, its
successor at the same or the other address, and a client's recording beside it.
`tryCloseTFile` never clears `mTfile` and closes the same address again at the next
stop, and a player whose library refuses to stop is deleted all the same: both
happen in the run, `ShiftFileOpen` speaks of every file but those, and `NothingLeft`
of everything but what the library refused to stop. The cut file ends inside the last
field that the code checks; `PacketWords` and `InfoWords` are scaled. The buffer
is as large as the struct with its packets' headers; `MediaAssumption` says what a
whole file is: it begins with information that fits it, as the recorder's does
(one audio track of the three and the subtitles, `CTvRecord.cpp` 304-320).

`DevicesPoll` is finite. Two HDMI ports are needed for a change of the second
while the first is compared; one caller is enough, as callers only meet the
thread, never each other, in what they store. A question overwrites what is
remembered, so the report of a change that it sees first is never made: the
properties are about the sockets that no question overwrites (`Undisturbed`), in
the run HDMI, AV2 and vdin, because a question about AV2 stores the level of AV1
on its way and one about AV1 stores nothing. With questions about HDMI the same
holds for the AV inputs, by the theorems. `TvClients`: two clients and three
registrations let a slot be taken over, a client hold two slots, and a notice
arrive after either.

`FbcLink`: two callers and two questions in all meet in every step: one caller
twice, so that an answer is late, or both at once. `MaxNoise` is a bound for
confirmations and upgrades together, one of either; a late answer after an upgrade
and a swallowed answer both happen. Other frames nobody waits for (keys,
acknowledgements, damaged frames) are read and dropped as the answer is that nobody
waits for any more. `FbcUpgrade`: three blocks
have a first, a middle and a last; the limit of three resends is the code's.

`parts`: two scans of each of five kinds; up to three of seven streams and
channels that differ in the tables they have, under every combination of the
options that matter to the standard; two rating tables and two alerts out of
those that differ in what the code tests, with descriptors shorter and longer than
an int, over one another, and `EasInts`, 64 in the code, scaled to 6; two callers of settings with two
events each; every event with up to three streams; two crashes of the database;
three calls of the layer with one event, three events of the two library threads
without a call; two clients' three calls for the EDIDs of one input, of two
versions, on three boards, one with a gap, one in order, one missing an input. In
`service`: layouts whose regions touch each other and the
file's end; two callers and three MAC threads; two configuration writers with two
changes, of values with a blank, a '#' and brackets, and a restart. Calls, events and crashes are used up, so `CHECK_DEADLOCK` is off.

### Fairness

`MsgQueue`: weak fairness of the consumer thread and of time; none of the
senders. `DevicesPoll`: the poll thread goes on; cables, questions and the first
client are not fair. `TvClients`: the server goes on; as events are finitely
many, no assumption about the order in which `mLock` is given is needed.
`FbcLink`: callers go on and a timed wait ends; the panel need not answer.
`FbcUpgrade`: its thread goes on, with or without the panel. `Tv`: `FairSpec`
says that a thread that holds `mLock` goes on and that the message thread runs;
it is used by the runs that look for a counterexample, so that these cannot be
blamed on a stopped thread.

## 4. Proofs

| property of a run | theorem | assumed |
|---|---|---|
| `InDueOrder`, `NoUndefinedRead` | `HandledInDueOrder`, `ReadsAreDefined` | the owner only sends (`ServerApi`) |
| `NoLostWakeup` | `NeverSleepsOnMessage` | nothing of the owner |
| `TsOnlyOnDtv`, `NoOrphanPlayback` | `TsStaysOnDtv`, `PlaybackIsOwned` | nothing of the driver |
| `FlagsTellDevices`, `StopReleases` | `FlagsAreTrue`, `StopTvReleases` | the driver always stops its decoder (`Obeys`) |
| `CallbackHasTarget`, `NoRunawayRecording` | `CallbackSafe`, `RecordingsStoppable` | |
| `ShiftFileOpen`, `NothingLeft` | `ShiftFileStaysOpen`, `LeavingLeavesNothing` | `NotReserved`: clients do not record under the reserved id |
| `NoLooseSession` | `SessionsAreHeld` | |
| `PlaysAsWritten` | `TracksAsWritten` | a whole file begins with information that fits the struct (`MediaAssumption`) |
| `NothingMissed` | `NeverMissed` | |
| `ClientsServed` | `EveryClientServed` | |
| `SkippedIsTuned` | `SkippedTunings` | |
| `ScanHandled`, `ReceiverFollows` | `HandleIsGood`, `ReceiverIsReady` | |
| `VdinFollows` | `VdinDoesAsAsked` | |
| `TunedAsAsked` | `TunerStandsAsAsked` | |
| `AnswersReach` | `FramesReach` | |
| `UpgradeIsTransfer` | `UpgradeRefines` | |
| `NoRebootLoop` | `NoBootLoops` | |
| `AnsweredGetTells` | `GetsTellTheSet` | the values set are in the ranges the code names |
| `OneMacWorker` | `OneThreadWorks` | |
| `LayerFollows`, `EventsWhole` | `LayerIsAsRecorded`, `EventsArriveWhole` | |
| `DatabaseServes` | `DatabaseIsServed` | the list shipped has a rating dimension, its rows are regions' and dimensions' |
| `InputsAgree` | `InputsAreAgreed` | no two inputs are wired to one port; versions of four bits |
| `SettingsKept` | `SettingsStay` | |
| `SavedKeyIsFound` | `SavedKeyStays` | the regions of key and audio curve do not overlap |
| `StoredAsFound` | `StoredIsAsFound` | a stream lists a program once |
| `PsipToldAsSent` | `RatingsAndAlertsTold` | a table has one section for a region, under a name of its own; a descriptor has at most as many bytes as the event's arrays have ints (`BroadcastAssumption`) |
| `CarriesWholeEvent` | `WholeEventCarried` | an alert has at most two texts and two descriptors (`Lengths`), with counts the event's arrays hold |
| `SetIsKept` | `SettingsAreRead` | no section's name begins another's, as of the five the server uses |

The constants' further assumptions are the `ASSUME`s beside their declarations:
that numbers are numbers and sets hold what their names say.

`MsgQueue_proofs`, assuming `ServerApi` (the owner only sends, as all of `src/`
does): the inductive invariant adds to type correctness that the vector is
sorted with ids given out (`QueueInv`), that it is non-empty from the locked
emptiness test to the removal (`BusyInv`: only the consumer removes), that what
is first is due no later than the copy whose due time was checked (`DueInv`: a
later `sendMsg` can only put something earlier first), and that what was handled
precedes all that is queued (`HandledInv`). With `removeMsg` a message can be
handled early (its neighbour was the one whose due time was checked), so the
assumption is needed; nothing in `src/` calls `removeMsg`. What is left of it for
every owner is `ApiInv`: types, `QueueInv` and `NoLostWakeup`. A sender appends
and signals under the lock that the consumer holds from its test of the vector to
its wait; and the loop of `removeMsg`, whose index slips past the neighbour of
what it removes, still leaves a part of the vector in its order (`After`, proved
along the loop's index), so `QueueStaysSorted` needs nothing of the owner either.

`Tv_proofs`: `Sound(s)` collects what the members owe each other (a transport
stream only on DTV, PLAYING and with a DTV player; time shift only with a DTV
player; PLAYING only with a player; a scanner only under SCANNING). Each
operator of `Tv` has a lemma that it keeps `Sound` and what else it
establishes; each action is then a composition of lemmas. `BusyInv` says what is
true half way through a call: nothing plays during a switch, and a start under
way has its player registered and its source selected. Neither `TsOnlyOnDtv` nor
`NoOrphanPlayback` is inductive without them. Under `Obeys` `DecoderInv` is
inductive as well and gives the decoder's part of `FlagsTellDevices` and, with
`Sound`, the action property `StopReleases`; with refusals these are false.

`Recording_proofs`: `Owned(s)` says that no two recorders share a handle and
that a handle that records or is subscribed has one; `Called(s)` that a
subscribed recorder has an observer, which is the player only for the time-shift
recorder, while there is a player with time shifting enabled (its `stop` skips
the recorder otherwise). `CallbackHasTarget` alone is not inductive: that
nothing points at a player when it is deleted rests on `stop` having removed the
recorder, which rests on the player's flag not having changed since the start.
These theorems hold for any number of ids, devices and addresses, with reuse
of addresses and refusals. `FilesKept` and
`ShiftKept` add who owns a file: a handle has a file only while it records
(`FileRecorded`); one that will close its file itself is the only one to, and the
file is open (`FileOwned`); an open file is held by such a handle or is the
player's `mTfile` (`FileClosable`), so that it can still be closed; and the file that
is played from is open and held by no recording, whose end would close it
(`FilePlayed`). Without a player nothing plays, but what the library would not stop,
and while the time shift records there is a player that plays with time shifting.
A player that closes its `mTfile` once too often meets, after the address has been
given out again, another recording's file: `crossed` takes such an address out of
`FileOwned` and `FilePlayed` until it is given out anew when no recording holds it
and nothing is played from it, and
`refused` the file of a session the library did not stop. Which addresses are given out
and what the library refuses is otherwise free. The one assumption is
`NotReserved`: a client that records under "timeshifting" restarts the player's own
recorder. For `TimeShift`, `PlaySound`
relates a player's mode to the library's session, and `LiveHeld` and
`SessionHeld` give every session left in the library a player whose `stop`
reaches it; a session is loose only after a refused stop. What a played file gives
is a matter of data: a word of the information stands in its packet at a place that
its number determines (`InPacket`), reading skips one word of each packet and so
finds it at its own number again (`InTurn`), and each field of the struct stands
where the fields before it, of fixed size, end (`Stands`, `Joined`).

`Service_proofs`, the poll thread: for an undisturbed socket, either its level has been told,
or the file has an edge that is pending, in the batch or being read, or the
thread has it in `snap` and has yet to compare it (`Reported`); and what is
remembered is what was told, except between a comparison and its store
(`Remembers`). The second makes the first inductive: a comparison with `cache`
stands for one with `told` only while no one else writes `cache` for that
socket.

The clients: `DeathFindsSlot` needs that a link belongs to a live client
and a notice to a dead one (`LinksOfLiving`): then no second notice for the slot
is left when it is freed, and `NextSlotFree` says that only a free or new slot is
given out. `SameOrder` needs that events still to be sent are unheard
(`TodoUnheard`) and that nobody has heard another event after the one being sent
(`SentLast`), which holds as `mLock` lets only one onEvent run (`OneSender`).
`HeardByAll` says nothing while an event is being sent; `Progress` does: the
slots are those the event was sent to, and each live client has heard it as
often as it is among the slots so far (`Among`, counted place by place in
`AmongNext`, which meets `TimesAppend` in each `Notify`). The configuration file:
`ConfigInv` says that each undisturbed setting is `Kept`, that
is, the first line its section's search meets is at one place, the first line its
key's search meets behind that holds the value, and no section begins in between;
a change of another setting moves both places alike or inserts behind the one
section's line (`SetIs` is the list after a change, line by line). The file holds
the list whenever nobody saves, a buffer holds it whenever one does
(`SavesWhole`), and undisturbed only one saves (`OneSaves`). What a restart reads is
the list with its blanks trimmed; where no value with both brackets was set in a
section since the start, its lines are read as what they were written as
(`SteadyLines`), so a search finds the same places. `AloneKeys` leaves
out keys whose search would meet another key's line, which the code does meet.
The parcels: a run of slots that holds each of its members once `Covers` them, and
two runs of which the second begins where the first ends cover both (`Fills`); the
scanner's parcel is five such runs whose ends are sums over the streams, an alert's
is the concatenation of its rows (`Row`: what a row holds, and how long it is at
most), whose sum stays within the 1024 slots.

`Tuner_proofs`: for `FrontEnd`, the device the cached parameters belong to is
tuned to them, unless a tuning failed or the mode was changed since
(`CacheTold`). For `Scanner`, a scan that runs is the one `mScanHandle` names
(`Owned`); `Positions` says at each place of `Scan` and `stopScan` whether
there is one, and `Unlocked` that a query which no stop has overlapped still has
it. `OneScan` alone is not inductive: half way through a call `mbScanStart` and
the library disagree. `ReceiverInv` adds, for each place of `FETypeHelperCB`,
what of tuner and vdin port it has set up for the type it has remembered, and
where in a scan VBI cannot be on: `ReceiverFollows` says nothing while the
callback works. `VdinInv` says
what the driver shows at every moment, not only on digital TV, `AtvInv` that
whatever parameters are cached the tuner stands as they say; both unless a
refusal or a failed write is on record. The standards' round trips are lemmas
over the conversions' tables. For `Psip` the invariant is `Gathered`: at every
moment of an update each value of the table is either found in the document by
its region, dimension and number with its own text (`Shown`) or still to be
saved, and every system of the document is drawn from the table under one region
and dimension (`Drawn`), so that no value saved later hides or renames one saved
before. It needs the table's infos to be exactly its values, which
`InfosOfTable` says of the loops of `RrtDataUpdate`, and the names to tell regions
apart, as the code joins by name and looks up by number. Of an alert, the bytes of
one descriptor overwrite as many bytes of `slot`, whatever those held, and an int
told has the four at its place.

`Fbc_proofs`: `UpInv` keeps thread and flash within the one block on its way;
with it each step of `FbcUpgrade` is a step of `FlashTransfer` or a stutter
under the mapping of `FT`, which is `UpgradeRefines`. For the link, a caller that is
alone owns `WaitCmd` from arming it on, and from clearing `reDataLen` on, unless
crossed, whatever is in the record or on its way into it is its own answer
(`AloneOwnsReply`, `OwnReply`): what the protocol thread had let pass before is
stored by then, or `linkCrossed` says that it was not. `BootInv`: whatever the environment was, a clean boot that
rebooted has left one that satisfies the comparison with the panel, and a further
clean boot keeps it so. `PanelInv`: each register of the panel holds what the
last set to reach it asked for, through the conversion of the way in
(`SettingsHeld`, `BalanceHeld`); a get goes through the conversion of the way
back, and that the two lose no more than `WbLoss` allows are the lemmas
`GainComesBack` and `OffsetComesBack`.

`Parts_proofs`: `WorkerInv` keeps the members of `MacWorker` and the threads
alive in step as long as no call overlaps another. `LayerInv` says at each place
of a call which of the layer and its record is ahead; `EventInv` where in its
three hands a lone event is. `DbInv` is the recovery argument: at every statement,
what a fall at that moment would leave on disk is either mended by the next
start (which goes by the file, the flag and a row in each of two tables:
`TablesInv`, `RowsInv`, `DimsInv`) or is one of the scars; `CountInv` places each
list within the list shipped, `WantedInv` says what is still to be imported.
`DatabaseServes`, which only speaks of a server that is up, is far from
inductive without it. `InputsInv`, for any number of callers: what a call has read
so far is what is stored, but for what was stored since (`WordsRead`), and so is
what the boot loader was told (`BootTold`); what a call is about to give was chosen
last, unless overtaken (`ReadFresh`), and so was what the receiver has, unless a
call is about to renew it (`ReceiverFresh`). That a word's four-bit digits are those
it was made of is lemma `NibblesOfWord`. For `Settings`, `FlagKept` is inductive as it stands;
`RestoreInv` says of a restore that meets nothing else that each setting a client
will find restored is so already or is among the saves to come, and that none of
these says otherwise (`RestoreIsWhole`, over the restore's six lists). `KeyInv`
says byte by byte where in its file the key saved last lies (`KeyLies`); a write
leaves the bytes outside of it (`Written`). `StoreInv`: the streams found rise in
frequency (`Rising`), so that a service's frequency names one stream, and each
digital service told is a program of its stream that the options leave in
(`ToldIsFound`); `StoredAsFound` follows, as a stream lists a program once.

`DataLemmas`: a set of naturals that is not empty has a least member, hence what
holds of 0 and passes from each number to the next holds up to any bound
(`Along`, `Recursion`), stated over sets, which the provers can instantiate where
the library's induction theorems, over operators, they cannot. From it, what
flattening a sequence of sequences gives: its elements, its length, and the place
of each element when all parts have one length (`FlattenHolds`, `FlattenEven`).
With these the three properties over data above are theorems, not only the ones
over steps.

Only model-checked: liveness (`EveryMessageHandled`, `EventuallyTold`,
`LinkedSlotFreed`, `CallReturns`, `UpgradeEnds`), which with fairness and
`ENABLED` is out of the prover's reach, and the violations. Every safety property
of a run is a theorem.

## 5. What the violations say

Each is a disagreement between the code and a sentence in the code, listed with
its quotation in `PROJECT.json` under `findings`: two events of `CTv` that are
tested against flags read without `mLock` or read too late; the player that is
deleted while the message thread calls it; and the slot of a client that dies
while it registers.

## 6. Not modelled

Dead code, found by following every caller:

* the legacy binder service (`TvService.cpp`): `main_tvserver.cpp` starts the
  HIDL service; `DroidTvServer::processCmd` is under `#if 0`, so
  `DroidTvServiceIntf::processCmd` is called from nowhere, and with it
  `KeyData_Save*`/`Read*` but for keys and EDIDs (`KeyData` and `MacWorker` model
  them as the calls they would be);
* `CTvEpg`'s callback (its observer is never set), `CTvVchipCheck`,
  `CBootvideoStatusDetect`, booking, `startLiveTryRecording`,
  `player_info_callback`, `playDtvbcProgram`/`playDtmbProgram`, the factory
  menu's test colours; rows of programmes, events and bookings are written by no
  live code; services told only by a VCT are never stored
  (`store_vct_notin_pmt` is constantly false);
* not built: `CBlobDeviceRam`, `ScreenCatch`, `AutoBackLight`, `pqdata`;
  `CTvScreenCapture` is stubs.

Without state of their own: the ~60 vdin and ~100 VPP ioctl wrappers, GPIO,
sysfs access, version strings, serial set-up, HDMI CEC (a stub in the linker),
virtual input keys, `DroidTvServer`'s delegations, subtitles, demultiplexer and
time, which forward to the library.

Left out of modelled components: suspend, window and 3D settings of `CTv`; AFC,
signal quality and the status callbacks' shared event of `CFrontEnd` (546-604,
959-976); audio tracks and volume of `CAv`; blind scans, names, languages and
captions of the scanner; paths and names of recordings; the bytes and CRC of
FBC frames; failed reads of the poll thread.

### Further hazards, noticed and not covered

* `CMsgQueue.cpp:33`: the destructor joins a consumer that waits and is not
  signalled; `:59`: `removeMsg` skips the neighbour of what it removes.
* `CTv.cpp:1833`: `StopTvLock` releases no player when the source is not a tuner;
  `:697`: `atvAutoScan` with an unusable range leaves SCANNING set; `:1787`:
  `StartTvLock` reads `mTvStatus` before the lock; `:3022`: a recorder that is
  found gets new devices without `addDev`'s comparison; `:600-609`: `Scan` tests
  modes, which are values, as if they were masks.
* `CTvPlayer.cpp:477`: the time-shift file's callback takes `PlayerManager`'s
  lock on the library's thread, while `releaseAll` holds it over the stop that
  waits for that thread. `CTvPlayer.cpp:187` clears `video_inuse` whoever uses
  the video.
* `CDevicesPollStatusDetect.cpp:159`: the result of `readFile` is not looked at.
* `DroidTvServer::onEvent` calls clients under `mLock`: right only while
  `notifyCallback` is one-way.
* `CTvScanner.cpp:2166` keeps counts from the scan before; `:1483` frees the
  analogue VBI ids at the first store though most modes store again.
* `CTvSetting.cpp:808`: every byte of a pre-copied file is written to setting 0;
  `:1538`: a restore is ~30 saves any of which may be lost.
* `CTvEas.cpp:280`: a client that takes each int told of an alert's descriptor for a
  byte gets neither the bytes nor only this alert's; a descriptor of more than 64
  bytes is told from beyond `p_data`.
* `CTvRrt.cpp:124, 229`: a second start overwrites the handle; a search waits 5
  seconds with the mutex held and reads the result of the one before.
* `CFbcCommunication.cpp:811`: reading the backlight's state sends the command
  that sets it; `CFbcLinker.cpp:88` leaves a dangling instance;
  `CFbcUpgrade.cpp:66`: a second start while one runs clears its flag.
* `CTvDatabase.cpp:183`: a failed open ends in an assertion at every start.

### What could follow

An abstract owner of playback that `Tv`, `Recording` and `TimeShift` all
implement; the managers' own locks with the time-shift file's callback; the
bound of the recorder slots.
