------------------------------ MODULE FbcLink ------------------------------
(***************************************************************************)
(* The serial link to the panel board (CFbcProtocol).  Server threads ask  *)
(* the panel and wait in sendDataAndWaitReply; one protocol thread reads   *)
(* frames and hands an answer over through the single mReplyList.  Nothing *)
(* of it is locked, so each write of it and each test is a step, on both   *)
(* sides.  The CEC device is a stub and is left out.                       *)
(***************************************************************************)
EXTENDS Integers, Sequences, FiniteSets

CONSTANTS
  Callers,     (* the server threads that ask the panel                    *)
  Cmds,        (* the get commands they send                               *)
  MaxAsks,     (* bound: questions sent                                    *)
  MaxNoise     (* bound: frames nobody waits for, upgrades on the line     *)

ASSUME FbcLinkAssumption ==
  /\ MaxAsks \in Nat /\ MaxNoise \in Nat

VARIABLES
  linkPc,      (* step of each caller inside sendDataAndWaitReply          *)
  linkCmd,     (* the command each caller asks or has got an answer to     *)
  linkGot,     (* what each caller's last call got                         *)
  linkAlone,   (* no other caller was inside during the call               *)
  linkCrossed, (* history: an earlier answer was being stored as the call  *)
               (* cleared the record, or one was stored as it copied       *)
  reply,       (* mReplyList: WaitCmd, reDataLen > 0, the frame            *)
  panelAsked,  (* questions the panel has not answered yet                 *)
  uart,        (* frames the panel sent and nobody read                    *)
  uartEdge,    (* epoll (EPOLLET) will report the line                     *)
  reader,      (* the protocol thread's step                               *)
  handing,     (* the frame it passes on                                   *)
  upgradeFlag, (* mUpgradeFlag                                             *)
  asks, noise  (* questions sent and noise made, for the bounds            *)

callerVars == <<linkPc, linkCmd, linkGot, linkAlone, linkCrossed>>
lineVars == <<panelAsked, uart, uartEdge>>
readerVars == <<reader, handing>>
linkVars == <<callerVars, reply, lineVars, readerVars, upgradeFlag, asks, noise>>

NoCmd == "0xff"
NoFrame == [kind |-> "none"]
Answer(cmd) == [kind |-> "data", cmd |-> cmd]
Torn == [kind |-> "torn"]
\* An upgrade confirmation (5A 5A 5A), or a frame cut short on the line: uartReadData takes such
\* bytes for a leader and a length and counts what follows as theirs.
Stub == [kind |-> "stub"]
NoiseFrames == {Stub}
LinkFrames == {Answer(cmd) : cmd \in Cmds}

LinkInit ==
  /\ linkPc = [c \in Callers |-> "out"] /\ linkCmd = [c \in Callers |-> NoCmd]
  /\ linkGot = [c \in Callers |-> NoFrame] /\ linkAlone = [c \in Callers |-> FALSE]
  /\ linkCrossed = [c \in Callers |-> FALSE]
  /\ reply = [wait |-> NoCmd, full |-> FALSE, data |-> NoFrame]
  /\ panelAsked = <<>> /\ uart = <<>> /\ uartEdge = FALSE
  /\ reader = "poll" /\ handing = NoFrame
  /\ upgradeFlag = FALSE
  /\ asks = 0 /\ noise = 0

(***************************************************************************)
(* A caller.                                                               *)
(***************************************************************************)

\* Entering makes every call under way, and this one if there is any, shared.
Enter(c) ==
  linkAlone' = [d \in Callers |->
                  IF d = c THEN \A e \in Callers \ {c} : linkPc[e] = "out"
                           ELSE linkAlone[d] /\ linkPc[d] = "out"]

\* A call of c ends without an answer.
EndsWithNothing(c) ==
  /\ linkPc' = [linkPc EXCEPT ![c] = "out"]
  /\ linkCmd' = [linkCmd EXCEPT ![c] = NoCmd]
  /\ linkGot' = [linkGot EXCEPT ![c] = NoFrame]
  /\ linkAlone' = [linkAlone EXCEPT ![c] = FALSE]
  /\ linkCrossed' = [linkCrossed EXCEPT ![c] = FALSE]
  /\ UNCHANGED <<lineVars, readerVars, upgradeFlag, asks, noise>>

\* fbcGetBatchValue while an upgrade owns the line: 0 and no data.
GetDuringUpgrade(c) == linkPc[c] = "out" /\ upgradeFlag /\ EndsWithNothing(c) /\ UNCHANGED reply

\* fbcGetBatchValue writes the question before mReplyList says what is awaited.
SendQuestion(c, cmd) ==
  /\ linkPc[c] = "out" /\ ~upgradeFlag /\ asks < MaxAsks
  /\ linkPc' = [linkPc EXCEPT ![c] = "sent"]
  /\ linkCmd' = [linkCmd EXCEPT ![c] = cmd]
  /\ linkGot' = [linkGot EXCEPT ![c] = NoFrame]
  /\ linkCrossed' = [linkCrossed EXCEPT ![c] = FALSE]
  /\ Enter(c)
  /\ asks' = asks + 1
  /\ panelAsked' = Append(panelAsked, cmd)
  /\ UNCHANGED <<reply, uart, uartEdge, readerVars, upgradeFlag, noise>>

\* A step of c inside sendDataAndWaitReply that leaves the line and the protocol thread alone.
CallGoes(c, from, to) ==
  /\ linkPc[c] = from /\ linkPc' = [linkPc EXCEPT ![c] = to]
  /\ UNCHANGED <<linkCmd, linkAlone, lineVars, readerVars, upgradeFlag, asks, noise>>

\* WaitDevNo and WaitCmd are set, whoever else is waiting; reDataLen is as an earlier call left it.
ArmReply(c) ==
  /\ CallGoes(c, "sent", "arming")
  /\ reply' = [reply EXCEPT !.wait = linkCmd[c]]
  /\ UNCHANGED <<linkGot, linkCrossed>>

\* reDataLen = 0.  A frame that passed the test against an earlier WaitCmd may still be stored.
ClearReply(c) ==
  /\ CallGoes(c, "arming", "armed")
  /\ reply' = [reply EXCEPT !.full = FALSE]
  /\ linkCrossed' = [linkCrossed EXCEPT ![c] = reader = "length" /\ handing # Answer(linkCmd[c])]
  /\ UNCHANGED linkGot

\* The caller reaches waitRelative; a signal given before is lost.
WaitReply(c) == CallGoes(c, "armed", "waiting") /\ UNCHANGED <<linkGot, linkCrossed, reply>>

\* Mutant of WaitTimesOut: the wait has no timeout.
WaitForEver(c) == FALSE

\* The relative wait runs out.
WaitTimesOut(c) == CallGoes(c, "waiting", "woken") /\ UNCHANGED <<linkGot, linkCrossed, reply>>

\* reDataLen = 0: nothing came; what is awaited is cleared.
FindNothing(c) ==
  /\ ~reply.full /\ linkPc[c] = "woken" /\ EndsWithNothing(c)
  /\ reply' = [reply EXCEPT !.wait = NoCmd]

\* reDataLen > 0: the copy out of the shared buffer, into which the protocol thread may be writing.
CopyReply(c) ==
  /\ reply.full /\ CallGoes(c, "woken", "copying")
  /\ linkGot' = [linkGot EXCEPT ![c] = IF reader = "data" THEN Torn ELSE reply.data]
  /\ linkCrossed' = [linkCrossed EXCEPT ![c] = @ \/ reader = "data"]
  /\ UNCHANGED reply

\* The copy ends and reDataLen is cleared; WaitCmd stays.
EndCopy(c) ==
  /\ CallGoes(c, "copying", "out")
  /\ reply' = [reply EXCEPT !.full = FALSE]
  /\ UNCHANGED <<linkGot, linkCrossed>>

(***************************************************************************)
(* The panel.                                                              *)
(***************************************************************************)

Arrives(f) == uart' = Append(uart, f) /\ uartEdge' = TRUE

\* The panel takes its oldest question: it answers, or question or answer is lost.
PanelAnswers ==
  /\ panelAsked # <<>>
  /\ panelAsked' = Tail(panelAsked)
  /\ \/ Arrives(Answer(Head(panelAsked)))
     \/ UNCHANGED <<uart, uartEdge>>
  /\ UNCHANGED <<callerVars, reply, readerVars, upgradeFlag, asks, noise>>

\* A stub comes.  Other frames nobody waits for (keys, acknowledgements, damaged ones) are read
\* and dropped as an answer is that nobody awaits.
PanelNoise ==
  /\ noise < MaxNoise /\ noise' = noise + 1
  /\ \E f \in NoiseFrames : Arrives(f)
  /\ UNCHANGED <<callerVars, reply, panelAsked, readerVars, upgradeFlag, asks>>

(***************************************************************************)
(* The protocol thread: one frame for one edge.                            *)
(***************************************************************************)

\* Both tests of mUpgradeFlag passed: the thread goes into uartReadData.
PollLine ==
  /\ reader = "poll" /\ ~upgradeFlag /\ uartEdge
  /\ uartEdge' = FALSE /\ reader' = "read"
  /\ UNCHANGED <<callerVars, reply, panelAsked, uart, handing, upgradeFlag, asks, noise>>

\* Mutant of Awaited: whatever comes while something is awaited is taken for the answer.
AnyFrame(f) == reply.wait # NoCmd

\* processData's test of WaitDevNo and WaitCmd.
Awaited(f) == f.kind = "data" /\ f.cmd = reply.wait

\* uartReadData takes what the line holds next, whatever the flag says by now: an answer that is
\* awaited is passed on, a stub makes the thread count what follows, the rest is dropped.
ReadFrame ==
  /\ reader = "read" /\ uart # <<>>
  /\ uart' = Tail(uart)
  /\ IF Awaited(Head(uart))
     THEN reader' = "length" /\ handing' = Head(uart)
     ELSE /\ reader' = IF Head(uart) = Stub THEN "swallow" ELSE "poll"
          /\ UNCHANGED handing
  /\ UNCHANGED <<callerVars, reply, panelAsked, uartEdge, upgradeFlag, asks, noise>>

\* The count takes the next frame, in whole or in part; when it is reached the checksum is wrong
\* and all is dropped.  What is left of a frame may look like a leader again.
SwallowFrame ==
  /\ reader = "swallow" /\ uart # <<>>
  /\ \/ uart' = Tail(uart) /\ reader' \in {"swallow", "poll"}
     \/ uart' = <<Stub>> \o Tail(uart) /\ reader' = "poll"
  /\ UNCHANGED <<callerVars, reply, panelAsked, uartEdge, handing, upgradeFlag, asks, noise>>

\* A step of processData after its test.
Hands(from, to) ==
  /\ reader = from /\ reader' = to
  /\ UNCHANGED <<linkCmd, linkAlone, lineVars, upgradeFlag, asks, noise>>

\* reDataLen is set before the data is there; the copy in begins, under the hands of a caller that
\* copies out.
StoreLength ==
  /\ Hands("length", "data")
  /\ reply' = [reply EXCEPT !.full = TRUE]
  /\ linkGot' = [c \in Callers |-> IF linkPc[c] = "copying" THEN Torn ELSE linkGot[c]]
  /\ linkCrossed' = [c \in Callers |-> linkCrossed[c] \/ linkPc[c] = "copying"]
  /\ UNCHANGED <<linkPc, handing>>

\* The data is there.
StoreData ==
  /\ Hands("data", "signal")
  /\ reply' = [reply EXCEPT !.data = handing]
  /\ UNCHANGED <<linkPc, linkGot, linkCrossed, handing>>

\* The signal wakes a caller that waits, or nobody; readFrameBuf is zeroed for the next frame.
SignalReply ==
  /\ Hands("signal", "poll") /\ handing' = NoFrame
  /\ \/ \E c \in Callers : linkPc[c] = "waiting" /\ linkPc' = [linkPc EXCEPT ![c] = "woken"]
     \/ (\A c \in Callers : linkPc[c] # "waiting") /\ UNCHANGED linkPc
  /\ UNCHANGED <<linkGot, linkCrossed, reply>>

(***************************************************************************)
(* The upgrade, seen from the link: it sets the flag, reads the line for   *)
(* itself and clears the flag (module FbcUpgrade has the rest).            *)
(***************************************************************************)

FlagUp ==
  /\ ~upgradeFlag /\ noise < MaxNoise
  /\ upgradeFlag' = TRUE /\ noise' = noise + 1
  /\ UNCHANGED <<callerVars, reply, lineVars, readerVars, asks>>

\* uartReadStream takes what is on the line; a protocol thread that is in uartReadData may have
\* got the beginning of it.
UpgradeReads ==
  /\ upgradeFlag /\ uart # <<>> /\ uart' = <<>>
  /\ \/ UNCHANGED reader
     \/ reader = "read" /\ reader' = "swallow"
  /\ UNCHANGED <<callerVars, reply, panelAsked, uartEdge, handing, upgradeFlag, asks, noise>>

FlagDown ==
  /\ upgradeFlag /\ upgradeFlag' = FALSE
  /\ UNCHANGED <<callerVars, reply, lineVars, readerVars, asks, noise>>

CallStep(c) ==
  \/ ArmReply(c) \/ ClearReply(c) \/ WaitReply(c) \/ WaitTimesOut(c)
  \/ FindNothing(c) \/ CopyReply(c) \/ EndCopy(c)

LinkNext ==
  \/ \E c \in Callers :
       \/ GetDuringUpgrade(c) \/ CallStep(c)
       \/ \E cmd \in Cmds : SendQuestion(c, cmd)
  \/ PanelAnswers \/ PanelNoise
  \/ PollLine \/ ReadFrame \/ SwallowFrame \/ StoreLength \/ StoreData \/ SignalReply
  \/ FlagUp \/ UpgradeReads \/ FlagDown

\* The callers' threads run, and a relative wait runs out.
LinkFairness == \A c \in Callers : WF_linkVars(CallStep(c))

LinkSpec == LinkInit /\ [][LinkNext]_linkVars /\ LinkFairness

(***************************************************************************)
(* Properties.                                                             *)
(***************************************************************************)

LinkTypeOK ==
  /\ linkPc \in [Callers ->
                {"out", "sent", "arming", "armed", "waiting", "woken", "copying"}]
  /\ linkCmd \in [Callers -> Cmds \cup {NoCmd}]
  /\ linkGot \in [Callers -> LinkFrames \cup {NoFrame, Torn}]
  /\ linkAlone \in [Callers -> BOOLEAN] /\ linkCrossed \in [Callers -> BOOLEAN]
  /\ reply.wait \in Cmds \cup {NoCmd} /\ reply.full \in BOOLEAN
  /\ reply.data \in LinkFrames \cup {NoFrame}
  /\ uart \in Seq(LinkFrames \cup NoiseFrames) /\ uartEdge \in BOOLEAN
  /\ reader \in {"poll", "read", "swallow", "length", "data", "signal"}
  /\ handing \in LinkFrames \cup {NoFrame}
  /\ upgradeFlag \in BOOLEAN /\ asks \in 0..MaxAsks

\* A caller that was alone in sendDataAndWaitReply for its whole call gets a whole answer to the
\* command it asked or none: neither a late answer to an earlier call of any thread, nor what such
\* a call left in mReplyList, nor a record half stored as the wait ran out reaches it.  The one
\* way round it in the code is kept out by linkCrossed: processData had let an earlier command's
\* answer pass and had not yet set reDataLen when this call cleared it, or it wrote the record
\* while this call copied it.
AnswersReach ==
  \A c \in Callers :
    linkPc[c] = "out" /\ linkAlone[c] /\ ~linkCrossed[c] =>
      linkGot[c] \in {Answer(linkCmd[c]), NoFrame}

\* Every call of fbcGetBatchValue returns, whatever the panel, the other callers and the
\* upgrade do.
CallReturns == \A c \in Callers : linkPc[c] # "out" ~> linkPc[c] = "out"
=============================================================================
