---------------------------- MODULE Fbc_proofs -----------------------------
(***************************************************************************)
(* Proofs about the panel's link, its firmware upgrade, its settings and   *)
(* the boot's comparison with it.                                          *)
(***************************************************************************)
EXTENDS FbcLink, FbcUpgrade, FbcPanel, PanelBoot, SequenceTheorems, TLAPS

(***************************************************************************)
(* The upgrade implements FlashTransfer.                                   *)
(***************************************************************************)

UpInv ==
  /\ UpTypeOK
  /\ upPc = "prepare" => upNext = 1 /\ flash = 0 /\ upReady = FALSE /\ upCode = "0" /\ upResend = 0 /\ upReported = NoReport
  /\ upPc \in {"send", "confirm"} =>
       /\ upReady = TRUE /\ upCode = "0" /\ upNext <= NBlocks /\ upResend <= ResendLimit
       /\ flash \in {upNext - 1, upNext}
  /\ upPc = "end" /\ upReady = FALSE => upCode # "0" /\ flash = 0
  /\ upPc = "end" /\ upReady = TRUE =>
       flash \in {upNext - 1, upNext} /\ (upCode = "0" => upNext = NBlocks + 1)
  /\ Busy => upReported # NeverRun
  /\ upReported = NeverRun => flash = 0

\* What UpStart and its thread start from.
LEMMA UpInvInit == UpInit => UpInv
<1> SUFFICES ASSUME UpInit PROVE UpInv
    OBVIOUS
<1> USE FbcUpgradeAssumption DEF UpInit
<1>1. upReported \in UpReports /\ upCode \in UpCodes
    BY DEF UpCodes, UpReports, NeverRun
<1>2. UpTypeOK
    <2>1. upFlag \in BOOLEAN /\ upReady \in BOOLEAN
        OBVIOUS
    <2>2. upNext \in 1..(NBlocks + 1) /\ upResend \in 0..(ResendLimit + 1) /\ flash \in 0..NBlocks
        OBVIOUS
    <2> QED
        BY <1>1, <2>1, <2>2 DEF UpTypeOK
<1> QED
    BY <1>2 DEF UpInv, Busy

\* Every action of the upgrade keeps UpInv.
LEMMA UpInvStep == UpInv /\ [UpNext]_upVars => UpInv'
<1> SUFFICES ASSUME UpInv, [UpNext]_upVars PROVE UpInv'
    OBVIOUS
<1> DEFINE States == {"STOPED", "RUNNING", "ABORT"}
<1>0. /\ NeverRun # NoReport /\ NoReport \in UpReports
      /\ \A st \in States, code \in UpCodes : <<st, code>> \in UpReports /\ <<st, code>> # NeverRun
      /\ Serial \in PrepareErrors /\ "0" \in UpCodes /\ "0" \notin PrepareErrors
      /\ PrepareErrors \subseteq UpCodes
    BY DEF UpReports, UpCodes, NeverRun, NoReport, PrepareErrors, Serial
<1> USE FbcUpgradeAssumption, <1>0 DEF UpInv, UpTypeOK, Busy
<1>1. CASE UpStart
    <2>1. upFlag' \in BOOLEAN /\ upReady' \in BOOLEAN
        BY <1>1 DEF UpStart
    <2>2. UpTypeOK'
        BY <1>1, <2>1 DEF UpStart
    <2> QED
        BY <1>1, <2>2 DEF UpStart
<1>2. CASE UpPrepare
    <2>1. upFlag' \in BOOLEAN /\ upReady' \in BOOLEAN
        BY <1>2 DEF UpPrepare
    <2>2. UpTypeOK'
        BY <1>2, <2>1 DEF UpPrepare
    <2> QED
        BY <1>2, <2>2 DEF UpPrepare
<1>3. CASE UpSendBlock
    BY <1>3 DEF UpSendBlock
<1>4. CASE UpConfirmed
    BY <1>4 DEF UpConfirmed
<1>5. CASE UpUnconfirmed
    BY <1>5 DEF UpUnconfirmed
<1>6. CASE UpEnd
    BY <1>6 DEF UpEnd
<1>7. CASE UpReboot
    BY <1>7 DEF UpReboot
<1>8. CASE PowerCut
    BY <1>8 DEF PowerCut
<1>9. CASE UNCHANGED upVars
    BY <1>9 DEF upVars
<1> QED
    BY <1>1, <1>2, <1>3, <1>4, <1>5, <1>6, <1>7, <1>8, <1>9 DEF UpNext, UpThread

\* UpInv holds throughout.
LEMMA UpInvAlways == UpSpec => []UpInv
BY UpInvInit, UpInvStep, PTL DEF UpSpec

\* The variables of the upgrade have their types for every number of blocks and resends.
THEOREM UpTypes == UpSpec => []UpTypeOK
<1>1. UpInv => UpTypeOK
    BY DEF UpInv
<1> QED
    BY <1>1, UpInvAlways, PTL

\* For every number of blocks: thread and panel never differ by more than the block on its way.
THEOREM UpInStep == UpSpec => []FlashInStep
<1>1. UpInv => FlashInStep
    BY DEF UpInv, FlashInStep, Busy
<1> QED
    BY <1>1, UpInvAlways, PTL

\* A step of the upgrade is a step of FlashTransfer or changes nothing it sees.
LEMMA UpStepRefines == UpInv /\ [UpNext]_upVars => [FT!FTNext]_FT!ftVars
<1> SUFFICES ASSUME UpInv, [UpNext]_upVars PROVE FT!FTNext \/ UNCHANGED FT!ftVars
    OBVIOUS
<1> USE FbcUpgradeAssumption
    DEF UpInv, UpTypeOK, Busy, UpCodes, PrepareErrors, NeverRun, NoReport, Serial, UpResult,
        FT!FTNext, FT!FTBegin, FT!FTWrite, FT!FTEnd, FT!ftVars
<1>1. CASE UpStart
    BY <1>1 DEF UpStart
<1>2. CASE UpPrepare
    BY <1>2 DEF UpPrepare
<1>3. CASE UpSendBlock
    BY <1>3 DEF UpSendBlock
<1>4. CASE UpConfirmed
    BY <1>4 DEF UpConfirmed
<1>5. CASE UpUnconfirmed
    BY <1>5 DEF UpUnconfirmed
<1>6. CASE UpEnd
    BY <1>6 DEF UpEnd
<1>7. CASE UpReboot
    BY <1>7 DEF UpReboot
<1>8. CASE PowerCut
    BY <1>8 DEF PowerCut
<1>9. CASE UNCHANGED upVars
    BY <1>9 DEF upVars
<1> QED
    BY <1>1, <1>2, <1>3, <1>4, <1>5, <1>6, <1>7, <1>8, <1>9 DEF UpNext, UpThread

\* The upgrade thread, with resends, aborts, restarts and power cuts, implements the transfer:
\* blocks reach the flash in order, and success is reported only when all are there.
THEOREM UpgradeRefines == UpSpec => UpgradeIsTransfer
<1>1. UpInit => FT!FTInit
    BY DEF UpInit, FT!FTInit, Busy, UpResult
<1> QED
    BY <1>1, UpStepRefines, UpInvAlways, PTL DEF UpSpec, UpgradeIsTransfer, FT!FTSpec

(***************************************************************************)
(* The link: its types, and the answer of a caller that was alone.         *)
(***************************************************************************)

Inside == {"sent", "arming", "armed", "waiting", "woken", "copying"}
Cleared == {"armed", "waiting", "woken", "copying"}
Readers == {"poll", "read", "swallow", "length", "data", "signal"}

LinkShape ==
  /\ linkPc \in [Callers -> Inside \cup {"out"}]
  /\ linkCmd \in [Callers -> Cmds \cup {NoCmd}]
  /\ linkGot \in [Callers -> LinkFrames \cup {NoFrame, Torn}]
  /\ linkAlone \in [Callers -> BOOLEAN] /\ linkCrossed \in [Callers -> BOOLEAN]
  /\ reply \in [wait : Cmds \cup {NoCmd}, full : BOOLEAN, data : LinkFrames \cup {NoFrame}]
  /\ panelAsked \in Seq(Cmds)
  /\ uart \in Seq(LinkFrames \cup NoiseFrames)
  /\ uartEdge \in BOOLEAN /\ reader \in Readers /\ handing \in LinkFrames \cup {NoFrame}
  /\ upgradeFlag \in BOOLEAN /\ asks \in 0..MaxAsks

CommandsAsked == \A c \in Callers : linkPc[c] \in Inside => linkCmd[c] \in Cmds

\* What a lone caller may copy out: what is stored, or is being stored, is its own answer.
OwnReply(c) ==
  /\ reader = "length" => handing = Answer(linkCmd[c])
  /\ reply.full /\ reader = "data" => handing = Answer(linkCmd[c])
  /\ reply.full /\ reader # "data" => reply.data = Answer(linkCmd[c])

\* A caller that is alone owns mReplyList once it has armed it, and what is in it once it has
\* cleared it.
AloneOwnsReply ==
  \A c \in Callers : linkAlone[c] /\ linkPc[c] \in Inside =>
    /\ \A d \in Callers \ {c} : linkPc[d] = "out"
    /\ linkPc[c] # "sent" => reply.wait = linkCmd[c]
    /\ linkPc[c] \in Cleared /\ ~linkCrossed[c] => OwnReply(c)
    /\ linkPc[c] = "copying" /\ ~linkCrossed[c] => linkGot[c] = Answer(linkCmd[c])

LinkInv == LinkShape /\ CommandsAsked /\ AloneOwnsReply /\ AnswersReach

\* An awaited frame is the answer to the command that is awaited.
LEMMA AwaitedIsAnswer ==
  /\ \A f \in LinkFrames \cup NoiseFrames : f.kind = "data" => f \in LinkFrames /\ f = Answer(f.cmd)
  /\ \A cmd \in Cmds : Answer(cmd) \in LinkFrames
BY DEF LinkFrames, Answer, NoiseFrames, Stub

\* The initial state satisfies LinkInv.
LEMMA LinkInvInit == LinkInit => LinkInv
<1> SUFFICES ASSUME LinkInit PROVE LinkInv
    OBVIOUS
<1> USE FbcLinkAssumption DEF LinkInit
<1>1. /\ linkPc \in [Callers -> Inside \cup {"out"}] /\ linkCmd \in [Callers -> Cmds \cup {NoCmd}]
      /\ linkGot \in [Callers -> LinkFrames \cup {NoFrame, Torn}]
      /\ linkAlone \in [Callers -> BOOLEAN] /\ linkCrossed \in [Callers -> BOOLEAN]
    BY DEF Inside
<1>2. reply \in [wait : Cmds \cup {NoCmd}, full : BOOLEAN, data : LinkFrames \cup {NoFrame}]
    OBVIOUS
<1>3. panelAsked \in Seq(Cmds) /\ uart \in Seq(LinkFrames \cup NoiseFrames)
    OBVIOUS
<1>4. asks \in 0..MaxAsks
    OBVIOUS
<1>7. uartEdge \in BOOLEAN
    OBVIOUS
<1>8. upgradeFlag \in BOOLEAN
    OBVIOUS
<1>6. reader \in Readers /\ handing \in LinkFrames \cup {NoFrame}
    BY DEF Readers
<1>5. CommandsAsked /\ AloneOwnsReply /\ AnswersReach
    BY DEF CommandsAsked, AloneOwnsReply, AnswersReach, Inside
<1> QED
    BY <1>1, <1>2, <1>3, <1>4, <1>5, <1>6, <1>7, <1>8 DEF LinkInv, LinkShape

\* The steps of a caller keep the shape of the variables.
LEMMA CallShape ==
  ASSUME LinkShape, CommandsAsked, NEW c \in Callers,
         GetDuringUpgrade(c) \/ CallStep(c) \/ \E cmd \in Cmds : SendQuestion(c, cmd)
  PROVE  LinkShape' /\ CommandsAsked'
<1> USE FbcLinkAssumption DEF LinkShape, CommandsAsked, Inside, lineVars, readerVars
<1>1. CASE GetDuringUpgrade(c)
    BY <1>1 DEF GetDuringUpgrade, EndsWithNothing
<1>2. CASE \E cmd \in Cmds : SendQuestion(c, cmd)
    <2> PICK cmd \in Cmds : SendQuestion(c, cmd)
        BY <1>2
    <2>1. asks' \in 0..MaxAsks /\ panelAsked' \in Seq(Cmds)
        BY DEF SendQuestion
    <2>2. linkAlone' \in [Callers -> BOOLEAN] /\ linkCrossed' \in [Callers -> BOOLEAN]
        BY DEF SendQuestion, Enter
    <2>3. /\ linkPc' \in [Callers -> Inside \cup {"out"}] /\ linkCmd' \in [Callers -> Cmds \cup {NoCmd}]
          /\ linkGot' \in [Callers -> LinkFrames \cup {NoFrame, Torn}]
        BY DEF SendQuestion
    <2>4. CommandsAsked'
        BY DEF SendQuestion
    <2>5. UNCHANGED <<reply, uart, uartEdge, reader, handing, upgradeFlag>>
        BY DEF SendQuestion
    <2> QED
        BY <2>1, <2>2, <2>3, <2>4, <2>5
<1>3. CASE ArmReply(c) \/ WaitReply(c) \/ WaitTimesOut(c)
    BY <1>3 DEF ArmReply, WaitReply, WaitTimesOut, CallGoes
<1>4. CASE ClearReply(c) \/ EndCopy(c)
    <2>1. linkCrossed' \in [Callers -> BOOLEAN]
        <3>1. CASE ClearReply(c)
            <4>1. PICK b \in BOOLEAN : linkCrossed' = [linkCrossed EXCEPT ![c] = b]
                BY <3>1 DEF ClearReply
            <4> QED
                BY <4>1
        <3>2. CASE EndCopy(c)
            BY <3>2 DEF EndCopy
        <3> QED
            BY <1>4, <3>1, <3>2
    <2>2. reply' \in [wait : Cmds \cup {NoCmd}, full : BOOLEAN, data : LinkFrames \cup {NoFrame}]
        BY <1>4 DEF ClearReply, EndCopy
    <2>3. linkPc' \in [Callers -> Inside \cup {"out"}] /\ CommandsAsked'
        BY <1>4 DEF ClearReply, EndCopy, CallGoes
    <2>4. UNCHANGED <<linkCmd, linkGot, linkAlone, lineVars, readerVars, upgradeFlag, asks>>
        BY <1>4 DEF ClearReply, EndCopy, CallGoes
    <2> QED
        BY <2>1, <2>2, <2>3, <2>4
<1>5. CASE FindNothing(c)
    BY <1>5 DEF FindNothing, EndsWithNothing
<1>6. CASE CopyReply(c)
    BY <1>6 DEF CopyReply, CallGoes
<1> QED
    BY <1>1, <1>2, <1>3, <1>4, <1>5, <1>6 DEF CallStep

\* Every step keeps the shape of the variables.
LEMMA LinkShapeStep ==
  LinkShape /\ CommandsAsked /\ [LinkNext]_linkVars => LinkShape' /\ CommandsAsked'
<1> SUFFICES ASSUME LinkShape, CommandsAsked, [LinkNext]_linkVars PROVE LinkShape' /\ CommandsAsked'
    OBVIOUS
<1>1. ASSUME NEW c \in Callers,
             GetDuringUpgrade(c) \/ CallStep(c) \/ \E cmd \in Cmds : SendQuestion(c, cmd)
      PROVE  LinkShape' /\ CommandsAsked'
    BY <1>1, CallShape
<1> USE FbcLinkAssumption DEF LinkShape, CommandsAsked, Inside, Readers, callerVars, lineVars, readerVars
<1>2. CASE PanelAnswers
    <2>1. Head(panelAsked) \in Cmds /\ panelAsked' \in Seq(Cmds)
        BY <1>2 DEF PanelAnswers
    <2>2. Answer(Head(panelAsked)) \in LinkFrames
        BY <2>1, AwaitedIsAnswer
    <2>3. uart' \in Seq(LinkFrames \cup NoiseFrames)
        <3>1. CASE Arrives(Answer(Head(panelAsked)))
            BY <2>2, <3>1 DEF Arrives
        <3>2. CASE UNCHANGED <<uart, uartEdge>>
            BY <3>2
        <3> QED
            BY <1>2, <3>1, <3>2 DEF PanelAnswers
    <2>4. uartEdge' \in BOOLEAN
        <3>1. CASE Arrives(Answer(Head(panelAsked)))
            BY <3>1 DEF Arrives
        <3>2. CASE UNCHANGED <<uart, uartEdge>>
            BY <3>2
        <3> QED
            BY <1>2, <3>1, <3>2 DEF PanelAnswers
    <2>5. UNCHANGED <<callerVars, reply, readerVars, upgradeFlag, asks>>
        BY <1>2 DEF PanelAnswers
    <2> QED
        BY <2>1, <2>3, <2>4, <2>5
<1>3. CASE PanelNoise
    BY <1>3 DEF PanelNoise, Arrives
<1>4. CASE PollLine \/ FlagUp \/ FlagDown
    BY <1>4 DEF PollLine, FlagUp, FlagDown
<1>5. CASE ReadFrame
    <2>1. Head(uart) \in LinkFrames \cup NoiseFrames /\ uart' \in Seq(LinkFrames \cup NoiseFrames)
        BY <1>5 DEF ReadFrame
    <2>2. reader' \in Readers /\ handing' \in LinkFrames \cup {NoFrame}
        BY <1>5, <2>1, AwaitedIsAnswer DEF ReadFrame, Awaited
    <2> QED
        BY <1>5, <2>1, <2>2 DEF ReadFrame
<1>6. CASE SwallowFrame
    <2>1. uart' \in Seq(LinkFrames \cup NoiseFrames)
        <3>1. Stub \in LinkFrames \cup NoiseFrames /\ Tail(uart) \in Seq(LinkFrames \cup NoiseFrames)
            BY <1>6 DEF SwallowFrame, NoiseFrames
        <3>2. CASE uart' = Tail(uart)
            BY <3>1, <3>2
        <3>3. CASE uart' = <<Stub>> \o Tail(uart)
            <4>1. <<Stub>> \in Seq(LinkFrames \cup NoiseFrames)
                BY <3>1
            <4>2. <<Stub>> \o Tail(uart) \in Seq(LinkFrames \cup NoiseFrames)
                BY <3>1, <4>1, ConcatProperties
            <4> QED
                BY <3>3, <4>2
        <3> QED
            BY <1>6, <3>2, <3>3 DEF SwallowFrame
    <2>2. reader' \in Readers
        BY <1>6 DEF SwallowFrame
    <2> QED
        BY <1>6, <2>1, <2>2 DEF SwallowFrame
<1>7. CASE StoreLength \/ StoreData
    <2>1. /\ linkGot' \in [Callers -> LinkFrames \cup {NoFrame, Torn}]
          /\ linkCrossed' \in [Callers -> BOOLEAN]
        BY <1>7 DEF StoreLength, StoreData
    <2>2. reply' \in [wait : Cmds \cup {NoCmd}, full : BOOLEAN, data : LinkFrames \cup {NoFrame}]
        BY <1>7 DEF StoreLength, StoreData
    <2> QED
        BY <1>7, <2>1, <2>2 DEF StoreLength, StoreData, Hands
<1>8. CASE SignalReply
    BY <1>8 DEF SignalReply, Hands
<1>9. CASE UpgradeReads
    BY <1>9 DEF UpgradeReads
<1>10. CASE UNCHANGED linkVars
    BY <1>10 DEF linkVars
<1> QED
    BY <1>1, <1>2, <1>3, <1>4, <1>5, <1>6, <1>7, <1>8, <1>9, <1>10 DEF LinkNext

\* The steps of a caller keep a lone caller the owner of mReplyList, and its answer its own.
LEMMA CallAlone ==
  ASSUME LinkInv, NEW c \in Callers,
         GetDuringUpgrade(c) \/ CallStep(c) \/ \E cmd \in Cmds : SendQuestion(c, cmd)
  PROVE  AloneOwnsReply' /\ AnswersReach'
<1> USE DEF LinkInv, LinkShape, AloneOwnsReply, OwnReply, AnswersReach, Inside, Cleared, lineVars,
            readerVars
<1>1. CASE GetDuringUpgrade(c)
    BY <1>1 DEF GetDuringUpgrade, EndsWithNothing
<1>2. CASE \E cmd \in Cmds : SendQuestion(c, cmd)
    <2> PICK cmd \in Cmds : SendQuestion(c, cmd)
        BY <1>2
    <2> QED
        BY DEF SendQuestion, Enter
<1>3. CASE ArmReply(c)
    BY <1>3 DEF ArmReply, CallGoes
<1>4. CASE ClearReply(c)
    BY <1>4 DEF ClearReply, CallGoes
<1>5. CASE WaitReply(c) \/ WaitTimesOut(c)
    BY <1>5 DEF WaitReply, WaitTimesOut, CallGoes
<1>6. CASE FindNothing(c)
    BY <1>6 DEF FindNothing, EndsWithNothing
<1>7. CASE CopyReply(c)
    BY <1>7 DEF CopyReply, CallGoes
<1>8. CASE EndCopy(c)
    BY <1>8 DEF EndCopy, CallGoes
<1> QED
    BY <1>1, <1>2, <1>3, <1>4, <1>5, <1>6, <1>7, <1>8 DEF CallStep

\* Every step keeps a lone caller the owner of mReplyList, and its answer its own.
LEMMA LinkAloneStep == LinkInv /\ [LinkNext]_linkVars => AloneOwnsReply' /\ AnswersReach'
<1> SUFFICES ASSUME LinkInv, [LinkNext]_linkVars PROVE AloneOwnsReply' /\ AnswersReach'
    OBVIOUS
<1>1. ASSUME NEW c \in Callers,
             GetDuringUpgrade(c) \/ CallStep(c) \/ \E cmd \in Cmds : SendQuestion(c, cmd)
      PROVE  AloneOwnsReply' /\ AnswersReach'
    BY <1>1, CallAlone
<1> USE DEF LinkInv, LinkShape, AloneOwnsReply, OwnReply, AnswersReach, Inside, Cleared, callerVars,
            lineVars, readerVars
<1>2. CASE PanelAnswers \/ PanelNoise \/ PollLine \/ FlagUp \/ FlagDown
    BY <1>2 DEF PanelAnswers, PanelNoise, PollLine, FlagUp, FlagDown
<1>3. CASE ReadFrame
    <2>4. Head(uart) \in LinkFrames \cup NoiseFrames
        BY <1>3 DEF ReadFrame
    <2>1. Awaited(Head(uart)) => Head(uart) = Answer(reply.wait)
        BY <2>4, AwaitedIsAnswer DEF Awaited
    <2>2. UNCHANGED <<linkPc, linkCmd, linkGot, linkAlone, linkCrossed, reply>>
        BY <1>3 DEF ReadFrame
    <2>3. \/ reader = "read" /\ reader' = "length" /\ handing' = Answer(reply.wait)
          \/ reader = "read" /\ reader' \in {"swallow", "poll"}
        BY <1>3, <2>1 DEF ReadFrame
    <2> QED
        BY <2>2, <2>3
<1>4. CASE SwallowFrame \/ UpgradeReads
    BY <1>4 DEF SwallowFrame, UpgradeReads
<1>5. CASE StoreLength
    BY <1>5 DEF StoreLength, Hands
<1>6. CASE StoreData
    BY <1>6 DEF StoreData, Hands
<1>7. CASE SignalReply
    <2>1. /\ reader = "signal" /\ reader' = "poll"
          /\ UNCHANGED <<linkCmd, linkGot, linkAlone, linkCrossed, reply>>
        BY <1>7 DEF SignalReply, Hands
    <2>2. \A d \in Callers : linkPc'[d] = linkPc[d] \/ (linkPc[d] = "waiting" /\ linkPc'[d] = "woken")
        BY <1>7 DEF SignalReply
    <2> QED
        BY <2>1, <2>2
<1>8. CASE UNCHANGED linkVars
    BY <1>8 DEF linkVars
<1> QED
    BY <1>1, <1>2, <1>3, <1>4, <1>5, <1>6, <1>7, <1>8 DEF LinkNext

\* LinkInv holds throughout.
LEMMA LinkInvAlways == LinkSpec => []LinkInv
<1>1. LinkInv /\ [LinkNext]_linkVars => LinkInv'
    BY LinkShapeStep, LinkAloneStep DEF LinkInv
<1> QED
    BY <1>1, LinkInvInit, PTL DEF LinkSpec

\* The variables of the link have their types, for every number of callers and commands.
THEOREM LinkTypes == LinkSpec => []LinkTypeOK
<1>1. LinkInv => LinkTypeOK
    BY DEF LinkInv, LinkShape, LinkTypeOK, Inside, Readers
<1> QED
    BY <1>1, LinkInvAlways, PTL

\* Frames reach the thread that waits for them: however many threads ask, one that was alone gets
\* the whole answer to its own command or none, unless the protocol thread was storing an earlier
\* answer at the very moment it cleared, or copied, the unlocked record.
THEOREM FramesReach == LinkSpec => []AnswersReach
<1>1. LinkInv => AnswersReach
    BY DEF LinkInv
<1> QED
    BY <1>1, LinkInvAlways, PTL

(***************************************************************************)
(* The boot's comparison with the panel.                                   *)
(***************************************************************************)

\* What a clean boot that rebooted has left satisfies the panel.
BootInv ==
  /\ env.mode \in DOMAIN EnvWords /\ env = [mode |-> env.mode, reverse |-> env.reverse]
  /\ panelKind.output \in DOMAIN PanelModes
  /\ cleanReboots \in {0, 1}
  /\ cleanReboots = 1 =>
       ~ModeDiffers(env, panelKind.output) /\ ~ReverseDiffers(env, panelKind.reverse)

\* The mode that is set has the words that are looked for.
LEMMA ModeHasWords ==
  ASSUME NEW output \in DOMAIN PanelModes
  PROVE  /\ PanelModes[output].mode \in DOMAIN EnvWords
         /\ PanelModes[output].words \subseteq EnvWords[PanelModes[output].mode]
<1>1. output \in 1..6
  BY DEF PanelModes
<1>2. CASE output = 1
  BY <1>2 DEF PanelModes, EnvWords
<1>3. CASE output = 2
  BY <1>3 DEF PanelModes, EnvWords
<1>4. CASE output = 3
  BY <1>4 DEF PanelModes, EnvWords
<1>5. CASE output = 4
  BY <1>5 DEF PanelModes, EnvWords
<1>6. CASE output = 5
  BY <1>6 DEF PanelModes, EnvWords
<1>7. CASE output = 6
  BY <1>7 DEF PanelModes, EnvWords
<1> QED BY <1>1, <1>2, <1>3, <1>4, <1>5, <1>6, <1>7

\* What the comparison writes, no comparison with the same answers finds wanting.
LEMMA AfterAgrees ==
  ASSUME NEW e, e.mode \in DOMAIN EnvWords, NEW output, NEW reverse,
         NEW f, f = EnvAfter(e, output, reverse)
  PROVE  /\ ~ModeDiffers(f, output) /\ ~ReverseDiffers(f, reverse)
         /\ f.mode \in DOMAIN EnvWords /\ f = [mode |-> f.mode, reverse |-> f.reverse]
<1> DEFINE m == IF ModeDiffers(e, output) THEN PanelModes[output].mode ELSE e.mode
           v == IF ReverseDiffers(e, reverse) THEN reverse ELSE e.reverse
<1>1. f = [mode |-> m, reverse |-> v]
  BY DEF EnvAfter
<1>2. /\ m \in DOMAIN EnvWords
      /\ output \in DOMAIN PanelModes => PanelModes[output].words \subseteq EnvWords[m]
  BY ModeHasWords DEF ModeDiffers
<1>3. ~(reverse \in {"0", "1"} /\ v # reverse)
  BY DEF ReverseDiffers
<1> HIDE DEF m, v
<1> QED BY <1>1, <1>2, <1>3 DEF ModeDiffers, ReverseDiffers

\* A set reboots at most once in a row because of a panel that answers.
THEOREM NoBootLoops == BootSpec => []NoRebootLoop
<1>1. BootInit => BootInv
  <2> SUFFICES ASSUME BootInit PROVE BootInv
    OBVIOUS
  <2>1. env \in [mode : DOMAIN EnvWords, reverse : {"null", "0", "1"}]
        /\ panelKind \in [output : DOMAIN PanelModes, reverse : {"0", "1"}]
    BY DEF BootInit
  <2>2. cleanReboots = 0
    BY DEF BootInit
  <2>3. env.mode \in DOMAIN EnvWords /\ env = [mode |-> env.mode, reverse |-> env.reverse]
        /\ panelKind.output \in DOMAIN PanelModes
    BY <2>1
  <2> QED BY <2>2, <2>3 DEF BootInv
<1>2. BootInv /\ [BootNext]_bootVars => BootInv'
  <2> SUFFICES ASSUME BootInv, [BootNext]_bootVars PROVE BootInv'
    OBVIOUS
  <2>1. CASE BootCheck
    <3>1. PICK output, reverse :
            LET clean == output = panelKind.output /\ reverse = panelKind.reverse
                reboots == ModeDiffers(env, output) \/ ReverseDiffers(env, reverse)
            IN /\ env' = EnvAfter(env, output, reverse)
               /\ cleanReboots' = IF clean /\ reboots THEN cleanReboots + 1 ELSE 0
               /\ UNCHANGED panelKind
      BY <2>1 DEF BootCheck
    <3>2. PICK f : f = env'
      OBVIOUS
    <3>3. /\ ~ModeDiffers(f, output) /\ ~ReverseDiffers(f, reverse)
          /\ f.mode \in DOMAIN EnvWords /\ f = [mode |-> f.mode, reverse |-> f.reverse]
      BY <3>1, <3>2, AfterAgrees DEF BootInv
    <3>4. panelKind' = panelKind /\ panelKind.output \in DOMAIN PanelModes
      BY <3>1 DEF BootInv
    <3>5. CASE cleanReboots' = 0
      BY <3>2, <3>3, <3>4, <3>5 DEF BootInv
    <3>6. CASE cleanReboots' # 0
      <4>1. output = panelKind.output /\ reverse = panelKind.reverse
        BY <3>1, <3>6
      <4>2. ModeDiffers(env, output) \/ ReverseDiffers(env, reverse)
        BY <3>1, <3>6
      <4>3. cleanReboots = 0
        BY <4>1, <4>2 DEF BootInv
      <4>4. cleanReboots' = 1
        BY <3>1, <3>6, <4>3
      <4>5. ~ModeDiffers(f, panelKind.output) /\ ~ReverseDiffers(f, panelKind.reverse)
        BY <3>3, <4>1
      <4> QED BY <3>2, <3>3, <3>4, <4>4, <4>5 DEF BootInv
    <3> QED BY <3>5, <3>6
  <2>2. CASE EnvChanges
    <3>1. env' \in [mode : DOMAIN EnvWords, reverse : {"null", "0", "1"}]
          /\ panelKind' \in [output : DOMAIN PanelModes, reverse : {"0", "1"}]
      BY <2>2 DEF EnvChanges
    <3>2. cleanReboots' = 0
      BY <2>2 DEF EnvChanges
    <3>3. env'.mode \in DOMAIN EnvWords /\ env' = [mode |-> env'.mode, reverse |-> env'.reverse]
          /\ panelKind'.output \in DOMAIN PanelModes
      BY <3>1
    <3> QED BY <3>2, <3>3 DEF BootInv
  <2>3. CASE UNCHANGED bootVars
    <3>1. env' = env /\ panelKind' = panelKind /\ cleanReboots' = cleanReboots
      BY <2>3 DEF bootVars
    <3> QED BY <3>1 DEF BootInv
  <2> QED BY <2>1, <2>2, <2>3 DEF BootNext
<1>3. BootInv => NoRebootLoop
  BY DEF BootInv, NoRebootLoop
<1> QED BY <1>1, <1>2, <1>3, PTL DEF BootSpec

(***************************************************************************)
(* The panel's settings.                                                   *)
(***************************************************************************)

\* Where the set commands of the picture's settings lie.
PictureBytes == (13..74) \ {20, 23, 33, 44, 46, 47, 73}
AudioBytes == 81..89
BoardBytes == {113, 133, 106, 107}

\* The commands by class, each of its settings with its own.
LEMMA PictureClass ==
  \A s \in DOMAIN PictureCmds :
    SetCmd(s) = PictureCmds[s] /\ GetCmd(s) = PictureCmds[s] + 128 /\ PictureCmds[s] \in PictureBytes
<1> SUFFICES ASSUME NEW s \in DOMAIN PictureCmds
             PROVE  SetCmd(s) = PictureCmds[s] /\ GetCmd(s) = PictureCmds[s] + 128
                    /\ PictureCmds[s] \in PictureBytes
  OBVIOUS
<1>1. PictureCmds[s] \in PictureBytes
  BY DEF PictureCmds, PictureBytes
<1>2. s \notin DOMAIN AudioCmds
  BY DEF PictureCmds, AudioCmds
<1>3. SetCmd(s) = PictureCmds[s] /\ GetCmd(s) = PictureCmds[s] + 128
  BY <1>2 DEF SetCmd, GetCmd
<1> QED BY <1>1, <1>3

LEMMA AudioClass ==
  \A s \in DOMAIN AudioCmds :
    /\ SetCmd(s) = AudioCmds[s][1] /\ GetCmd(s) = AudioCmds[s][2]
    /\ AudioCmds[s][1] \in 81..89 /\ AudioCmds[s][2] = AudioCmds[s][1] + 10
    /\ s \notin DOMAIN PictureCmds
BY DEF SetCmd, GetCmd, AudioCmds, PictureCmds

LEMMA BoardClass ==
  \A s \in DOMAIN BoardCmds :
    /\ SetCmd(s) = BoardCmds[s][1] /\ GetCmd(s) = BoardCmds[s][2]
    /\ BoardCmds[s] \in {<<113, 114>>, <<133, 134>>, <<106, 234>>, <<107, 235>>}
    /\ s \notin DOMAIN PictureCmds /\ s \notin DOMAIN AudioCmds
BY DEF SetCmd, GetCmd, AudioCmds, PictureCmds, BoardCmds

LEMMA PictureOwn ==
  \A s, t \in DOMAIN PictureCmds : PictureCmds[s] = PictureCmds[t] => s = t
BY DEF PictureCmds

LEMMA AudioOwn ==
  \A s, t \in DOMAIN AudioCmds : AudioCmds[s][1] = AudioCmds[t][1] => s = t
BY DEF AudioCmds

LEMMA BoardOwn ==
  \A s, t \in DOMAIN BoardCmds : BoardCmds[s][1] = BoardCmds[t][1] => s = t
BY DEF BoardCmds

LEMMA SetOnlyOthers ==
  \A cmd \in SetOnly : cmd \notin PictureBytes /\ cmd \notin AudioBytes /\ cmd \notin BoardBytes
BY DEF SetOnly, LevelCmds, SwitchCmds, PictureBytes, AudioBytes, BoardBytes

\* No two settings share a command, and no command that only sets is a setting's.
LEMMA CommandsDiffer ==
  /\ \A s, t \in PanelSettings : SetCmd(s) = SetCmd(t) => s = t
  /\ \A s \in PanelSettings : SetCmd(s) \notin SetOnly
<1>1. ASSUME NEW s \in PanelSettings
      PROVE  \/ s \in DOMAIN PictureCmds /\ SetCmd(s) = PictureCmds[s] /\ SetCmd(s) \in PictureBytes
             \/ s \in DOMAIN AudioCmds /\ SetCmd(s) = AudioCmds[s][1] /\ SetCmd(s) \in AudioBytes
             \/ s \in DOMAIN BoardCmds /\ SetCmd(s) = BoardCmds[s][1] /\ SetCmd(s) \in BoardBytes
  <2>1. CASE s \in DOMAIN PictureCmds
    BY <2>1, PictureClass
  <2>2. CASE s \in DOMAIN AudioCmds
    BY <2>2, AudioClass DEF AudioBytes
  <2>3. CASE s \in DOMAIN BoardCmds
    <3>1. SetCmd(s) = BoardCmds[s][1] /\ BoardCmds[s] \in {<<113, 114>>, <<133, 134>>, <<106, 234>>, <<107, 235>>}
      BY <2>3, BoardClass
    <3>2. BoardCmds[s][1] \in BoardBytes
      BY <3>1 DEF BoardBytes
    <3> QED BY <2>3, <3>1, <3>2
  <2> QED BY <2>1, <2>2, <2>3 DEF PanelSettings
<1>2. ASSUME NEW s \in PanelSettings, NEW t \in PanelSettings, SetCmd(s) = SetCmd(t) PROVE s = t
  <2> DEFINE a == SetCmd(s)
             b == SetCmd(t)
  <2> HIDE DEF a, b
  <2>1. a = b
    BY <1>2 DEF a, b
  <2>2. \/ s \in DOMAIN PictureCmds /\ a = PictureCmds[s] /\ a \in PictureBytes
        \/ s \in DOMAIN AudioCmds /\ a = AudioCmds[s][1] /\ a \in AudioBytes
        \/ s \in DOMAIN BoardCmds /\ a = BoardCmds[s][1] /\ a \in BoardBytes
    BY <1>1 DEF a
  <2>3. \/ t \in DOMAIN PictureCmds /\ b = PictureCmds[t] /\ b \in PictureBytes
        \/ t \in DOMAIN AudioCmds /\ b = AudioCmds[t][1] /\ b \in AudioBytes
        \/ t \in DOMAIN BoardCmds /\ b = BoardCmds[t][1] /\ b \in BoardBytes
    BY <1>1 DEF b
  <2> QED BY <2>1, <2>2, <2>3, PictureOwn, AudioOwn, BoardOwn DEF PictureBytes, AudioBytes, BoardBytes
<1>3. ASSUME NEW s \in PanelSettings PROVE SetCmd(s) \notin SetOnly
  BY <1>1, SetOnlyOthers
<1> QED BY <1>2, <1>3

\* The panel answers a get from the register of the set.
LEMMA RegisterOfGet ==
  \A s \in PanelSettings : RegisterOf(GetCmd(s)) = SetRegister(s)
<1> SUFFICES ASSUME NEW s \in PanelSettings PROVE RegisterOf(GetCmd(s)) = SetRegister(s)
  OBVIOUS
<1> DEFINE g == GetCmd(s)
           c == SetCmd(s)
<1>1. (IF g \in 90..99 THEN g - 10 ELSE IF g \in {114, 134} THEN g - 1 ELSE g - 128) = c
  <2>1. CASE s \in DOMAIN PictureCmds
    <3>1. g = c + 128 /\ c \in 13..74
      BY <2>1, PictureClass DEF PictureBytes
    <3> HIDE DEF g, c
    <3> QED BY <3>1
  <2>2. CASE s \in DOMAIN AudioCmds
    <3>1. g = c + 10 /\ c \in 81..89
      BY <2>2, AudioClass
    <3> HIDE DEF g, c
    <3> QED BY <3>1
  <2>3. CASE s \in DOMAIN BoardCmds
    <3>1. c = BoardCmds[s][1] /\ g = BoardCmds[s][2]
          /\ BoardCmds[s] \in {<<113, 114>>, <<133, 134>>, <<106, 234>>, <<107, 235>>}
      BY <2>3, BoardClass
    <3> HIDE DEF g, c
    <3> QED BY <3>1
  <2> QED BY <2>1, <2>2, <2>3 DEF PanelSettings
<1> HIDE DEF g, c
<1>2. RegisterOf(g) = <<"cmd", c>>
  BY <1>1 DEF RegisterOf
<1> QED BY <1>2 DEF g, c, SetRegister

\* What the menu's values become in the panel comes back as it was.
LEMMA ConversionsInverse ==
  ASSUME NEW s, NEW v \in 0..100
  PROVE  Decode(s, Encode(s, v)) = v
<1>1. CASE s = "color_temp"
  BY <1>1 DEF Decode, Encode, ColorTempToFbc, ColorTempFromFbc
<1>2. CASE s = "backlight"
  <2>1. BacklightFromFbc(BacklightToFbc(v)) = v
    BY DEF BacklightFromFbc, BacklightToFbc
  <2> QED BY <1>2, <2>1 DEF Decode, Encode
<1>3. CASE s # "color_temp" /\ s # "backlight"
  BY <1>3 DEF Decode, Encode
<1> QED BY <1>1, <1>2, <1>3

\* The white balance comes back within WbLoss.
LEMMA GainComesBack ==
  ASSUME NEW g \in 0..2047
  PROVE  Distance(ShownGain(SavedGain(g)), g) <= WbLoss
<1> DEFINE a == g \div 8
           b == (a * 255) \div 2047
           c == (b * 2047) \div 255
<1>1. a \in 0..255 /\ 8 * a <= g /\ g < 8 * a + 8
  OBVIOUS
<1>2. SavedGain(g) = b
  BY DEF SavedGain, BatchSetGain, FormatInputGain, Clamp
<1>3. ShownGain(b) = Clamp(c * 8, 0, 2047)
  BY DEF ShownGain, BatchGetGain, FormatOutputGain
<1> HIDE DEF a
<1>4. b \in Int /\ 2047 * b <= 255 * a /\ 255 * a < 2047 * b + 2047
  BY <1>1
<1> HIDE DEF b
<1>5. c \in Int /\ 255 * c <= 2047 * b /\ 2047 * b < 255 * c + 255
  BY <1>4
<1> HIDE DEF c
<1>6. c <= a /\ a <= c + 9 /\ c >= 0
  BY <1>1, <1>4, <1>5
<1> QED BY <1>1, <1>2, <1>3, <1>5, <1>6 DEF Clamp, Distance, WbLoss

LEMMA OffsetComesBack ==
  ASSUME NEW o \in -1024..1023
  PROVE  Distance(ShownOffset(SavedOffset(o)), o) <= WbLoss
<1> DEFINE a == (o + 1024) \div 8
           b == ((a + 1024) * 255) \div 2047
           c == (b * 2047) \div 255
           d == c - 1024
<1>1. a \in 0..255 /\ 8 * a <= o + 1024 /\ o + 1024 < 8 * a + 8
  OBVIOUS
<1>2. SavedOffset(o) = b
  BY DEF SavedOffset, BatchSetOffset, FormatInputOffset, Clamp
<1>3. ShownOffset(b) = IF d = 255 THEN 1023 ELSE d * 8 - 1024
  BY DEF ShownOffset, BatchGetOffset, FormatOutputOffset
<1> HIDE DEF a
<1>4. b \in Int /\ 2047 * b <= 255 * (a + 1024) /\ 255 * (a + 1024) < 2047 * b + 2047
  BY <1>1
<1> HIDE DEF b
<1>5. c \in Int /\ 255 * c <= 2047 * b /\ 2047 * b < 255 * c + 255
  BY <1>4
<1> HIDE DEF c
<1>6. d \in Int /\ d <= a /\ a <= d + 9
  BY <1>1, <1>4, <1>5
<1> HIDE DEF d
<1> QED BY <1>1, <1>2, <1>3, <1>6 DEF Distance, WbLoss

\* The registers hold what the last sets that reached the panel asked for.
SettingsHeld ==
  \A s \in PanelSettings : panelHas[<<s, 0>>] # NoValue =>
    /\ panelHas[<<s, 0>>] \in 0..100
    /\ panelReg[SetRegister(s)] = Encode(s, panelHas[<<s, 0>>])
GainKept(h, x) == h # NoValue => h \in 0..2047 /\ x = SavedGain(h)
OffsetKept(h, x) == h # NoValue => h \in -1024..1023 /\ x = SavedOffset(h)
BalanceHeld ==
  \A m \in WbModes : /\ GainKept(panelHas[<<"gain", m>>], panelReg[<<"gain", m>>])
                     /\ OffsetKept(panelHas[<<"offset", m>>], panelReg[<<"offset", m>>])
IsMap(f, D) == f = [x \in D |-> f[x]]
RegInv ==
  SettingsHeld /\ BalanceHeld /\ IsMap(panelReg, Registers) /\ IsMap(panelHas, Wanted)
PanelInv == RegInv /\ AnsweredGetTells

LEMMA NamesDiffer == \A s \in PanelSettings : s # "gain" /\ s # "offset" /\ s # "none"
BY DEF PanelSettings, PictureCmds, AudioCmds, BoardCmds

\* The names of registers and of what is wanted are what they are called after.
LEMMA NamesAre ==
  /\ \A s \in PanelSettings : SetRegister(s) \in Registers /\ <<s, 0>> \in Wanted /\ <<s, 0>> \notin WbItems
  /\ \A m \in WbModes : /\ <<"gain", m>> \in Registers \cap Wanted \cap WbItems
                        /\ <<"offset", m>> \in Registers \cap Wanted \cap WbItems
  /\ \A s \in PanelSettings, m \in WbModes :
       SetRegister(s) # <<"gain", m>> /\ SetRegister(s) # <<"offset", m>>
<1>1. \A s \in PanelSettings : SetRegister(s) \in Registers /\ <<s, 0>> \in Wanted /\ <<s, 0>> \notin WbItems
  BY NamesDiffer DEF Registers, Wanted, WbItems
<1>2. \A m \in WbModes : /\ <<"gain", m>> \in Registers \cap Wanted \cap WbItems
                         /\ <<"offset", m>> \in Registers \cap Wanted \cap WbItems
  BY DEF Registers, Wanted, WbItems
<1>3. \A s \in PanelSettings, m \in WbModes :
       SetRegister(s) # <<"gain", m>> /\ SetRegister(s) # <<"offset", m>>
  BY DEF SetRegister
<1> QED BY <1>1, <1>2, <1>3

\* No two settings share a register.
LEMMA RegistersDiffer ==
  \A s, t \in PanelSettings : SetRegister(s) = SetRegister(t) => s = t
BY CommandsDiffer DEF SetRegister

LEMMA NothingGot == panelGot' = NoGet => AnsweredGetTells'
<1>1. NoGet[1] \notin Wanted
  BY NamesDiffer DEF NoGet, Wanted, WbItems
<1> QED BY <1>1 DEF AnsweredGetTells

LEMMA SetPanelHolds ==
  ASSUME PanelInv, NEW s \in PanelSettings, NEW v \in PanelValues, SetPanel(s, v)
  PROVE  PanelInv'
<1>1. AnsweredGetTells'
  BY NothingGot DEF SetPanel
<1>2. v \in 0..100
  BY FbcPanelAssumption
<1>3. CASE UNCHANGED <<panelReg, panelHas>>
  BY <1>1, <1>3 DEF PanelInv, RegInv, SettingsHeld, BalanceHeld
<1>4. CASE /\ panelReg' = [panelReg EXCEPT ![SetRegister(s)] = Encode(s, v)]
           /\ panelHas' = [panelHas EXCEPT ![<<s, 0>>] = v]
  <2> DEFINE a == SetRegister(s)
             b == <<s, 0>>
             e == Encode(s, v)
  <2>0. a \in Registers /\ b \in Wanted /\ panelReg' = [panelReg EXCEPT ![a] = e]
        /\ panelHas' = [panelHas EXCEPT ![b] = v]
    BY <1>4, NamesAre
  <2> HIDE DEF a, b, e
  <2>1. /\ IsMap(panelReg', Registers) /\ panelReg'[a] = e
        /\ \A r \in Registers : r # a => panelReg'[r] = panelReg[r]
    BY <2>0 DEF PanelInv, RegInv, IsMap
  <2>2. /\ IsMap(panelHas', Wanted) /\ panelHas'[b] = v
        /\ \A w \in Wanted : w # b => panelHas'[w] = panelHas[w]
    BY <2>0 DEF PanelInv, RegInv, IsMap
  <2> USE DEF a, b, e
  <2>3. SettingsHeld'
    <3> SUFFICES ASSUME NEW t \in PanelSettings, panelHas'[<<t, 0>>] # NoValue
                 PROVE  /\ panelHas'[<<t, 0>>] \in 0..100
                        /\ panelReg'[SetRegister(t)] = Encode(t, panelHas'[<<t, 0>>])
      BY DEF SettingsHeld
    <3>1. CASE t = s
      BY <1>2, <2>1, <2>2, <3>1
    <3>2. CASE t # s
      <4>1. SetRegister(t) # SetRegister(s) /\ SetRegister(t) \in Registers
        BY <3>2, RegistersDiffer, NamesAre
      <4>2. <<t, 0>> # <<s, 0>> /\ <<t, 0>> \in Wanted
        BY <3>2, NamesAre
      <4>3. panelReg'[SetRegister(t)] = panelReg[SetRegister(t)] /\ panelHas'[<<t, 0>>] = panelHas[<<t, 0>>]
        BY <2>1, <2>2, <4>1, <4>2
      <4> QED BY <4>3 DEF PanelInv, RegInv, SettingsHeld
    <3> QED BY <3>1, <3>2
  <2>4. BalanceHeld'
    <3>1. ASSUME NEW m \in WbModes, NEW k \in {"gain", "offset"}
          PROVE  panelReg'[<<k, m>>] = panelReg[<<k, m>>] /\ panelHas'[<<k, m>>] = panelHas[<<k, m>>]
      <4>1. <<k, m>> \in Registers /\ <<k, m>> \in Wanted /\ <<k, m>> # a
        BY NamesAre
      <4>2. <<k, m>> # b
        BY NamesDiffer
      <4> HIDE DEF a, b, e
      <4> QED BY <2>1, <2>2, <4>1, <4>2
    <3> HIDE DEF a, b, e
    <3>2. ASSUME NEW m \in WbModes
          PROVE  /\ panelReg'[<<"gain", m>>] = panelReg[<<"gain", m>>]
                 /\ panelHas'[<<"gain", m>>] = panelHas[<<"gain", m>>]
                 /\ panelReg'[<<"offset", m>>] = panelReg[<<"offset", m>>]
                 /\ panelHas'[<<"offset", m>>] = panelHas[<<"offset", m>>]
      BY <3>1
    <3> QED BY <3>2 DEF BalanceHeld, PanelInv, RegInv
  <2> QED BY <1>1, <2>1, <2>2, <2>3, <2>4 DEF PanelInv, RegInv
<1> QED BY <1>3, <1>4 DEF SetPanel

LEMMA SaveWhiteBalanceHolds ==
  ASSUME PanelInv, NEW m \in WbModes, NEW g \in WbGains, NEW o \in WbOffsets, SaveWhiteBalance(m, g, o)
  PROVE  PanelInv'
<1>1. AnsweredGetTells'
  BY NothingGot DEF SaveWhiteBalance
<1>2. g \in 0..2047 /\ o \in -1024..1023
  BY FbcPanelAssumption
<1>3. CASE UNCHANGED <<panelReg, panelHas>>
  BY <1>1, <1>3 DEF PanelInv, RegInv, SettingsHeld, BalanceHeld
<1>4. CASE /\ panelReg' = [panelReg EXCEPT ![<<"gain", m>>] = SavedGain(g),
                                           ![<<"offset", m>>] = SavedOffset(o)]
           /\ panelHas' = [panelHas EXCEPT ![<<"gain", m>>] = g, ![<<"offset", m>>] = o]
  <2> DEFINE a == <<"gain", m>>
             b == <<"offset", m>>
  <2>1. a \in Registers /\ a \in Wanted /\ b \in Registers /\ b \in Wanted /\ a # b
    BY NamesAre
  <2>2. panelReg' = [panelReg EXCEPT ![a] = SavedGain(g), ![b] = SavedOffset(o)]
    BY <1>4
  <2>3. panelHas' = [panelHas EXCEPT ![a] = g, ![b] = o]
    BY <1>4
  <2>4. \A s \in PanelSettings : /\ SetRegister(s) # a /\ SetRegister(s) # b /\ SetRegister(s) \in Registers
                                 /\ <<s, 0>> # a /\ <<s, 0>> # b /\ <<s, 0>> \in Wanted
    BY NamesAre, NamesDiffer
  <2>5. \A n \in WbModes : n # m =>
          /\ <<"gain", n>> # a /\ <<"gain", n>> # b /\ <<"offset", n>> # a /\ <<"offset", n>> # b
    OBVIOUS
  <2>5a. \A n \in WbModes : /\ <<"gain", n>> \in Registers /\ <<"gain", n>> \in Wanted
                            /\ <<"offset", n>> \in Registers /\ <<"offset", n>> \in Wanted
    BY NamesAre
  <2> HIDE DEF a, b
  <2>6. /\ IsMap(panelReg', Registers) /\ panelReg'[a] = SavedGain(g) /\ panelReg'[b] = SavedOffset(o)
        /\ \A r \in Registers : r # a /\ r # b => panelReg'[r] = panelReg[r]
    BY <2>1, <2>2 DEF PanelInv, RegInv, IsMap
  <2>7. /\ IsMap(panelHas', Wanted) /\ panelHas'[a] = g /\ panelHas'[b] = o
        /\ \A r \in Wanted : r # a /\ r # b => panelHas'[r] = panelHas[r]
    BY <2>1, <2>3 DEF PanelInv, RegInv, IsMap
  <2>8. SettingsHeld'
    <3> SUFFICES ASSUME NEW t \in PanelSettings
                 PROVE  panelHas'[<<t, 0>>] = panelHas[<<t, 0>>] /\ panelReg'[SetRegister(t)] = panelReg[SetRegister(t)]
      BY DEF PanelInv, RegInv, SettingsHeld
    <3> QED BY <2>4, <2>6, <2>7
  <2>9. BalanceHeld'
    <3> SUFFICES ASSUME NEW n \in WbModes
                 PROVE  /\ GainKept(panelHas'[<<"gain", n>>], panelReg'[<<"gain", n>>])
                        /\ OffsetKept(panelHas'[<<"offset", n>>], panelReg'[<<"offset", n>>])
      BY DEF BalanceHeld
    <3>1. CASE n = m
      <4>1. <<"gain", n>> = a /\ <<"offset", n>> = b
        BY <3>1 DEF a, b
      <4>2. GainKept(g, SavedGain(g)) /\ OffsetKept(o, SavedOffset(o))
        BY <1>2 DEF GainKept, OffsetKept
      <4> QED BY <2>6, <2>7, <4>1, <4>2
    <3>2. CASE n # m
      <4>1. /\ panelHas'[<<"gain", n>>] = panelHas[<<"gain", n>>] /\ panelReg'[<<"gain", n>>] = panelReg[<<"gain", n>>]
            /\ panelHas'[<<"offset", n>>] = panelHas[<<"offset", n>>] /\ panelReg'[<<"offset", n>>] = panelReg[<<"offset", n>>]
        BY <2>5, <2>5a, <2>6, <2>7, <3>2
      <4> QED BY <4>1 DEF PanelInv, RegInv, BalanceHeld
    <3> QED BY <3>1, <3>2
  <2> QED BY <1>1, <2>6, <2>7, <2>8, <2>9 DEF PanelInv, RegInv
<1> QED BY <1>3, <1>4 DEF SaveWhiteBalance

\* Frames may be lost each for itself.
LEMMA SendFramesHolds ==
  ASSUME PanelInv, NEW frames, SendFrames(frames),
         \A i \in DOMAIN frames :
           /\ frames[i][1] \notin WbItems
           /\ \A s \in PanelSettings : frames[i][1] = SetRegister(s) =>
                frames[i][2] \in 0..100 /\ Encode(s, frames[i][2]) = frames[i][2]
  PROVE  PanelInv'
<1>1. AnsweredGetTells'
  BY NothingGot DEF SendFrames
<1>2. PICK got \in SUBSET DOMAIN frames :
       LET last(r) == {i \in got : frames[i][1] = r} IN
       /\ panelReg' = [r \in Registers |-> IF last(r) = {} THEN panelReg[r]
                                           ELSE frames[CHOOSE i \in last(r) : TRUE][2]]
       /\ panelHas' = [w \in Wanted |->
            IF w[1] \in PanelSettings /\ last(SetRegister(w[1])) # {}
            THEN frames[CHOOSE i \in last(SetRegister(w[1])) : TRUE][2] ELSE panelHas[w]]
  BY DEF SendFrames
<1> DEFINE last(r) == {i \in got : frames[i][1] = r}
           value(r) == frames[CHOOSE i \in last(r) : TRUE][2]
<1>3. /\ panelReg' = [r \in Registers |-> IF last(r) = {} THEN panelReg[r] ELSE value(r)]
      /\ panelHas' = [w \in Wanted |-> IF w[1] \in PanelSettings /\ last(SetRegister(w[1])) # {}
                                       THEN value(SetRegister(w[1])) ELSE panelHas[w]]
  BY <1>2
<1>4. \A s \in PanelSettings : last(SetRegister(s)) # {} =>
         value(SetRegister(s)) \in 0..100 /\ Encode(s, value(SetRegister(s))) = value(SetRegister(s))
  <2> SUFFICES ASSUME NEW s \in PanelSettings, last(SetRegister(s)) # {}
               PROVE  value(SetRegister(s)) \in 0..100
                      /\ Encode(s, value(SetRegister(s))) = value(SetRegister(s))
    OBVIOUS
  <2>1. PICK c : c = CHOOSE i \in last(SetRegister(s)) : TRUE
    OBVIOUS
  <2>2. c \in DOMAIN frames /\ frames[c][1] = SetRegister(s) /\ value(SetRegister(s)) = frames[c][2]
    BY <2>1
  <2> HIDE DEF value, last
  <2> QED BY <2>2
<1>5. \A m \in WbModes : last(<<"gain", m>>) = {} /\ last(<<"offset", m>>) = {}
  BY NamesAre
<1> HIDE DEF value, last
<1>6. IsMap(panelReg', Registers) /\ IsMap(panelHas', Wanted)
  BY <1>3 DEF IsMap
<1>7. \A s \in PanelSettings :
        /\ panelReg'[SetRegister(s)] = IF last(SetRegister(s)) = {} THEN panelReg[SetRegister(s)]
                                       ELSE value(SetRegister(s))
        /\ panelHas'[<<s, 0>>] = IF last(SetRegister(s)) = {} THEN panelHas[<<s, 0>>]
                                 ELSE value(SetRegister(s))
  <2> SUFFICES ASSUME NEW s \in PanelSettings
               PROVE  /\ panelReg'[SetRegister(s)] = IF last(SetRegister(s)) = {} THEN panelReg[SetRegister(s)]
                                                     ELSE value(SetRegister(s))
                      /\ panelHas'[<<s, 0>>] = IF last(SetRegister(s)) = {} THEN panelHas[<<s, 0>>]
                                               ELSE value(SetRegister(s))
    OBVIOUS
  <2>1. SetRegister(s) \in Registers /\ <<s, 0>> \in Wanted /\ <<s, 0>>[1] = s
    BY NamesAre
  <2> QED BY <1>3, <2>1
<1>8. SettingsHeld'
  BY <1>4, <1>7 DEF PanelInv, RegInv, SettingsHeld
<1>9. \A m \in WbModes :
        /\ panelReg'[<<"gain", m>>] = panelReg[<<"gain", m>>]
        /\ panelHas'[<<"gain", m>>] = panelHas[<<"gain", m>>]
        /\ panelReg'[<<"offset", m>>] = panelReg[<<"offset", m>>]
        /\ panelHas'[<<"offset", m>>] = panelHas[<<"offset", m>>]
  <2> SUFFICES ASSUME NEW m \in WbModes, NEW k \in {"gain", "offset"}, last(<<k, m>>) = {}
               PROVE  panelReg'[<<k, m>>] = panelReg[<<k, m>>] /\ panelHas'[<<k, m>>] = panelHas[<<k, m>>]
    BY <1>5
  <2>1. <<k, m>> \in Registers /\ <<k, m>> \in Wanted /\ <<k, m>>[1] \notin PanelSettings
    BY NamesAre, NamesDiffer
  <2> QED BY <1>3, <2>1
<1>10. BalanceHeld'
  BY <1>9 DEF PanelInv, RegInv, BalanceHeld
<1> QED BY <1>1, <1>6, <1>8, <1>10 DEF PanelInv, RegInv

\* What an answered get tells.
LEMMA GetPanelHolds ==
  ASSUME PanelInv, NEW s \in PanelSettings, GetPanel(s)
  PROVE  PanelInv'
<1>1. UNCHANGED <<panelReg, panelHas>>
  BY DEF GetPanel
<1>2. AnsweredGetTells'
  <2>1. CASE panelGot' = NoGet
    BY <2>1, NothingGot
  <2>2. CASE panelGot' = <<<<s, 0>>, Decode(s, panelReg[RegisterOf(GetCmd(s))])>>
    <3>1. /\ panelGot'[1] = <<s, 0>> /\ <<s, 0>> \notin WbItems
          /\ panelGot'[2] = Decode(s, panelReg[SetRegister(s)])
      BY <2>2, RegisterOfGet, NamesAre
    <3>2. panelHas[<<s, 0>>] # NoValue => Decode(s, panelReg[SetRegister(s)]) = panelHas[<<s, 0>>]
      BY ConversionsInverse DEF PanelInv, RegInv, SettingsHeld
    <3> QED BY <1>1, <3>1, <3>2 DEF AnsweredGetTells
  <2> QED BY <2>1, <2>2 DEF GetPanel
<1> QED BY <1>1, <1>2 DEF PanelInv, RegInv, SettingsHeld, BalanceHeld

LEMMA GetWhiteBalanceHolds ==
  ASSUME PanelInv, NEW m \in WbModes, GetWhiteBalance(m)
  PROVE  PanelInv'
<1>1. UNCHANGED <<panelReg, panelHas>>
  BY DEF GetWhiteBalance
<1>2. AnsweredGetTells'
  <2>1. CASE panelGot' = NoGet
    BY <2>1, NothingGot
  <2>2. CASE panelGot' = <<<<"gain", m>>, ShownGain(panelReg[<<"gain", m>>])>>
    <3> DEFINE w == <<"gain", m>>
    <3>1. panelGot'[1] = w /\ w \in WbItems /\ panelGot'[2] = ShownGain(panelReg[w])
      BY <2>2, NamesAre
    <3>2. GainKept(panelHas[w], panelReg[w])
      BY DEF PanelInv, RegInv, BalanceHeld
    <3> HIDE DEF w
    <3>3. PICK h, x : h = panelHas[w] /\ x = panelReg[w]
      OBVIOUS
    <3>4. ASSUME h # NoValue PROVE Distance(ShownGain(x), h) <= WbLoss
      <4>1. GainKept(h, x)
        BY <3>2, <3>3
      <4>2. h \in 0..2047 /\ x = SavedGain(h)
        BY <3>4, <4>1 DEF GainKept
      <4>3. Distance(ShownGain(SavedGain(h)), h) <= WbLoss
        BY <4>2, GainComesBack
      <4> QED BY <4>2, <4>3
    <3>5. panelHas[w] # NoValue => Distance(ShownGain(panelReg[w]), panelHas[w]) <= WbLoss
      BY <3>3, <3>4
    <3> QED BY <1>1, <3>1, <3>5 DEF AnsweredGetTells
  <2>3. CASE panelGot' = <<<<"offset", m>>, ShownOffset(panelReg[<<"offset", m>>])>>
    <3> DEFINE w == <<"offset", m>>
    <3>1. panelGot'[1] = w /\ w \in WbItems /\ panelGot'[2] = ShownOffset(panelReg[w])
      BY <2>3, NamesAre
    <3>2. OffsetKept(panelHas[w], panelReg[w])
      BY DEF PanelInv, RegInv, BalanceHeld
    <3> HIDE DEF w
    <3>3. PICK h, x : h = panelHas[w] /\ x = panelReg[w]
      OBVIOUS
    <3>4. ASSUME h # NoValue PROVE Distance(ShownOffset(x), h) <= WbLoss
      <4>1. OffsetKept(h, x)
        BY <3>2, <3>3
      <4>2. h \in -1024..1023 /\ x = SavedOffset(h)
        BY <3>4, <4>1 DEF OffsetKept
      <4>3. Distance(ShownOffset(SavedOffset(h)), h) <= WbLoss
        BY <4>2, OffsetComesBack
      <4> QED BY <4>2, <4>3
    <3>5. panelHas[w] # NoValue => Distance(ShownOffset(panelReg[w]), panelHas[w]) <= WbLoss
      BY <3>3, <3>4
    <3> QED BY <1>1, <3>1, <3>5 DEF AnsweredGetTells
  <2> QED BY <2>1, <2>2, <2>3 DEF GetWhiteBalance
<1> QED BY <1>1, <1>2 DEF PanelInv, RegInv, SettingsHeld, BalanceHeld

\* The patterns, modules and switches: no frame of theirs is another setting's.
LEMMA PatternsHold ==
  ASSUME PanelInv, \/ \E v \in PanelValues : TestPatternSelect(v)
                   \/ \E on \in BOOLEAN : GrayPatternOnOff(on)
                   \/ \E cmd \in SetOnly, v \in PanelValues : SetOther(cmd, v)
                   \/ \E m \in DOMAIN Modules, v \in {0, 1} : SetModule(m, v)
  PROVE  PanelInv'
<1> DEFINE Fits(f) == /\ f[1] \notin WbItems
                      /\ \A s \in PanelSettings : f[1] = SetRegister(s) =>
                           f[2] \in 0..100 /\ Encode(s, f[2]) = f[2]
<1>1. ASSUME NEW r, NEW v, r \notin {"gain", "offset", "cmd"}, NEW n PROVE Fits(<<<<r, n>>, v>>)
  BY <1>1 DEF WbItems, SetRegister
<1>1a. ASSUME NEW m, NEW v PROVE Fits(Enable(m, v))
  <2>1. Enable(m, v) = <<<<"enable", Modules[m]>>, v>>
    BY DEF Enable
  <2> QED BY <1>1, <2>1
<1>2. ASSUME NEW v \in PanelValues PROVE Fits(<<SetRegister("test_pattern"), v>>)
  <2>1. v \in 0..100 /\ "test_pattern" \in PanelSettings
    BY FbcPanelAssumption DEF PanelSettings, PictureCmds
  <2>2. SetRegister("test_pattern") \notin WbItems
    BY DEF SetRegister, WbItems
  <2>3. Encode("test_pattern", v) = v
    BY <2>1 DEF Encode
  <2>4. \A s \in PanelSettings : SetRegister("test_pattern") = SetRegister(s) => s = "test_pattern"
    BY <2>1, RegistersDiffer
  <2> QED BY <2>1, <2>2, <2>3, <2>4
<1>3. ASSUME NEW cmd \in SetOnly, NEW v PROVE Fits(<<<<"cmd", cmd>>, v>>)
  BY CommandsDiffer DEF WbItems, SetRegister
<1> HIDE DEF Fits
<1>4. ASSUME NEW v \in PanelValues, TestPatternSelect(v) PROVE PanelInv'
  <2> DEFINE frames == <<<<<<"srcif", 2>>, 1>>, Enable("csc0", 1), <<SetRegister("test_pattern"), v>>>>
  <2>1. /\ Fits(<<<<"srcif", 2>>, 1>>) /\ Fits(Enable("csc0", 1))
        /\ Fits(<<SetRegister("test_pattern"), v>>)
    BY <1>1, <1>1a, <1>2
  <2>2. \A i \in DOMAIN frames : Fits(frames[i])
    BY <2>1
  <2>3. SendFrames(frames)
    BY <1>4 DEF TestPatternSelect
  <2> HIDE DEF frames
  <2> QED BY <2>2, <2>3, SendFramesHolds DEF Fits
<1>5. ASSUME NEW on \in BOOLEAN, GrayPatternOnOff(on) PROVE PanelInv'
  <2>1. PICK m, k : SendFrames(<<<<<<"srcif", 2>>, k>>, Enable("csc1", m), Enable("dnlp", m), Enable("cm", m)>>)
    BY <1>5 DEF GrayPatternOnOff
  <2> DEFINE frames == <<<<<<"srcif", 2>>, k>>, Enable("csc1", m), Enable("dnlp", m), Enable("cm", m)>>
  <2>2. /\ Fits(<<<<"srcif", 2>>, k>>) /\ Fits(Enable("csc1", m))
        /\ Fits(Enable("dnlp", m)) /\ Fits(Enable("cm", m))
    BY <1>1, <1>1a
  <2>3. \A i \in DOMAIN frames : Fits(frames[i])
    BY <2>2
  <2>4. SendFrames(frames)
    BY <2>1
  <2> HIDE DEF frames
  <2> QED BY <2>3, <2>4, SendFramesHolds DEF Fits
<1>6. ASSUME NEW cmd \in SetOnly, NEW v \in PanelValues, SetOther(cmd, v) PROVE PanelInv'
  <2> DEFINE frames == <<<<<<"cmd", cmd>>, v>>>>
  <2>1. \A i \in DOMAIN frames : Fits(frames[i])
    <3>1. Fits(frames[1])
      BY <1>3
    <3> QED BY <3>1
  <2>2. SendFrames(frames)
    BY <1>6 DEF SetOther
  <2> HIDE DEF frames
  <2> QED BY <2>1, <2>2, SendFramesHolds DEF Fits
<1>7. ASSUME NEW m \in DOMAIN Modules, NEW v \in {0, 1}, SetModule(m, v) PROVE PanelInv'
  <2> DEFINE frames == <<Enable(m, v)>>
  <2>1. \A i \in DOMAIN frames : Fits(frames[i])
    <3>1. Fits(frames[1])
      BY <1>1a
    <3> QED BY <3>1
  <2>2. SendFrames(frames)
    BY <1>7 DEF SetModule
  <2> HIDE DEF frames
  <2> QED BY <2>1, <2>2, SendFramesHolds DEF Fits
<1> QED BY <1>4, <1>5, <1>6, <1>7

\* For any values: a get that is answered tells what the last set of that setting asked for.
THEOREM GetsTellTheSet == PanelSpec => []AnsweredGetTells
<1>1. PanelInit => PanelInv
  <2> SUFFICES ASSUME PanelInit PROVE PanelInv
    OBVIOUS
  <2>1. \A w \in Wanted : panelHas[w] = NoValue
    BY DEF PanelInit
  <2>2. IsMap(panelReg, Registers) /\ IsMap(panelHas, Wanted)
    BY DEF PanelInit, IsMap
  <2>3. AnsweredGetTells
    BY <2>1 DEF AnsweredGetTells
  <2>4. SettingsHeld
    BY <2>1, NamesAre DEF SettingsHeld
  <2>5. BalanceHeld
    BY <2>1, NamesAre DEF BalanceHeld, GainKept, OffsetKept
  <2> QED BY <2>2, <2>3, <2>4, <2>5 DEF PanelInv, RegInv
<1>2. PanelInv /\ [PanelNext]_panelVars => PanelInv'
  <2>1. PanelInv /\ UNCHANGED panelVars => PanelInv'
    BY DEF PanelInv, RegInv, SettingsHeld, BalanceHeld, AnsweredGetTells, panelVars
  <2>2. PanelInv /\ PanelNext => PanelInv'
    BY SetPanelHolds, GetPanelHolds, SaveWhiteBalanceHolds, GetWhiteBalanceHolds, PatternsHold
       DEF PanelNext
  <2> QED BY <2>1, <2>2
<1> QED BY <1>1, <1>2, PTL DEF PanelSpec, PanelInv
=============================================================================
