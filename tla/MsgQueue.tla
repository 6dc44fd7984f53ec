------------------------------ MODULE MsgQueue ------------------------------
(***************************************************************************)
(* CMsgQueueThread (tvutils/CMsgQueue.cpp): the delayed message queue the  *)
(* whole server hands its asynchronous events through, and the thread that *)
(* takes them off it.                                                      *)
(*                                                                         *)
(* Any thread calls sendMsg, removeMsg and clearMsg; each is one critical  *)
(* section of mLockQueue, hence one action.  The consumer, threadLoop,     *)
(* takes and drops mLockQueue several times per message and reads the size *)
(* of the vector WITHOUT it: each of those sections and unlocked reads is  *)
(* a step of its own, told apart by pc.                                    *)
(***************************************************************************)
EXTENDS Integers, Sequences

CONSTANTS
    Types,      \* the message types (mType)
    Delays,     \* the delays a sender asks for (mDelayMs)
    Api,        \* which calls beside sendMsg the owner makes
    MaxMsgs,    \* bound: messages ever sent
    MaxTime     \* bound: the clock, in ticks

ASSUME TypesAssumption == Types # {}
ASSUME DelaysAssumption == Delays \subseteq Nat
ASSUME ApiAssumption == Api \subseteq {"remove", "clear", "exit"}
ASSUME BoundsAssumption == MaxMsgs \in Nat /\ MaxTime \in Nat

VARIABLES
    queue,        \* m_v_msg
    now,          \* what getNowMs returns
    pc,           \* where threadLoop is
    msg,          \* threadLoop's local msg
    signalled,    \* mGetMsgCondition was signalled while the thread waits
    exitPending,  \* Thread::requestExit was called
    sent,         \* history: messages sent so far, also the id of the newest
    last          \* history: the message handled last

vars == <<queue, now, pc, msg, signalled, exitPending, sent, last>>

Message == [id : Nat, type : Types, when : Nat]
NoMsg == [id |-> 0, type |-> CHOOSE t \in Types : TRUE, when |-> 0]

\* The places of threadLoop.  "undef" is the state after m_v_msg[0] was read
\* from an empty vector: what happens then is not defined by the program.
Places == {"top", "check", "wait", "size", "peek", "delay", "timed",
           "sizeAgain", "take", "handle", "done", "undef"}

TypeOK ==
    /\ queue \in Seq(Message)
    /\ now \in Nat
    /\ pc \in Places
    /\ msg \in Message
    /\ signalled \in BOOLEAN
    /\ exitPending \in BOOLEAN
    /\ sent \in Nat
    /\ last \in Message

Init ==
    /\ queue = <<>>
    /\ now = 0
    /\ pc = "top"
    /\ msg = NoMsg
    /\ signalled = FALSE
    /\ exitPending = FALSE
    /\ sent = 0
    /\ last = NoMsg

-----------------------------------------------------------------------------
(* The callers. *)

\* Mutant of Signal: sendMsg does not signal.
SignalDropped == UNCHANGED signalled

\* mGetMsgCondition.signal(): kept only by a thread that waits on it.
Signal == signalled' = (signalled \/ pc = "wait")

\* Mutants of InsertsAt: a message overtakes those due at the same time; a
\* message goes to the end.
InsertsBeforeTies(q, m, i) ==
    /\ \A j \in 1..(i - 1) : q[j].when < m.when
    /\ i <= Len(q) => q[i].when >= m.when

\* The index at which sendMsg's while loop stops: everything before it is due
\* no later than m, so equal due times stay in the order they were sent.
InsertsAt(q, m, i) ==
    /\ \A j \in 1..(i - 1) : q[j].when <= m.when
    /\ i <= Len(q) => q[i].when > m.when

Inserted(q, m, i) ==
    [k \in 1..(Len(q) + 1) |->
        IF k < i THEN q[k] ELSE IF k = i THEN m ELSE q[k - 1]]

\* msg.mWhenMs = getNowMs() + msg.mDelayMs
WhenMs(d) == now + d

SendMsg(t, d) ==
    LET m == [id |-> sent + 1, type |-> t, when |-> WhenMs(d)] IN
    /\ sent < MaxMsgs
    /\ WhenMs(d) <= MaxTime
    /\ \E i \in 1..(Len(queue) + 1) :
          /\ InsertsAt(queue, m, i)
          /\ queue' = Inserted(queue, m, i)
    /\ sent' = sent + 1
    /\ Signal
    /\ UNCHANGED <<now, pc, msg, exitPending, last>>

\* removeMsg's loop removes at i and then increments i all the same: the
\* element that moves into the hole is never looked at.
AfterRemoveLoop(q, t) ==
    LET after[i \in 0..Len(q)] ==
          IF i = 0 THEN [kept |-> <<>>, skip |-> FALSE]
          ELSE IF q[i].type = t /\ ~after[i - 1].skip
               THEN [kept |-> after[i - 1].kept, skip |-> TRUE]
               ELSE [kept |-> Append(after[i - 1].kept, q[i]), skip |-> FALSE]
    IN  after[Len(q)].kept

RemoveMsg(t) ==
    /\ "remove" \in Api
    /\ queue' = AfterRemoveLoop(queue, t)
    /\ IF Len(queue') < Len(queue) THEN Signal ELSE UNCHANGED signalled
    /\ UNCHANGED <<now, pc, msg, exitPending, sent, last>>

ClearMsg ==
    /\ "clear" \in Api
    /\ queue' = <<>>
    /\ UNCHANGED <<now, pc, msg, signalled, exitPending, sent, last>>

\* The destructor's requestExitAndWait: sets the flag, signals nothing.
RequestExit ==
    /\ "exit" \in Api
    /\ exitPending' = TRUE
    /\ UNCHANGED <<queue, now, pc, msg, signalled, sent, last>>

Tick ==
    /\ now < MaxTime
    /\ now' = now + 1
    /\ UNCHANGED <<queue, pc, msg, signalled, exitPending, sent, last>>

-----------------------------------------------------------------------------
(* threadLoop. *)

Goto(p) == pc' = p

\* while (!exitPending())
LoopTop ==
    /\ pc = "top"
    /\ IF exitPending THEN Goto("done") ELSE Goto("check")
    /\ UNCHANGED <<queue, now, msg, signalled, exitPending, sent, last>>

\* Under the lock: wait while the vector is empty.
CheckEmpty ==
    /\ pc = "check"
    /\ IF queue = <<>> THEN Goto("wait") ELSE Goto("size")
    /\ UNCHANGED <<queue, now, msg, signalled, exitPending, sent, last>>

Wakeup ==
    /\ pc = "wait"
    /\ signalled
    /\ signalled' = FALSE
    /\ Goto("check")
    /\ UNCHANGED <<queue, now, msg, exitPending, sent, last>>

\* m_v_msg.size() <= 0, read without the lock: break out of the do loop.
ReadSize ==
    /\ pc = "size"
    /\ IF queue = <<>> THEN Goto("sizeAgain") ELSE Goto("peek")
    /\ UNCHANGED <<queue, now, msg, signalled, exitPending, sent, last>>

\* msg = m_v_msg[0] under the lock.
Peek ==
    /\ pc = "peek"
    /\ IF queue = <<>>
       THEN /\ Goto("undef")
            /\ UNCHANGED msg
       ELSE /\ Goto("delay")
            /\ msg' = Head(queue)
    /\ UNCHANGED <<queue, now, signalled, exitPending, sent, last>>

\* delayMs = msg.mWhenMs - getNowMs(), without the lock.
CheckDelay ==
    /\ pc = "delay"
    /\ IF msg.when > now THEN Goto("timed") ELSE Goto("sizeAgain")
    /\ UNCHANGED <<queue, now, msg, signalled, exitPending, sent, last>>

\* Mutant of TimedWakeup: the wait has no time-out.
TimedWakeupOnSignal ==
    /\ pc = "timed"
    /\ signalled
    /\ Goto("size")
    /\ UNCHANGED <<queue, now, msg, signalled, exitPending, sent, last>>

\* waitRelative takes nanoseconds and is given milliseconds, so the time-out
\* may end at any time, before or after the message is due.
TimedWakeup ==
    /\ pc = "timed"
    /\ Goto("size")
    /\ UNCHANGED <<queue, now, msg, signalled, exitPending, sent, last>>

\* if (m_v_msg.size() > 0), again without the lock.
ReadSizeAgain ==
    /\ pc = "sizeAgain"
    /\ IF queue = <<>> THEN Goto("top") ELSE Goto("take")
    /\ UNCHANGED <<queue, now, msg, signalled, exitPending, sent, last>>

\* msg = m_v_msg[0]; removeAt(0): whatever is first NOW.
Take ==
    /\ pc = "take"
    /\ IF queue = <<>>
       THEN /\ Goto("undef")
            /\ UNCHANGED <<queue, msg>>
       ELSE /\ Goto("handle")
            /\ msg' = Head(queue)
            /\ queue' = Tail(queue)
    /\ UNCHANGED <<now, signalled, exitPending, sent, last>>

\* Mutant of Handle: goes on to the next message without looking at the size.
HandleAndTakeNext ==
    /\ pc = "handle"
    /\ last' = msg
    /\ Goto("take")
    /\ UNCHANGED <<queue, now, msg, signalled, exitPending, sent>>

\* handleMessage(msg) returns.
Handle ==
    /\ pc = "handle"
    /\ last' = msg
    /\ Goto("top")
    /\ UNCHANGED <<queue, now, msg, signalled, exitPending, sent>>

ThreadLoop ==
    \/ LoopTop \/ CheckEmpty \/ Wakeup \/ ReadSize \/ Peek \/ CheckDelay
    \/ TimedWakeup \/ ReadSizeAgain \/ Take \/ Handle

Next ==
    \/ \E t \in Types, d \in Delays : SendMsg(t, d)
    \/ \E t \in Types : RemoveMsg(t)
    \/ ClearMsg
    \/ RequestExit
    \/ Tick
    \/ ThreadLoop

Spec == Init /\ [][Next]_vars

\* The consumer thread is scheduled and time passes; nothing is assumed of the
\* callers.
FairSpec == Spec /\ WF_vars(ThreadLoop) /\ WF_vars(Tick)

-----------------------------------------------------------------------------
(* Properties. *)

\* a is delivered before b: it is due earlier or, due at the same time, was
\* sent earlier.
Precedes(a, b) == a.when < b.when \/ (a.when = b.when /\ a.id < b.id)

\* m_v_msg stays sorted by due time, ties in the order of the calls, whatever
\* mixture of sendMsg, removeMsg and clearMsg ran (sendMsg's insertion loop,
\* removeMsg's removeAt).
QueueSorted ==
    \A i, j \in 1..Len(queue) : i < j => Precedes(queue[i], queue[j])

\* The consumer never sleeps on a non-empty queue without a wake-up on its way
\* (the signal of sendMsg against the unlocked window before wait()).
NoLostWakeup == pc = "wait" /\ queue # <<>> => signalled

\* "wait, until, the lowest time msg's whentime is low nowtime": handleMessage
\* is never given a message that is not due, although the message it gets is
\* read again after the due time was checked (threadLoop's two reads of
\* m_v_msg[0]).
NeverEarly == pc = "handle" => msg.when <= now

\* Messages are handled in the order Precedes gives, over the whole run: a
\* message sent while the consumer is between its check and its removal never
\* overtakes, and is never overtaken by, one it should not.
HandledInOrder == pc = "handle" /\ last.id > 0 => Precedes(last, msg)

\* handleMessage gets each message at its time and in its turn.
InDueOrder == NeverEarly /\ HandledInOrder

\* m_v_msg[0] is never read from an empty vector, although size() is read
\* outside mLockQueue.
NoUndefinedRead == pc # "undef"

Pending == {queue[i].id : i \in 1..Len(queue)}
             \cup (IF pc = "handle" THEN {msg.id} ELSE {})

\* Every message that was sent is handled in the end.
EveryMessageHandled ==
    \A n \in 1..MaxMsgs : n \in Pending ~> n \notin Pending
=============================================================================
