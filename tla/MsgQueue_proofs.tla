-------------------------- MODULE MsgQueue_proofs --------------------------
(***************************************************************************)
(* Proofs about MsgQueue.  For every use of the class the vector stays     *)
(* sorted and no wake-up is lost.  For an owner that only calls sendMsg    *)
(* (and may request the thread's exit), what the server's own queue,       *)
(* CTv::CTvMsgQueue, does, messages are also handled at their time and in  *)
(* their turn; with removeMsg or clearMsg that is false: a call between    *)
(* the due-time check and the removal makes the consumer take another      *)
(* message than the one it checked.                                        *)
(***************************************************************************)
EXTENDS MsgQueue, DataLemmas, SequenceTheorems, TLAPS

ServerApi == Api \subseteq {"exit"}

-----------------------------------------------------------------------------
(* The inductive invariant. *)

\* m_v_msg is sorted and holds ids that were given out.
QueueInv ==
    /\ QueueSorted
    /\ \A i \in 1..Len(queue) : queue[i].id \in 1..sent

\* Between the unlocked size check and the removal nobody but the consumer
\* removes, so the vector stays non-empty.
BusyInv ==
    pc \in {"size", "peek", "delay", "timed", "sizeAgain", "take"}
        => queue # <<>>

\* The due-time check was made on some copy of the first element; what is
\* first now is due no later.
DueInv ==
    /\ pc = "delay" => queue[1].when <= msg.when
    /\ pc \in {"sizeAgain", "take"} => queue[1].when <= now

\* The message being handled, and the last one handled, come before all that
\* is still queued or will ever be sent.
HandledInv ==
    /\ last.when <= now
    /\ last.id <= sent
    /\ last.id > 0 => \A i \in 1..Len(queue) : Precedes(last, queue[i])
    /\ pc = "handle" =>
          /\ msg.when <= now
          /\ msg.id \in 1..sent
          /\ last.id > 0 => Precedes(last, msg)
          /\ \A i \in 1..Len(queue) : Precedes(msg, queue[i])

IInv == TypeOK /\ QueueInv /\ BusyInv /\ DueInv /\ HandledInv /\ pc # "undef"

-----------------------------------------------------------------------------
(* Lemmas about the operators. *)

\* The message that stands for "none" has the shape of a message.
LEMMA NoMsgType == NoMsg \in Message
BY TypesAssumption DEF NoMsg, Message

\* A message has exactly the fields of CMessage, each in its range.
LEMMA MessageFields ==
    \A a \in Message : a.when \in Nat /\ a.id \in Nat
BY DEF Message

\* What is read at a position of a sequence lies in the set it is over.
LEMMA SeqElement ==
    ASSUME NEW q \in Seq(Message), NEW k \in 1..Len(q)
    PROVE  q[k] \in Message /\ q[k].when \in Nat /\ q[k].id \in Nat
<1>1. q[k] \in Message
  OBVIOUS
<1> QED BY <1>1, MessageFields

\* Inserting lengthens the sequence by one and keeps its elements' type.
LEMMA InsertedType ==
    ASSUME NEW q \in Seq(Message), NEW m \in Message,
           NEW i \in 1..(Len(q) + 1)
    PROVE  /\ Inserted(q, m, i) \in Seq(Message)
           /\ Len(Inserted(q, m, i)) = Len(q) + 1
<1> DEFINE r == Inserted(q, m, i)
<1>1. Len(q) \in Nat /\ \A k \in 1..Len(q) : q[k] \in Message
  OBVIOUS
<1>2. r = [k \in 1..(Len(q) + 1) |->
            IF k < i THEN q[k] ELSE IF k = i THEN m ELSE q[k - 1]]
  BY DEF Inserted
<1>3. \A k \in 1..(Len(q) + 1) :
        (IF k < i THEN q[k] ELSE IF k = i THEN m ELSE q[k - 1]) \in Message
  <2> TAKE k \in 1..(Len(q) + 1)
  <2>1. CASE k < i
    <3>1. k \in 1..Len(q)
      BY <2>1, <1>1
    <3> QED BY <3>1, <2>1, <1>1
  <2>2. CASE k = i
    BY <2>2
  <2>3. CASE k > i
    <3>1. k - 1 \in 1..Len(q)
      BY <2>3, <1>1
    <3> QED BY <3>1, <2>3, <1>1
  <2> QED BY <2>1, <2>2, <2>3, <1>1
<1>4. r \in [1..(Len(q) + 1) -> Message]
  BY <1>2, <1>3
<1>5. r \in Seq(Message) /\ Len(r) = Len(q) + 1
  BY <1>4, <1>1
<1> QED BY <1>5

\* Every element of the longer sequence is an old one or the new one, and
\* indexes of old elements keep their order.
LEMMA InsertedAt ==
    ASSUME NEW q \in Seq(Message), NEW m \in Message,
           NEW i \in 1..(Len(q) + 1), NEW k \in 1..(Len(q) + 1)
    PROVE  /\ k < i => k \in 1..Len(q) /\ Inserted(q, m, i)[k] = q[k]
           /\ k = i => Inserted(q, m, i)[k] = m
           /\ k > i => k - 1 \in 1..Len(q) /\ Inserted(q, m, i)[k] = q[k - 1]
BY DEF Inserted

\* removeMsg's loop, position by position.
After(f, q, t) ==
    /\ f[0] = [kept |-> <<>>, skip |-> FALSE]
    /\ \A i \in 1..Len(q) :
          f[i] = IF q[i].type = t /\ ~f[i - 1].skip
                 THEN [kept |-> f[i - 1].kept, skip |-> TRUE]
                 ELSE [kept |-> Append(f[i - 1].kept, q[i]), skip |-> FALSE]

\* The loop is a function of the position.
LEMMA AfterIs ==
    ASSUME NEW q \in Seq(Message), NEW t
    PROVE  \E f \in [0..Len(q) -> [kept : Seq(Message), skip : BOOLEAN]] :
              After(f, q, t) /\ AfterRemoveLoop(q, t) = f[Len(q)].kept
<1> DEFINE n == Len(q)
           S == [kept : Seq(Message), skip : BOOLEAN]
           base == [kept |-> <<>>, skip |-> FALSE]
           Step(i, x) == IF q[i].type = t /\ ~x.skip
                         THEN [kept |-> x.kept, skip |-> TRUE]
                         ELSE [kept |-> Append(x.kept, q[i]), skip |-> FALSE]
           G == [x \in (1 .. n) \X S |-> Step(x[1], x[2])]
<1>1. n \in Nat /\ base \in S /\ \A i \in 1..n : q[i] \in Message
  OBVIOUS
<1>2. G \in [(1 .. n) \X S -> S]
  <2> SUFFICES ASSUME NEW i \in 1..n, NEW x \in S PROVE Step(i, x) \in S
    OBVIOUS
  <2>1. x.kept \in Seq(Message) /\ Append(x.kept, q[i]) \in Seq(Message)
    BY <1>1
  <2> QED BY <2>1
<1>3. ASSUME NEW i \in 1..n, NEW x \in S PROVE G[<<i, x>>] = Step(i, x)
  OBVIOUS
<1> HIDE DEF n, S, base, Step, G
<1>4. PICK f \in [0 .. n -> S] : Recurs(f, n, base, G)
  <2>1. n \in Nat
    BY <1>1
  <2>2. base \in S
    BY <1>1
  <2> QED BY <2>1, <2>2, <1>2, Recursion, Zenon
<1>5. f[0] = base /\ \A i \in 1..n : f[i] = Step(i, f[i - 1])
  <2>1. f[0] = base /\ \A i \in 1..n : f[i] = G[<<i, f[i - 1]>>]
    BY <1>4 DEF Recurs
  <2>2. \A i \in 1..n : i - 1 \in 0 .. n
    BY <1>1
  <2> QED BY <1>3, <2>1, <2>2
<1> DEFINE E(h, i) == IF i = 0 THEN base ELSE Step(i, h[i - 1])
           D == 0 .. n
           h == CHOOSE h : h = [i \in D |-> E(h, i)]
<1>6. AfterRemoveLoop(q, t) = h[n].kept
  BY DEF AfterRemoveLoop, n, base, Step
<1>7. f = [i \in D |-> E(f, i)]
  <2>1. \A i \in D : f[i] = E(f, i)
    <3> SUFFICES ASSUME NEW i \in D PROVE f[i] = E(f, i)
      OBVIOUS
    <3>1. i # 0 => i \in 1..n
      BY <1>1
    <3> QED BY <1>5, <3>1
  <2>2. f = [i \in D |-> f[i]]
    BY <1>4
  <2> HIDE DEF E, D
  <2> QED BY <2>1, <2>2, Zenon
<1>8. h = [i \in D |-> E(h, i)]
  <2> HIDE DEF E, D
  <2> QED BY <1>7
<1> HIDE DEF h
<1>9. \A i \in D : h[i] = E(h, i)
  <2> HIDE DEF E, D
  <2> QED BY <1>8, Zenon
<1>10. \A i \in 0 .. n : h[i] = f[i]
  <2> DEFINE T == {i \in 0 .. n : h[i] = f[i]}
  <2>1. 0 \in T
    BY <1>1, <1>5, <1>9
  <2>2. ASSUME NEW i \in 1 .. n, i - 1 \in T PROVE i \in T
    <3>1. i \in D /\ i # 0
      BY <1>1
    <3>2. h[i] = Step(i, h[i - 1])
      BY <1>9, <3>1
    <3> QED BY <1>5, <2>2, <3>1, <3>2
  <2> HIDE DEF T
  <2>3. n \in Nat
    BY <1>1
  <2>4. \A i \in 0 .. n : i \in T
    BY <2>1, <2>2, <2>3, Along, Zenon
  <2> QED BY <2>4 DEF T
<1>11. h[n] = f[n]
  BY <1>1, <1>10
<1>12. After(f, q, t)
  BY <1>5 DEF After, n, base, Step
<1> QED BY <1>6, <1>11, <1>12 DEF n, S

\* What removeMsg leaves is some of what was there, in the order it was there.
LEMMA RemoveKeeps ==
    ASSUME NEW q \in Seq(Message), NEW t,
           \A i, j \in 1..Len(q) : i < j => Precedes(q[i], q[j])
    PROVE  /\ AfterRemoveLoop(q, t) \in Seq(Message)
           /\ Len(AfterRemoveLoop(q, t)) <= Len(q)
           /\ \A k \in 1..Len(AfterRemoveLoop(q, t)) :
                 \E j \in 1..Len(q) : AfterRemoveLoop(q, t)[k] = q[j]
           /\ \A k, l \in 1..Len(AfterRemoveLoop(q, t)) :
                 k < l => Precedes(AfterRemoveLoop(q, t)[k], AfterRemoveLoop(q, t)[l])
<1> DEFINE n == Len(q)
           From(s, m) == \A k \in 1..Len(s) : \E j \in 1..m : s[k] = q[j]
           Sorted(s) == \A k, l \in 1..Len(s) : k < l => Precedes(s[k], s[l])
           Good(s, m) == s \in Seq(Message) /\ Len(s) <= m /\ From(s, m) /\ Sorted(s)
<1>1. n \in Nat /\ \A i \in 1..n : q[i] \in Message
  OBVIOUS
<1>2. \A i, j \in 1..n : i < j => Precedes(q[i], q[j])
  OBVIOUS
<1> HIDE DEF n
<1>3. PICK f \in [0 .. n -> [kept : Seq(Message), skip : BOOLEAN]] :
         After(f, q, t) /\ AfterRemoveLoop(q, t) = f[n].kept
  BY AfterIs DEF n
<1>4. ASSUME NEW m \in 1..n, NEW s, Good(s, m - 1) PROVE Good(s, m)
  <2>1. 1 .. (m - 1) \subseteq 1 .. m /\ m \in Nat
    BY <1>1
  <2>2. From(s, m - 1) => From(s, m)
    BY <2>1
  <2>3. s \in Seq(Message) /\ Len(s) <= m
    BY <1>4, <2>1
  <2> QED BY <1>4, <2>2, <2>3
<1>5. ASSUME NEW m \in 1..n, NEW s, Good(s, m - 1) PROVE Good(Append(s, q[m]), m)
  <2> DEFINE a == Append(s, q[m])
  <2>1. s \in Seq(Message) /\ q[m] \in Message /\ Len(s) \in Nat /\ Len(s) <= m - 1 /\ m \in Nat
    BY <1>1, <1>5
  <2>2. a \in Seq(Message) /\ Len(a) = Len(s) + 1 /\ a[Len(s) + 1] = q[m]
        /\ \A k \in 1..Len(s) : a[k] = s[k]
    BY <2>1
  <2>3. \A k \in 1..Len(s) : \E j \in 1..(m - 1) : s[k] = q[j]
    BY <1>5
  <2> HIDE DEF a
  <2>4. From(a, m)
    <3> SUFFICES ASSUME NEW k \in 1..Len(a) PROVE \E j \in 1..m : a[k] = q[j]
      OBVIOUS
    <3>1. CASE k \in 1..Len(s)
      <4>1. PICK j \in 1..(m - 1) : s[k] = q[j]
        BY <2>3, <3>1
      <4>2. j \in 1..m /\ a[k] = q[j]
        BY <2>1, <2>2, <3>1, <4>1
      <4> QED BY <4>2
    <3>2. CASE k = Len(s) + 1
      BY <2>1, <2>2, <3>2
    <3> QED BY <2>1, <2>2, <3>1, <3>2
  <2>5. Sorted(a)
    <3> SUFFICES ASSUME NEW k \in 1..Len(a), NEW l \in 1..Len(a), k < l PROVE Precedes(a[k], a[l])
      OBVIOUS
    <3>1. k \in 1..Len(s)
      BY <2>1, <2>2
    <3>2. CASE l \in 1..Len(s)
      BY <1>5, <2>2, <3>1, <3>2
    <3>3. CASE l = Len(s) + 1
      <4>1. PICK j \in 1..(m - 1) : s[k] = q[j]
        BY <2>3, <3>1
      <4>2. j \in 1..n /\ m \in 1..n /\ j < m
        BY <1>1, <4>1
      <4>3. Precedes(q[j], q[m])
        BY <1>2, <4>2
      <4> QED BY <2>2, <3>1, <3>3, <4>1, <4>3
    <3>4. l \in 1..Len(s) \/ l = Len(s) + 1
      <4> DEFINE c == Len(s)
      <4>1. c \in Nat /\ l \in 1..(c + 1)
        BY <2>1, <2>2
      <4> HIDE DEF c
      <4>2. l \in 1..c \/ l = c + 1
        BY <4>1
      <4> QED BY <4>2 DEF c
    <3> QED BY <3>2, <3>3, <3>4
  <2>6. Len(a) <= m
    BY <2>1, <2>2
  <2> QED BY <2>2, <2>4, <2>5, <2>6 DEF a
<1>6. Good(<<>>, 0)
  OBVIOUS
<1> HIDE DEF Good
<1> DEFINE T == {m \in 0 .. n : Good(f[m].kept, m)}
<1>7. 0 \in T
  <2>1. f[0].kept = <<>>
    BY <1>3 DEF After
  <2> QED BY <1>1, <1>6, <2>1
<1>8. ASSUME NEW m \in 1 .. n, m - 1 \in T PROVE m \in T
  <2>1. Good(f[m - 1].kept, m - 1) /\ m \in 0 .. n
    BY <1>1, <1>8
  <2>2. f[m].kept = f[m - 1].kept \/ f[m].kept = Append(f[m - 1].kept, q[m])
    <3> DEFINE x == f[m - 1]
    <3>1. f[m] = IF q[m].type = t /\ ~x.skip
                 THEN [kept |-> x.kept, skip |-> TRUE]
                 ELSE [kept |-> Append(x.kept, q[m]), skip |-> FALSE]
      BY <1>3 DEF After, n
    <3> HIDE DEF x
    <3>2. f[m].kept = x.kept \/ f[m].kept = Append(x.kept, q[m])
      <4>1. CASE q[m].type = t /\ ~x.skip
        BY <3>1, <4>1
      <4>2. CASE ~(q[m].type = t /\ ~x.skip)
        BY <3>1, <4>2
      <4> QED BY <4>1, <4>2
    <3> QED BY <3>2 DEF x
  <2>3. Good(f[m].kept, m)
    BY <1>4, <1>5, <2>1, <2>2
  <2> QED BY <2>1, <2>3
<1>9. n \in T
  <2> HIDE DEF T
  <2>1. n \in Nat
    BY <1>1
  <2>2. \A i \in 0 .. n : i \in T
    BY <1>7, <1>8, <2>1, Along, Zenon
  <2> QED BY <2>1, <2>2
<1>10. Good(AfterRemoveLoop(q, t), n)
  BY <1>3, <1>9
<1> QED BY <1>10 DEF Good, n

-----------------------------------------------------------------------------
(* The invariant holds initially and every step preserves it. *)

\* The queue starts in a state of the invariant.
LEMMA InitIInv == Init => IInv
<1> SUFFICES ASSUME Init PROVE IInv
  OBVIOUS
<1>1. TypeOK
  <2>1. <<>> \in Seq(Message)
    OBVIOUS
  <2>2. 0 \in Nat /\ FALSE \in BOOLEAN
    OBVIOUS
  <2> QED BY <2>1, <2>2, NoMsgType, Zenon DEF Init, TypeOK, Places
<1>2. NoMsg.id = 0 /\ NoMsg.when = 0
  BY DEF NoMsg
<1>3. Len(queue) = 0 /\ pc = "top" /\ now = 0 /\ sent = 0 /\ last = NoMsg
  BY DEF Init
<1>4. QueueInv /\ BusyInv /\ DueInv /\ HandledInv /\ pc # "undef"
  BY <1>2, <1>3 DEF QueueInv, QueueSorted, BusyInv, DueInv, HandledInv
<1> QED BY <1>1, <1>4 DEF IInv

\* sendMsg keeps the vector sorted, whoever else calls what.
LEMMA SendQueue ==
    ASSUME TypeOK, QueueInv, NEW t \in Types, NEW d \in Delays, SendMsg(t, d)
    PROVE  TypeOK' /\ QueueInv'
<1> DEFINE m == [id |-> sent + 1, type |-> t, when |-> now + d]
<1>1. d \in Nat
  BY DelaysAssumption
<1>2. m \in Message /\ m.when = now + d /\ m.id = sent + 1
  BY <1>1 DEF Message, TypeOK
<1> HIDE DEF m
<1>3. PICK i \in 1..(Len(queue) + 1) :
        InsertsAt(queue, m, i) /\ queue' = Inserted(queue, m, i)
  BY DEF SendMsg, WhenMs, m
<1>4. /\ queue \in Seq(Message) /\ now \in Nat /\ sent \in Nat
      /\ msg \in Message /\ last \in Message
  BY DEF TypeOK
<1>5. queue' \in Seq(Message) /\ Len(queue') = Len(queue) + 1
  BY <1>2, <1>3, <1>4, InsertedType
<1>6. \A k \in 1..Len(queue') :
        /\ k < i => k \in 1..Len(queue) /\ queue'[k] = queue[k]
        /\ k = i => queue'[k] = m
        /\ k > i => k - 1 \in 1..Len(queue) /\ queue'[k] = queue[k - 1]
  <2> TAKE k \in 1..Len(queue')
  <2>1. k \in 1..(Len(queue) + 1) /\ queue' = Inserted(queue, m, i)
    BY <1>3, <1>5
  <2>2. /\ k < i => k \in 1..Len(queue) /\ Inserted(queue, m, i)[k] = queue[k]
        /\ k = i => Inserted(queue, m, i)[k] = m
        /\ k > i => k - 1 \in 1..Len(queue) /\ Inserted(queue, m, i)[k] = queue[k - 1]
    BY <1>2, <1>4, <2>1, InsertedAt
  <2> QED BY <2>1, <2>2
<1>7. /\ sent' = sent + 1
      /\ UNCHANGED <<now, pc, msg, exitPending, last>>
      /\ signalled' \in BOOLEAN
  BY DEF SendMsg, Signal, TypeOK
<1>8. \A k \in 1..Len(queue) : /\ queue[k] \in Message
                               /\ queue[k].id \in 1..sent
                               /\ queue[k].when \in Nat
  BY <1>4, SeqElement DEF QueueInv
<1>9. \A k \in 1..Len(queue) : k >= i => queue[k].when > m.when
  <2> SUFFICES ASSUME NEW k \in 1..Len(queue), k >= i
               PROVE  queue[k].when > m.when
    OBVIOUS
  <2>1. i \in 1..Len(queue) /\ queue[i].when > m.when
    BY <1>3, <1>4 DEF InsertsAt
  <2>2. i = k \/ Precedes(queue[i], queue[k])
    BY <2>1, <1>4 DEF QueueInv, QueueSorted
  <2>3. /\ queue[i].when \in Nat /\ queue[k].when \in Nat
        /\ m.when \in Nat
    BY <2>1, <1>2, <1>8, MessageFields
  <2>4. queue[k].when >= queue[i].when
    BY <2>2, <2>3 DEF Precedes
  <2> QED BY <2>1, <2>3, <2>4
<1>10. \A k \in 1..Len(queue) : k < i => queue[k].when <= m.when
  BY <1>3, <1>4 DEF InsertsAt
<1>11. TypeOK'
  BY <1>4, <1>5, <1>7 DEF TypeOK
<1>12. QueueInv'
  <2>1. \A k \in 1..Len(queue') : queue'[k].id \in 1..sent'
    <3> TAKE k \in 1..Len(queue')
    <3>1. CASE k < i
      BY <3>1, <1>4, <1>6, <1>7, <1>8
    <3>2. CASE k = i
      BY <3>2, <1>2, <1>4, <1>6, <1>7
    <3>3. CASE k > i
      <4>1. k - 1 \in 1..Len(queue) /\ queue'[k] = queue[k - 1]
        BY <3>3, <1>6
      <4> QED BY <4>1, <1>4, <1>7, <1>8
    <3> QED BY <3>1, <3>2, <3>3, <1>5, <1>4
  <2>2. ASSUME NEW j \in 1..Len(queue'), NEW k \in 1..Len(queue'), j < k
        PROVE  Precedes(queue'[j], queue'[k])
    <3>1. CASE k < i
      BY <2>2, <3>1, <1>4, <1>6 DEF QueueInv, QueueSorted
    <3>2. CASE k = i
      <4>1. j \in 1..Len(queue) /\ queue'[j] = queue[j] /\ queue'[k] = m
        BY <2>2, <3>2, <1>4, <1>6
      <4>2. queue[j].when <= m.when /\ queue[j].id < m.id
        BY <4>1, <2>2, <3>2, <1>2, <1>4, <1>8, <1>10
      <4>3. queue[j].when \in Nat /\ m.when \in Nat
        BY <4>1, <1>2, <1>8, MessageFields
      <4> QED BY <4>1, <4>2, <4>3 DEF Precedes
    <3>3. CASE k > i
      <4>1. k - 1 \in 1..Len(queue) /\ queue'[k] = queue[k - 1]
        BY <3>3, <1>6
      <4>2. CASE j < i
        BY <4>1, <4>2, <2>2, <3>3, <1>4, <1>6 DEF QueueInv, QueueSorted
      <4>3. CASE j = i
        <5>1. queue'[j] = m /\ queue[k - 1].when > m.when
          BY <4>1, <4>3, <3>3, <1>4, <1>6, <1>9
        <5> QED BY <5>1, <4>1 DEF Precedes
      <4>4. CASE j > i
        <5>1. j - 1 \in 1..Len(queue) /\ queue'[j] = queue[j - 1]
          BY <4>4, <1>6
        <5> QED BY <5>1, <4>1, <2>2, <1>4 DEF QueueInv, QueueSorted
      <4> QED BY <4>2, <4>3, <4>4, <1>4, <1>5
    <3> QED BY <3>1, <3>2, <3>3, <1>4, <1>5
  <2> QED BY <2>1, <2>2 DEF QueueInv, QueueSorted
<1> QED BY <1>11, <1>12

\* sendMsg keeps the vector sorted, makes what is first due no later, and
\* puts the new message after whatever has been handled or is in hand.
LEMMA SendIInv ==
    ASSUME IInv, NEW t \in Types, NEW d \in Delays, SendMsg(t, d)
    PROVE  IInv'
<1> DEFINE m == [id |-> sent + 1, type |-> t, when |-> now + d]
<1>1. d \in Nat
  BY DelaysAssumption
<1>2. m \in Message /\ m.when = now + d /\ m.id = sent + 1
  BY <1>1 DEF Message, IInv, TypeOK
<1> HIDE DEF m
<1>3. PICK i \in 1..(Len(queue) + 1) :
        InsertsAt(queue, m, i) /\ queue' = Inserted(queue, m, i)
  BY DEF SendMsg, WhenMs, m
<1>4. /\ queue \in Seq(Message) /\ now \in Nat /\ sent \in Nat
      /\ msg \in Message /\ last \in Message
  BY DEF IInv, TypeOK
<1>5. queue' \in Seq(Message) /\ Len(queue') = Len(queue) + 1
  BY <1>2, <1>3, <1>4, InsertedType
<1>6. \A k \in 1..Len(queue') :
        /\ k < i => k \in 1..Len(queue) /\ queue'[k] = queue[k]
        /\ k = i => queue'[k] = m
        /\ k > i => k - 1 \in 1..Len(queue) /\ queue'[k] = queue[k - 1]
  <2> TAKE k \in 1..Len(queue')
  <2>1. k \in 1..(Len(queue) + 1) /\ queue' = Inserted(queue, m, i)
    BY <1>3, <1>5
  <2>2. /\ k < i => k \in 1..Len(queue) /\ Inserted(queue, m, i)[k] = queue[k]
        /\ k = i => Inserted(queue, m, i)[k] = m
        /\ k > i => k - 1 \in 1..Len(queue) /\ Inserted(queue, m, i)[k] = queue[k - 1]
    BY <1>2, <1>4, <2>1, InsertedAt
  <2> QED BY <2>1, <2>2
<1>7. /\ sent' = sent + 1
      /\ UNCHANGED <<now, pc, msg, exitPending, last>>
      /\ signalled' \in BOOLEAN
  BY DEF SendMsg, Signal, IInv, TypeOK
<1>8. \A k \in 1..Len(queue) : /\ queue[k] \in Message
                               /\ queue[k].id \in 1..sent
                               /\ queue[k].when \in Nat
  BY <1>4, SeqElement DEF IInv, QueueInv
<1>9. \A k \in 1..Len(queue) : k >= i => queue[k].when > m.when
  <2> SUFFICES ASSUME NEW k \in 1..Len(queue), k >= i
               PROVE  queue[k].when > m.when
    OBVIOUS
  <2>1. i \in 1..Len(queue) /\ queue[i].when > m.when
    BY <1>3, <1>4 DEF InsertsAt
  <2>2. i = k \/ Precedes(queue[i], queue[k])
    BY <2>1, <1>4 DEF IInv, QueueInv, QueueSorted
  <2>3. /\ queue[i].when \in Nat /\ queue[k].when \in Nat
        /\ m.when \in Nat
    BY <2>1, <1>2, <1>8, MessageFields
  <2>4. queue[k].when >= queue[i].when
    BY <2>2, <2>3 DEF Precedes
  <2> QED BY <2>1, <2>3, <2>4
<1>10. \A k \in 1..Len(queue) : k < i => queue[k].when <= m.when
  BY <1>3, <1>4 DEF InsertsAt
<1>11. TypeOK' /\ QueueInv'
  BY SendQueue DEF IInv
<1>13. BusyInv'
  BY <1>4, <1>5 DEF BusyInv
<1>14. DueInv'
  \* what is first is what was first, or the new message, due earlier than it
  <2>1. ASSUME queue # <<>>
        PROVE  queue'[1].when <= queue[1].when
    <3>1. 1 \in 1..Len(queue) /\ 1 \in 1..Len(queue')
      BY <2>1, <1>4, <1>5
    <3>2. CASE i = 1
      <4>1. queue'[1] = m /\ queue[1].when > m.when
        BY <3>1, <3>2, <1>6, <1>9
      <4> QED BY <4>1, <3>1, <1>1, <1>2, <1>4, <1>8
    <3>3. CASE i > 1
      BY <3>1, <3>3, <1>4, <1>6, <1>8
    <3> QED BY <3>2, <3>3
  <2>2. queue # <<>> => 1 \in 1..Len(queue) /\ queue[1].when \in Nat
    BY <1>4, <1>8
  <2>3. queue' # <<>> => queue'[1].when \in Nat
    <3>1. queue' # <<>> => 1 \in 1..Len(queue')
      BY <1>4, <1>5
    <3> QED BY <3>1, <1>5, SeqElement
  <2>4. ASSUME pc = "delay"
        PROVE  queue'[1].when <= msg.when
    <3>1. queue # <<>> /\ queue[1].when <= msg.when
      BY <2>4 DEF IInv, BusyInv, DueInv
    <3> QED BY <3>1, <2>1, <2>2, <2>3, <1>4, <1>5, MessageFields
  <2>5. ASSUME pc \in {"sizeAgain", "take"}
        PROVE  queue'[1].when <= now
    <3>1. queue # <<>> /\ queue[1].when <= now
      BY <2>5 DEF IInv, BusyInv, DueInv
    <3> QED BY <3>1, <2>1, <2>2, <2>3, <1>4, <1>5
  <2> QED BY <2>4, <2>5, <1>7 DEF DueInv
<1>15. HandledInv'
  <2>1. ASSUME NEW a \in Message, a.when <= now, a.id <= sent,
               \A k \in 1..Len(queue) : Precedes(a, queue[k])
        PROVE  \A k \in 1..Len(queue') : Precedes(a, queue'[k])
    <3>1. Precedes(a, m)
      BY <2>1, <1>1, <1>2, <1>4, MessageFields DEF Precedes
    <3>2. \A k \in 1..Len(queue') :
            queue'[k] = m \/ \E j \in 1..Len(queue) : queue'[k] = queue[j]
      <4> TAKE k \in 1..Len(queue')
      <4>1. k < i \/ k = i \/ k > i
        BY <1>4, <1>5
      <4> QED BY <4>1, <1>6
    <3> QED BY <2>1, <3>1, <3>2
  <2>2. /\ last' = last /\ msg' = msg /\ now' = now /\ pc' = pc
        /\ sent' = sent + 1 /\ last.id \in Nat /\ msg.id \in Nat
    BY <1>4, <1>7 DEF Message
  <2>3. last.id > 0 => \A k \in 1..Len(queue') : Precedes(last, queue'[k])
    BY <2>1, <1>4 DEF IInv, HandledInv
  <2>4. pc = "handle" => \A k \in 1..Len(queue') : Precedes(msg, queue'[k])
    <3> SUFFICES ASSUME pc = "handle"
                 PROVE  \A k \in 1..Len(queue') : Precedes(msg, queue'[k])
      OBVIOUS
    <3>1. /\ msg.when <= now /\ msg.id <= sent
          /\ \A k \in 1..Len(queue) : Precedes(msg, queue[k])
      BY <1>4 DEF IInv, HandledInv
    <3> QED BY <3>1, <2>1, <1>4
  <2>5. /\ last'.when <= now' /\ last'.id <= sent'
        /\ pc' = "handle" => /\ msg'.when <= now' /\ msg'.id \in 1..sent'
                             /\ last'.id > 0 => Precedes(last', msg')
    BY <2>2, <1>4 DEF IInv, HandledInv
  <2> QED BY <2>2, <2>3, <2>4, <2>5 DEF HandledInv
<1> QED BY <1>7, <1>11, <1>13, <1>14, <1>15 DEF IInv

\* The steps of threadLoop that read or move pc only.
LEMMA ScanIInv ==
    ASSUME IInv,
           \/ LoopTop \/ CheckEmpty \/ Wakeup \/ ReadSize \/ CheckDelay
           \/ TimedWakeup \/ ReadSizeAgain
    PROVE  IInv'
<1>1. UNCHANGED <<queue, now, msg, exitPending, sent, last>>
  BY DEF LoopTop, CheckEmpty, Wakeup, ReadSize, CheckDelay, TimedWakeup,
         ReadSizeAgain
<1>2. pc' \in {"top", "check", "wait", "size", "peek", "timed", "sizeAgain",
              "take", "done"}
      /\ signalled' \in BOOLEAN
  BY DEF LoopTop, CheckEmpty, Wakeup, ReadSize, CheckDelay, TimedWakeup,
         ReadSizeAgain, Goto, IInv, TypeOK
<1>3. TypeOK'
  BY <1>1, <1>2 DEF IInv, TypeOK, Places
<1>4. QueueInv'
  BY <1>1 DEF IInv, QueueInv, QueueSorted, Precedes
<1>5. BusyInv'
  BY <1>1 DEF LoopTop, CheckEmpty, Wakeup, ReadSize, CheckDelay, TimedWakeup,
              ReadSizeAgain, Goto, IInv, BusyInv
<1>6. DueInv'
  <2>1. CASE CheckDelay
    <3>1. queue # <<>> /\ queue[1].when <= msg.when
      BY <2>1 DEF CheckDelay, IInv, DueInv, BusyInv
    <3>2. /\ queue[1].when \in Nat /\ msg.when \in Nat /\ now \in Nat
      <4>1. queue \in Seq(Message) /\ msg \in Message /\ now \in Nat
        BY DEF IInv, TypeOK
      <4>2. 1 \in 1..Len(queue)
        BY <3>1, <4>1
      <4> QED BY <4>1, <4>2, SeqElement, MessageFields
    <3>3. pc' = "sizeAgain" => queue[1].when <= now
      BY <2>1, <3>1, <3>2 DEF CheckDelay, Goto
    <3> QED BY <2>1, <3>3, <1>1 DEF CheckDelay, Goto, DueInv
  <2>2. CASE ReadSize \/ ReadSizeAgain
    BY <2>2, <1>1 DEF ReadSize, ReadSizeAgain, Goto, IInv, BusyInv, DueInv
  <2>3. CASE LoopTop \/ CheckEmpty \/ Wakeup \/ TimedWakeup
    BY <2>3 DEF LoopTop, CheckEmpty, Wakeup, TimedWakeup, Goto, DueInv
  <2> QED BY <2>1, <2>2, <2>3
<1>7. HandledInv'
  BY <1>1, <1>2 DEF IInv, HandledInv, Precedes
<1> QED BY <1>2, <1>3, <1>4, <1>5, <1>6, <1>7 DEF IInv

\* Reading the head of mv_msg (the worker's peek) keeps the invariant.
LEMMA PeekIInv == ASSUME IInv, Peek PROVE IInv'
<1>1. /\ queue # <<>> /\ queue \in Seq(Message) /\ pc' = "delay"
      /\ msg' = queue[1]
      /\ UNCHANGED <<queue, now, signalled, exitPending, sent, last>>
  BY DEF Peek, Goto, IInv, BusyInv, TypeOK
<1>2. 1 \in 1..Len(queue) /\ queue[1] \in Message /\ queue[1].when \in Nat
  <2>1. 1 \in 1..Len(queue)
    BY <1>1
  <2> QED BY <2>1, <1>1, SeqElement
<1>3. TypeOK'
  BY <1>1, <1>2 DEF IInv, TypeOK, Places
<1>4. QueueInv' /\ BusyInv'
  BY <1>1 DEF IInv, QueueInv, QueueSorted, Precedes, BusyInv
<1>5. DueInv'
  BY <1>1, <1>2 DEF DueInv
<1>6. HandledInv'
  BY <1>1 DEF IInv, HandledInv, Precedes
<1> QED BY <1>1, <1>3, <1>4, <1>5, <1>6 DEF IInv

\* Erasing the head and keeping it for the handler keeps the invariant.
LEMMA TakeIInv == ASSUME IInv, Take PROVE IInv'
<1>1. /\ queue # <<>> /\ queue \in Seq(Message) /\ now \in Nat
      /\ last \in Message /\ sent \in Nat
      /\ pc' = "handle" /\ msg' = queue[1] /\ queue' = Tail(queue)
      /\ queue[1].when <= now
      /\ UNCHANGED <<now, signalled, exitPending, sent, last>>
  BY DEF Take, Goto, IInv, BusyInv, DueInv, TypeOK
<1>2. 1 \in 1..Len(queue) /\ queue[1] \in Message
  <2>1. 1 \in 1..Len(queue)
    BY <1>1
  <2> QED BY <2>1, <1>1, SeqElement
<1>3. queue' \in Seq(Message) /\ Len(queue') = Len(queue) - 1
  BY <1>1
<1>4. \A k \in 1..Len(queue') : /\ k + 1 \in 1..Len(queue)
                                /\ queue'[k] = queue[k + 1]
  BY <1>1, <1>3
<1>5. TypeOK'
  BY <1>1, <1>2, <1>3 DEF IInv, TypeOK, Places
<1>6. QueueInv'
  <2>1. \A j, k \in 1..Len(queue') : j < k => Precedes(queue'[j], queue'[k])
    <3> TAKE j, k \in 1..Len(queue')
    <3> HAVE j < k
    <3>1. j + 1 < k + 1 /\ j + 1 \in 1..Len(queue) /\ k + 1 \in 1..Len(queue)
      BY <1>1, <1>3, <1>4
    <3>2. Precedes(queue[j + 1], queue[k + 1])
      BY <3>1 DEF IInv, QueueInv, QueueSorted
    <3> QED BY <3>2, <1>4
  <2>2. \A k \in 1..Len(queue') : queue'[k].id \in 1..sent'
    BY <1>1, <1>4 DEF IInv, QueueInv
  <2> QED BY <2>1, <2>2 DEF QueueInv, QueueSorted
<1>7. BusyInv' /\ DueInv'
  BY <1>1 DEF BusyInv, DueInv
<1>8. HandledInv'
  <2>1. \A k \in 1..Len(queue') : Precedes(queue[1], queue'[k])
    <3> TAKE k \in 1..Len(queue')
    <3>1. 1 < k + 1
      BY <1>3, <1>1
    <3>2. Precedes(queue[1], queue[k + 1])
      BY <3>1, <1>2, <1>4 DEF IInv, QueueInv, QueueSorted
    <3> QED BY <3>2, <1>4
  <2>2. queue[1].id \in 1..sent
    BY <1>2 DEF IInv, QueueInv
  <2>3. last.id > 0 => /\ Precedes(last, queue[1])
                       /\ \A k \in 1..Len(queue') : Precedes(last, queue'[k])
    BY <1>2, <1>4 DEF IInv, HandledInv
  <2>4. last.when <= now /\ last.id <= sent
    BY DEF IInv, HandledInv
  <2> QED BY <1>1, <2>1, <2>2, <2>3, <2>4 DEF HandledInv
<1> QED BY <1>1, <1>5, <1>6, <1>7, <1>8 DEF IInv

\* A run of handleMessage, with what it posts or removes, keeps the invariant.
LEMMA HandleIInv == ASSUME IInv, Handle PROVE IInv'
<1>1. /\ pc = "handle" /\ pc' = "top" /\ last' = msg
      /\ UNCHANGED <<queue, now, msg, signalled, exitPending, sent>>
  BY DEF Handle, Goto
<1>2. TypeOK'
  BY <1>1 DEF IInv, TypeOK, Places
<1>3. QueueInv' /\ BusyInv' /\ DueInv'
  BY <1>1 DEF IInv, QueueInv, QueueSorted, Precedes, BusyInv, DueInv
<1>4. HandledInv'
  <2>1. /\ msg.when <= now /\ msg.id \in 1..sent
        /\ \A i \in 1..Len(queue) : Precedes(msg, queue[i])
    BY <1>1 DEF IInv, HandledInv
  <2>2. msg.id <= sent
    BY <2>1 DEF IInv, TypeOK
  <2> QED BY <1>1, <2>1, <2>2 DEF HandledInv
<1> QED BY <1>1, <1>2, <1>3, <1>4 DEF IInv

\* The clock only makes more messages due.
LEMMA TickIInv == ASSUME IInv, Tick PROVE IInv'
<1>1. /\ now \in Nat /\ now' = now + 1 /\ queue \in Seq(Message)
      /\ msg \in Message /\ last \in Message
      /\ UNCHANGED <<queue, pc, msg, signalled, exitPending, sent, last>>
  BY DEF Tick, IInv, TypeOK
<1>2. TypeOK'
  BY <1>1 DEF IInv, TypeOK
<1>3. QueueInv' /\ BusyInv'
  BY <1>1 DEF IInv, QueueInv, QueueSorted, Precedes, BusyInv
<1>4. DueInv'
  <2>1. pc \in {"sizeAgain", "take"} => 1 \in 1..Len(queue)
    BY <1>1 DEF IInv, BusyInv
  <2>2. pc \in {"sizeAgain", "take"} => queue[1].when \in Nat
    BY <2>1, <1>1, SeqElement
  <2> QED BY <2>2, <1>1 DEF IInv, DueInv
<1>5. HandledInv'
  <2>1. last.when \in Nat /\ msg.when \in Nat
    BY <1>1, MessageFields
  <2> QED BY <2>1, <1>1 DEF IInv, HandledInv, Precedes
<1> QED BY <1>1, <1>2, <1>3, <1>4, <1>5 DEF IInv

\* requestExit changes nothing the invariant reads.
LEMMA ExitIInv == ASSUME IInv, RequestExit PROVE IInv'
BY DEF RequestExit, IInv, TypeOK, QueueInv, QueueSorted, Precedes, BusyInv,
       DueInv, HandledInv

\* Every step of the specification keeps the invariant.
LEMMA StepIInv == ASSUME ServerApi, IInv, [Next]_vars PROVE IInv'
<1>1. CASE \E t \in Types, d \in Delays : SendMsg(t, d)
  BY <1>1, SendIInv
<1>2. CASE \E t \in Types : RemoveMsg(t)
  BY <1>2 DEF RemoveMsg, ServerApi
<1>3. CASE ClearMsg
  BY <1>3 DEF ClearMsg, ServerApi
<1>4. CASE RequestExit
  BY <1>4, ExitIInv
<1>5. CASE Tick
  BY <1>5, TickIInv
<1>6. CASE ThreadLoop
  BY <1>6, ScanIInv, PeekIInv, TakeIInv, HandleIInv DEF ThreadLoop
<1>7. CASE UNCHANGED vars
  BY <1>7 DEF vars, IInv, TypeOK, QueueInv, QueueSorted, Precedes, BusyInv,
              DueInv, HandledInv
<1> QED BY <1>1, <1>2, <1>3, <1>4, <1>5, <1>6, <1>7 DEF Next

-----------------------------------------------------------------------------
(* What holds whatever the owner calls.                                    *)

ApiInv == TypeOK /\ QueueInv /\ NoLostWakeup

\* removeMsg keeps the vector sorted and wakes nobody it need not.
LEMMA RemoveApiInv == ASSUME ApiInv, NEW t \in Types, RemoveMsg(t) PROVE ApiInv'
<1>1. /\ queue' = AfterRemoveLoop(queue, t) /\ queue \in Seq(Message)
      /\ UNCHANGED <<now, pc, msg, exitPending, sent, last>>
  BY DEF RemoveMsg, ApiInv, TypeOK
<1>2. \A i, j \in 1..Len(queue) : i < j => Precedes(queue[i], queue[j])
  BY DEF ApiInv, QueueInv, QueueSorted
<1>3. /\ queue' \in Seq(Message) /\ Len(queue') <= Len(queue)
      /\ \A k \in 1..Len(queue') : \E j \in 1..Len(queue) : queue'[k] = queue[j]
      /\ \A k, l \in 1..Len(queue') : k < l => Precedes(queue'[k], queue'[l])
  BY <1>1, <1>2, RemoveKeeps
<1>4. signalled' \in BOOLEAN /\ (signalled => signalled')
  BY DEF RemoveMsg, Signal, ApiInv, TypeOK
<1>5. TypeOK'
  BY <1>1, <1>3, <1>4 DEF ApiInv, TypeOK
<1>6. QueueInv'
  <2>1. QueueSorted'
    BY <1>3 DEF QueueSorted
  <2>2. \A k \in 1..Len(queue') : queue'[k].id \in 1..sent'
    BY <1>1, <1>3 DEF ApiInv, QueueInv
  <2> QED BY <2>1, <2>2 DEF QueueInv
<1>7. NoLostWakeup'
  <2>1. queue' # <<>> => queue # <<>>
    BY <1>1, <1>3
  <2> QED BY <1>1, <1>4, <2>1 DEF ApiInv, NoLostWakeup
<1> QED BY <1>5, <1>6, <1>7 DEF ApiInv

\* Taking the first message off keeps the vector sorted, and one read from an empty vector leaves it.
LEMMA TakeApiInv == ASSUME ApiInv, Take PROVE ApiInv'
<1>1. queue \in Seq(Message) /\ msg \in Message /\ pc' # "wait" /\ pc' \in Places
      /\ UNCHANGED <<now, signalled, exitPending, sent, last>>
  BY DEF Take, Goto, Places, ApiInv, TypeOK
<1>2. CASE queue = <<>>
  <2>1. queue' = queue /\ msg' = msg
    BY <1>2 DEF Take
  <2> QED BY <1>1, <2>1 DEF ApiInv, TypeOK, QueueInv, QueueSorted, Precedes, NoLostWakeup
<1>3. CASE queue # <<>>
  <2>1. queue' = Tail(queue) /\ msg' = queue[1]
    BY <1>3 DEF Take
  <2>2. 1 \in 1..Len(queue)
    BY <1>1, <1>3
  <2>3. queue' \in Seq(Message) /\ Len(queue') = Len(queue) - 1 /\ msg' \in Message
    BY <1>1, <1>3, <2>1, <2>2
  <2>4. \A k \in 1..Len(queue') : k + 1 \in 1..Len(queue) /\ queue'[k] = queue[k + 1]
    BY <1>1, <1>3, <2>1, <2>3
  <2>5. TypeOK'
    BY <1>1, <2>3 DEF ApiInv, TypeOK
  <2>6. QueueInv'
    <3>1. ASSUME NEW j \in 1..Len(queue'), NEW k \in 1..Len(queue'), j < k
          PROVE  Precedes(queue'[j], queue'[k])
      <4>1. j + 1 < k + 1 /\ j + 1 \in 1..Len(queue) /\ k + 1 \in 1..Len(queue)
        BY <1>1, <2>3, <2>4, <3>1
      <4>2. Precedes(queue[j + 1], queue[k + 1])
        BY <4>1 DEF ApiInv, QueueInv, QueueSorted
      <4> QED BY <2>4, <4>2
    <3>2. \A k \in 1..Len(queue') : queue'[k].id \in 1..sent'
      BY <1>1, <2>4 DEF ApiInv, QueueInv
    <3> QED BY <3>1, <3>2 DEF QueueInv, QueueSorted
  <2> QED BY <1>1, <2>5, <2>6 DEF ApiInv, NoLostWakeup
<1> QED BY <1>2, <1>3

\* threadLoop's other steps leave the vector; the one that goes to sleep found it empty.
LEMMA ScanApiInv ==
    ASSUME ApiInv,
           \/ LoopTop \/ CheckEmpty \/ Wakeup \/ ReadSize \/ Peek \/ CheckDelay
           \/ TimedWakeup \/ ReadSizeAgain \/ Handle
    PROVE  ApiInv'
<1>1. queue' = queue /\ sent' = sent /\ now' = now /\ exitPending' = exitPending
  BY DEF LoopTop, CheckEmpty, Wakeup, ReadSize, Peek, CheckDelay, TimedWakeup, ReadSizeAgain, Handle
<1>2. pc' \in Places /\ signalled' \in BOOLEAN
  BY DEF LoopTop, CheckEmpty, Wakeup, ReadSize, Peek, CheckDelay, TimedWakeup, ReadSizeAgain, Handle,
         Goto, Places, ApiInv, TypeOK
<1>3. msg' \in Message /\ last' \in Message
  <2>1. CASE Peek
    <3>1. queue \in Seq(Message) /\ msg \in Message /\ last \in Message /\ last' = last
      BY <2>1 DEF Peek, ApiInv, TypeOK
    <3>2. CASE queue = <<>>
      BY <2>1, <3>1, <3>2 DEF Peek
    <3>3. CASE queue # <<>>
      <4>1. msg' = queue[1] /\ 1 \in 1..Len(queue)
        BY <2>1, <3>1, <3>3 DEF Peek
      <4> QED BY <3>1, <4>1
    <3> QED BY <3>2, <3>3
  <2>2. CASE ~Peek
    BY <2>2 DEF LoopTop, CheckEmpty, Wakeup, ReadSize, CheckDelay, TimedWakeup, ReadSizeAgain, Handle,
                ApiInv, TypeOK
  <2> QED BY <2>1, <2>2
<1>4. TypeOK'
  BY <1>1, <1>2, <1>3 DEF ApiInv, TypeOK
<1>5. QueueInv'
  BY <1>1 DEF ApiInv, QueueInv, QueueSorted, Precedes
<1>6. NoLostWakeup'
  BY <1>1 DEF LoopTop, CheckEmpty, Wakeup, ReadSize, Peek, CheckDelay, TimedWakeup, ReadSizeAgain, Handle,
              Goto, ApiInv, NoLostWakeup
<1> QED BY <1>4, <1>5, <1>6 DEF ApiInv

\* Every step keeps what holds for every owner.
LEMMA StepApiInv == ASSUME ApiInv, [Next]_vars PROVE ApiInv'
<1>1. ASSUME NEW t \in Types, NEW d \in Delays, SendMsg(t, d) PROVE ApiInv'
  <2>1. TypeOK' /\ QueueInv'
    BY <1>1, SendQueue DEF ApiInv
  <2>2. NoLostWakeup'
    BY <1>1 DEF SendMsg, Signal, NoLostWakeup
  <2> QED BY <2>1, <2>2 DEF ApiInv
<1>2. CASE \E t \in Types : RemoveMsg(t)
  BY <1>2, RemoveApiInv
<1>3. CASE ClearMsg
  <2>1. queue' = <<>> /\ UNCHANGED <<now, pc, msg, signalled, exitPending, sent, last>>
    BY <1>3 DEF ClearMsg
  <2>2. queue' \in Seq(Message) /\ Len(queue') = 0
    BY <2>1
  <2> QED BY <2>1, <2>2 DEF ApiInv, TypeOK, QueueInv, QueueSorted, NoLostWakeup
<1>4. CASE RequestExit
  BY <1>4 DEF RequestExit, ApiInv, TypeOK, QueueInv, QueueSorted, Precedes, NoLostWakeup
<1>5. CASE Tick
  BY <1>5 DEF Tick, ApiInv, TypeOK, QueueInv, QueueSorted, Precedes, NoLostWakeup
<1>6. CASE ThreadLoop
  BY <1>6, ScanApiInv, TakeApiInv DEF ThreadLoop
<1>7. CASE UNCHANGED vars
  BY <1>7 DEF vars, ApiInv, TypeOK, QueueInv, QueueSorted, Precedes, NoLostWakeup
<1> QED BY <1>1, <1>2, <1>3, <1>4, <1>5, <1>6, <1>7 DEF Next

-----------------------------------------------------------------------------
(* The theorems. *)

\* The inductive invariant holds for a queue that is only sent to, for any
\* number of messages, types, delays and any interleaving.
THEOREM InvariantHolds == ASSUME ServerApi PROVE Spec => []IInv
<1>1. Init => IInv
  BY InitIInv
<1>2. IInv /\ [Next]_vars => IInv'
  BY StepIInv
<1> QED BY <1>1, <1>2, PTL DEF Spec

\* No message reaches handleMessage before it is due, although threadLoop
\* checks one copy of m_v_msg[0] and handles another.
THEOREM NeverHandledEarly == ASSUME ServerApi PROVE Spec => []NeverEarly
<1>1. IInv => NeverEarly
  BY DEF IInv, HandledInv, NeverEarly
<1> QED BY <1>1, InvariantHolds, PTL

\* Messages are handled by due time and, among equals, in sending order.
THEOREM OrderOfHandling == ASSUME ServerApi PROVE Spec => []HandledInOrder
<1>1. IInv => HandledInOrder
  BY DEF IInv, HandledInv, HandledInOrder
<1> QED BY <1>1, InvariantHolds, PTL

\* The unlocked size() reads never let m_v_msg[0] be read from an empty
\* vector.
THEOREM ReadsAreDefined == ASSUME ServerApi PROVE Spec => []NoUndefinedRead
<1>1. IInv => NoUndefinedRead
  BY DEF IInv, NoUndefinedRead
<1> QED BY <1>1, InvariantHolds, PTL

\* handleMessage gets each message at its time and in its turn: threadLoop's due check and sendMsg's
\* order together.
THEOREM HandledInDueOrder == ASSUME ServerApi PROVE Spec => []InDueOrder
<1>1. NeverEarly /\ HandledInOrder => InDueOrder
  BY DEF InDueOrder
<1> QED BY <1>1, NeverHandledEarly, OrderOfHandling, PTL

\* What holds for every owner.
THEOREM ApiInvariantHolds == Spec => []ApiInv
<1>1. Init => ApiInv
  <2> SUFFICES ASSUME Init PROVE ApiInv
    OBVIOUS
  <2>1. TypeOK /\ QueueInv
    BY InitIInv DEF IInv
  <2>2. NoLostWakeup
    BY DEF Init, NoLostWakeup
  <2> QED BY <2>1, <2>2 DEF ApiInv
<1>2. ApiInv /\ [Next]_vars => ApiInv'
  BY StepApiInv
<1> QED BY <1>1, <1>2, PTL DEF Spec

\* The variables keep their types, whatever the owner calls.
THEOREM TypeCorrect == Spec => []TypeOK
<1>1. ApiInv => TypeOK
  BY DEF ApiInv
<1> QED BY <1>1, ApiInvariantHolds, PTL

\* The vector stays sorted by due time, equals in sending order, under sendMsg's insertion, removeMsg's
\* loop, which looks at only some of the elements, and clearMsg.
THEOREM QueueStaysSorted == Spec => []QueueSorted
<1>1. ApiInv => QueueSorted
  BY DEF ApiInv, QueueInv
<1> QED BY <1>1, ApiInvariantHolds, PTL

\* The thread never sleeps on a message, whatever the owner calls: whoever puts one in while it waits
\* signals, removing puts none in, and it waits only after finding the queue empty under the lock
\* (sendMsg, removeMsg, clearMsg, threadLoop).
THEOREM NeverSleepsOnMessage == Spec => []NoLostWakeup
<1>1. ApiInv => NoLostWakeup
  BY DEF ApiInv
<1> QED BY <1>1, ApiInvariantHolds, PTL
=============================================================================
