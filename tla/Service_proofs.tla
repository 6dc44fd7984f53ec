--------------------------- MODULE Service_proofs ---------------------------
(***************************************************************************)
(* Theorems about the parts the service is composed of: TvClients, the     *)
(* slots and the order of the events; TvConfig, the settings the service's *)
(* configuration file keeps; DevicesPoll, for any number of HDMI ports,    *)
(* binder threads and questions; and EventParcel, the slots of the parcels *)
(* the clients are sent.                                                   *)
(***************************************************************************)
EXTENDS TvClients, TvConfig, DevicesPoll, EventParcel, DataLemmas, SequenceTheorems, FiniteSetTheorems, TLAPS

\* One onEvent at a time, for an event that is no longer to be sent.
OneSender ==
    \A m \in sending : sending = {m} /\ m.event \notin todo

\* Nobody has heard of an event that is still to be sent.
TodoUnheard ==
    \A e \in todo : \A c \in Clients : \A i \in 1..Len(heard[c]) :
       heard[c][i] # e

\* Nobody has heard of another event after the one that is being sent.
SentLast ==
    \A m \in sending : \A c \in Clients : \A f \in Events :
       f # m.event => ~Before(c, m.event, f)

\* The links are those of clients that live, the notices those of dead ones.
LinksOfLiving ==
    /\ \A l \in links : l[1] \in alive
    /\ \A l \in notices : l[1] \notin alive

SlotInv == TypeOK /\ DeathFindsSlot /\ LinksOfLiving
OrderInv == OneSender /\ TodoUnheard /\ SentLast /\ SameOrder
-----------------------------------------------------------------------------
\* A slot given out is free or new.
LEMMA NextSlotFree ==
    ASSUME mClients \in Seq(Clients \cup {Nobody})
    PROVE  \/ NextSlot = Len(mClients) + 1 /\ NextSlot \notin Slots
           \/ NextSlot \in Slots /\ mClients[NextSlot] = Nobody
<1>1. CASE FreeSlots = {}
  BY <1>1 DEF NextSlot, Slots
<1>2. CASE FreeSlots # {}
  <2>1. FreeSlots \subseteq Nat
    BY DEF FreeSlots, Slots
  <2>2. \E k \in FreeSlots : \A j \in FreeSlots : k <= j
    BY <1>2, <2>1, LeastOf
  <2> QED BY <1>2, <2>2 DEF NextSlot, FreeSlots
<1> QED BY <1>1, <1>2
-----------------------------------------------------------------------------
(* The slots *)

LEMMA SetCallbackSlots ==
    ASSUME SlotInv, NEW c \in Clients, SetCallback(c)
    PROVE  SlotInv'
<1> USE DEF SlotInv
<1> DEFINE k == NextSlot
<1>1. mClients \in Seq(Clients \cup {Nobody}) /\ Len(mClients) \in Nat
  BY DEF TypeOK
<1>2. \/ k = Len(mClients) + 1 /\ k \notin Slots
      \/ k \in Slots /\ mClients[k] = Nobody
  BY <1>1, NextSlotFree
<1>3. /\ mClients' \in Seq(Clients \cup {Nobody})
      /\ mClients'[k] = c
      /\ k \in Slots' /\ Slots \subseteq Slots'
      /\ \A j \in Slots : j # k => mClients'[j] = mClients[j]
      /\ Len(mClients') \in Nat /\ Len(mClients) <= Len(mClients')
  <2> HIDE DEF k
  <2>1. CASE k \in Slots
    <3>1. mClients' = [mClients EXCEPT ![k] = c]
      BY <2>1 DEF SetCallback, k
    <3> QED BY <1>1, <2>1, <3>1, ExceptSeq DEF Slots
  <2>2. CASE k \notin Slots
    <3>1. mClients' = Append(mClients, c)
      BY <2>2 DEF SetCallback, k
    <3>2. k = Len(mClients) + 1
      BY <1>2, <2>2
    <3> QED BY <1>1, <3>1, <3>2, AppendProperties DEF Slots
  <2> QED BY <2>1, <2>2
<1>4. /\ links' \subseteq links \cup {<<c, k>>}
      /\ notices' = notices /\ sending = {} /\ sending' = {}
  BY DEF SetCallback, Locked
<1> HIDE DEF k
<1>5. TypeOK'
  <2>1. calls' \in [Clients -> Nat]
    BY DEF SetCallback, TypeOK
  <2>2. UNCHANGED <<alive, made, todo, heard, due>> /\ started' \in BOOLEAN
    BY DEF SetCallback
  <2>3. links' \subseteq Clients \X Slots' /\ notices' \subseteq Clients \X Slots'
    BY <1>3, <1>4 DEF TypeOK
  <2> QED BY <1>3, <1>4, <2>1, <2>2, <2>3 DEF TypeOK
<1>6. DeathFindsSlot'
  <2> SUFFICES ASSUME NEW l \in links' \cup notices'
               PROVE  mClients'[l[2]] = l[1]
    BY DEF DeathFindsSlot
  <2>1. CASE l = <<c, k>>
    BY <1>3, <2>1
  <2>2. CASE l \in links \cup notices
    <3>1. l[2] \in Slots /\ l[1] \in Clients /\ mClients[l[2]] = l[1]
      BY <2>2 DEF TypeOK, DeathFindsSlot
    <3>2. l[2] # k
      BY <1>2, <3>1, ClientsAssumption
    <3> QED BY <1>3, <3>1, <3>2
  <2> QED BY <1>4, <2>1, <2>2
<1>7. LinksOfLiving'
  BY DEF SetCallback, LinksOfLiving
<1> QED BY <1>5, <1>6, <1>7

LEMMA ServiceDiedSlots ==
    ASSUME SlotInv, NEW c \in Clients, NEW k \in Slots, ServiceDied(c, k)
    PROVE  SlotInv'
<1> USE DEF SlotInv
<1>1. /\ mClients' \in Seq(Clients \cup {Nobody})
      /\ Len(mClients') = Len(mClients) /\ Slots' = Slots
      /\ \A j \in Slots : j # k => mClients'[j] = mClients[j]
  BY ExceptSeq DEF ServiceDied, TypeOK, Slots
<1>2. TypeOK'
  BY <1>1 DEF ServiceDied, TypeOK
<1>3. DeathFindsSlot'
  <2> SUFFICES ASSUME NEW l \in links' \cup notices'
               PROVE  mClients'[l[2]] = l[1]
    BY DEF DeathFindsSlot
  <2>1. l \in links \cup notices
    BY DEF ServiceDied
  <2>2. l[2] \in Slots /\ mClients[l[2]] = l[1] /\ l = <<l[1], l[2]>>
    BY <2>1 DEF TypeOK, DeathFindsSlot
  <2>3. mClients[k] = c
    BY DEF ServiceDied, DeathFindsSlot
  <2>4. CASE l[2] = k
    \* Only the notice that is gone: the client's links went when it died.
    <3>1. l = <<c, k>> /\ c \notin alive
      BY <2>2, <2>3, <2>4 DEF ServiceDied, LinksOfLiving
    <3> QED BY <3>1 DEF ServiceDied, LinksOfLiving
  <2>5. CASE l[2] # k
    BY <1>1, <2>2, <2>5
  <2> QED BY <2>4, <2>5
<1>4. LinksOfLiving'
  BY DEF ServiceDied, LinksOfLiving
<1> QED BY <1>2, <1>3, <1>4

LEMMA DieSlots ==
    ASSUME SlotInv, NEW c \in Clients, Die(c)
    PROVE  SlotInv'
BY DEF SlotInv, Die, TypeOK, DeathFindsSlot, LinksOfLiving, Slots

LEMMA CallSlots ==
    ASSUME SlotInv, NEW c \in Clients, Call(c)
    PROVE  SlotInv'
<1>1. calls' \in [Clients -> Nat] /\ made' \in 0..MaxCalls
  BY MaxCallsAssumption DEF SlotInv, Call, TypeOK
<1> QED BY <1>1
  DEF SlotInv, Call, TypeOK, DeathFindsSlot, LinksOfLiving, Slots

LEMMA EventSlots ==
    ASSUME SlotInv,
           \/ SetNoCallback
           \/ \E e \in Events : LockForEvent(e)
           \/ \E m \in sending : Unlock(m)
    PROVE  SlotInv'
<1> USE DEF SlotInv
<1>1. CASE SetNoCallback
  BY <1>1 DEF SetNoCallback, TypeOK, DeathFindsSlot, LinksOfLiving, Slots
<1>2. ASSUME NEW e \in Events, LockForEvent(e) PROVE SlotInv'
  <2>1. sending' \subseteq [event : Events, i : Nat, size : 0..Len(mClients)]
    BY <1>2 DEF LockForEvent, TypeOK
  <2>2. due' \in [Events -> Seq(Clients \cup {Nobody})]
    BY <1>2 DEF LockForEvent, TypeOK
  <2> QED BY <1>2, <2>1, <2>2
    DEF LockForEvent, TypeOK, DeathFindsSlot, LinksOfLiving, Slots
<1>3. ASSUME NEW m \in sending, Unlock(m) PROVE SlotInv'
  BY <1>3 DEF Unlock, TypeOK, DeathFindsSlot, LinksOfLiving, Slots
<1> QED BY <1>1, <1>2, <1>3

LEMMA NotifySlots ==
    ASSUME SlotInv, NEW m \in sending, Notify(m)
    PROVE  SlotInv'
<1> USE DEF SlotInv
<1>1. heard' \in [Clients -> Seq(Events)]
  BY DEF Notify, TypeOK
<1>2. NextNotify(m) \in [event : Events, i : Nat, size : 0..Len(mClients)]
  <2> DEFINE N == 0..Len(mClients)
  <2> HIDE DEF N
  <2>1. m \in [event : Events, i : Nat, size : N]
    BY DEF TypeOK, N
  <2>2. m.i + 1 \in Nat
    BY <2>1
  <2>3. NextNotify(m) \in [event : Events, i : Nat, size : N]
    BY <2>1, <2>2 DEF NextNotify
  <2> QED BY <2>3 DEF N
<1>3. sending' \subseteq [event : Events, i : Nat, size : 0..Len(mClients)]
  BY <1>2 DEF Notify, TypeOK
<1> QED BY <1>1, <1>3 DEF Notify, TypeOK, DeathFindsSlot, LinksOfLiving, Slots

\* The slots' invariant.
LEMMA InitSlots == Init => SlotInv
<1> SUFFICES ASSUME Init PROVE SlotInv
  OBVIOUS
<1>1. made \in 0..MaxCalls /\ calls \in [Clients -> Nat]
  BY MaxCallsAssumption DEF Init
<1>2. /\ mClients \in Seq(Clients \cup {Nobody})
      /\ heard \in [Clients -> Seq(Events)]
      /\ due \in [Events -> Seq(Clients \cup {Nobody})]
  BY DEF Init
<1>3. TypeOK
  BY <1>1, <1>2 DEF Init, TypeOK
<1> QED BY <1>3 DEF Init, SlotInv, DeathFindsSlot, LinksOfLiving

LEMMA StepSlots == SlotInv /\ [Next]_vars => SlotInv'
<1> SUFFICES ASSUME SlotInv, [Next]_vars PROVE SlotInv'
  OBVIOUS
<1>1. CASE UNCHANGED vars
  BY <1>1 DEF vars, SlotInv, TypeOK, DeathFindsSlot, LinksOfLiving, Slots
<1>2. CASE Next
  BY <1>2, SetCallbackSlots, ServiceDiedSlots, DieSlots, CallSlots,
     EventSlots, NotifySlots DEF Next, Server
<1> QED BY <1>1, <1>2

\* TypeOK: the types of the state, for any clients, events and calls.
THEOREM TypeCorrect == Spec => []TypeOK
<1>1. SlotInv => TypeOK
  BY DEF SlotInv
<1> QED BY <1>1, InitSlots, StepSlots, PTL DEF Spec

\* A death notice of DroidTvServer finds its own client in the slot.
THEOREM DeathFinds == Spec => []DeathFindsSlot
<1>1. SlotInv => DeathFindsSlot
  BY DEF SlotInv
<1> QED BY <1>1, InitSlots, StepSlots, PTL DEF Spec
-----------------------------------------------------------------------------
(* The order of the events *)

\* Nothing that OrderInv reads has changed.
LEMMA OrderKept ==
    ASSUME OrderInv, heard' = heard, todo' = todo, sending' \subseteq sending
    PROVE  OrderInv'
<1>1. \A c, e, f : Before(c, e, f)' <=> Before(c, e, f)
  BY DEF Before
<1> HIDE DEF Before
<1> QED BY <1>1 DEF OrderInv, OneSender, TodoUnheard, SentLast, SameOrder

LEMMA LockOrder ==
    ASSUME TypeOK, OrderInv, NEW e \in Events, LockForEvent(e)
    PROVE  OrderInv'
<1>1. \A c, x, y : Before(c, x, y)' <=> Before(c, x, y)
  BY DEF LockForEvent, Before
<1>2. OneSender' /\ TodoUnheard'
  BY DEF LockForEvent, OrderInv, OneSender, TodoUnheard
<1>3. \A c \in Clients : \A f \in Events : ~Before(c, e, f)
  BY DEF OrderInv, LockForEvent, TodoUnheard, Before
<1>4. SentLast' /\ SameOrder'
  BY <1>1, <1>3 DEF LockForEvent, OrderInv, SentLast, SameOrder
<1> QED BY <1>2, <1>4 DEF OrderInv

\* A client that hears of e hears of it after all that it has heard before.
LEMMA BeforeAppend ==
    ASSUME NEW m \in sending, TypeOK, Notify(m),
           NEW d \in Clients, NEW x, NEW y, Before(d, x, y)'
    PROVE  Before(d, x, y) \/ y = m.event
<1>1. CASE heard'[d] = heard[d]
  BY <1>1 DEF Before
<1>2. CASE heard'[d] = Append(heard[d], m.event)
  <2> DEFINE h == heard[d]
  <2>1. h \in Seq(Events) /\ m.event \in Events /\ Len(h) \in Nat
    BY DEF TypeOK
  <2>2. PICK i, j \in 1..Len(heard'[d]) :
           i < j /\ heard'[d][i] = x /\ heard'[d][j] = y
    BY DEF Before
  <2> HIDE DEF h
  <2>3. heard'[d] = Append(h, m.event)
    BY <1>2 DEF h
  <2>4. /\ Len(heard'[d]) = Len(h) + 1
        /\ \A k \in 1..Len(h) : heard'[d][k] = h[k]
        /\ heard'[d][Len(h) + 1] = m.event
    BY <2>1, <2>3, AppendProperties
  <2>5. CASE j = Len(h) + 1
    BY <2>2, <2>4, <2>5
  <2>6. CASE j # Len(h) + 1
    <3>1. i \in 1..Len(h) /\ j \in 1..Len(h)
      BY <2>1, <2>2, <2>4, <2>6
    <3> QED BY <2>2, <2>4, <3>1 DEF Before, h
  <2> QED BY <2>5, <2>6
<1> QED BY <1>1, <1>2 DEF Notify, TypeOK

LEMMA NotifyOrder ==
    ASSUME TypeOK, OrderInv, NEW m \in sending, Notify(m)
    PROVE  OrderInv'
<1> DEFINE n == NextNotify(m)
<1>1. n.event = m.event /\ m.event \in Events
  BY DEF TypeOK, NextNotify
<1>2. sending = {m} /\ m.event \notin todo
  BY DEF OrderInv, OneSender
<1>3. sending' = {n} /\ todo' = todo
  BY <1>2 DEF Notify
<1> HIDE DEF n
<1>4. OneSender'
  BY <1>1, <1>2, <1>3 DEF OneSender
<1>5. TodoUnheard'
  <2> SUFFICES ASSUME NEW e \in todo, NEW c \in Clients,
                      NEW i \in 1..Len(heard'[c])
               PROVE  heard'[c][i] # e
    BY <1>3 DEF TodoUnheard
  <2>1. CASE heard'[c] = heard[c]
    BY <2>1 DEF OrderInv, TodoUnheard
  <2>2. CASE heard'[c] = Append(heard[c], m.event)
    <3>1. heard[c] \in Seq(Events) /\ Len(heard[c]) \in Nat
      BY DEF TypeOK
    <3>2. /\ Len(heard'[c]) = Len(heard[c]) + 1
          /\ \A k \in 1..Len(heard[c]) : heard'[c][k] = heard[c][k]
          /\ heard'[c][Len(heard[c]) + 1] = m.event
      BY <1>1, <2>2, <3>1, AppendProperties
    <3>3. CASE i = Len(heard[c]) + 1
      BY <1>2, <3>2, <3>3
    <3>4. CASE i # Len(heard[c]) + 1
      <4>1. i \in 1..Len(heard[c])
        BY <3>1, <3>2, <3>4
      <4> QED BY <3>2, <4>1 DEF OrderInv, TodoUnheard
    <3> QED BY <3>3, <3>4
  <2> QED BY <2>1, <2>2 DEF Notify, TypeOK
<1>6. ASSUME NEW c \in Clients, NEW f \in Events, f # m.event
      PROVE  ~Before(c, m.event, f)'
  <2>1. ~Before(c, m.event, f)
    BY <1>6 DEF OrderInv, SentLast
  <2> QED BY <1>6, <2>1, BeforeAppend
<1>7. SentLast'
  BY <1>1, <1>3, <1>6 DEF SentLast
<1>8. SameOrder'
  <2> SUFFICES ASSUME NEW c \in Clients, NEW d \in Clients,
                      NEW e \in Events, NEW f \in Events, e # f,
                      Before(c, e, f)'
               PROVE  ~Before(d, f, e)'
    BY DEF SameOrder
  <2>1. CASE f = m.event
    BY <1>6, <2>1
  <2>2. CASE e = m.event
    BY <1>6, <2>2
  <2>3. CASE e # m.event /\ f # m.event
    <3>1. Before(c, e, f)
      BY <2>3, BeforeAppend
    <3>2. ~Before(d, f, e)
      BY <3>1 DEF OrderInv, SameOrder
    <3> QED BY <2>3, <3>2, BeforeAppend
  <2> QED BY <2>1, <2>2, <2>3
<1> QED BY <1>4, <1>5, <1>7, <1>8 DEF OrderInv

LEMMA InitOrder == Init => OrderInv
<1> SUFFICES ASSUME Init PROVE OrderInv
  OBVIOUS
<1>1. \A c \in Clients : heard[c] = <<>> /\ Len(heard[c]) = 0
  BY DEF Init
<1> QED BY <1>1
  DEF Init, OrderInv, OneSender, TodoUnheard, SentLast, SameOrder, Before

LEMMA StepOrder == TypeOK /\ OrderInv /\ [Next]_vars => OrderInv'
<1> SUFFICES ASSUME TypeOK, OrderInv, [Next]_vars PROVE OrderInv'
  OBVIOUS
<1>1. CASE UNCHANGED vars
  BY <1>1, OrderKept DEF vars
<1>2. ASSUME NEW c \in Clients, Call(c) \/ Die(c) \/ SetCallback(c)
      PROVE  OrderInv'
  BY <1>2, OrderKept DEF Call, Die, SetCallback
<1>3. ASSUME NEW c \in Clients, NEW k \in Slots, ServiceDied(c, k)
      PROVE  OrderInv'
  BY <1>3, OrderKept DEF ServiceDied
<1>4. CASE SetNoCallback
  BY <1>4, OrderKept DEF SetNoCallback
<1>5. ASSUME NEW m \in sending, Unlock(m) PROVE OrderInv'
  BY <1>5, OrderKept DEF Unlock
<1> QED BY <1>1, <1>2, <1>3, <1>4, <1>5, LockOrder, NotifyOrder
  DEF Next, Server

\* onEvent tells all clients of the events in one order, for any number of
\* clients, registrations and events.
THEOREM OneOrder == Spec => []SameOrder
<1>1. SlotInv /\ [Next]_vars => TypeOK
  BY DEF SlotInv
<1>2. Init => OrderInv
  BY InitOrder
<1>3. OrderInv => SameOrder
  BY DEF OrderInv
<1> QED BY <1>1, <1>2, <1>3, InitSlots, StepSlots, StepOrder, PTL DEF Spec
-----------------------------------------------------------------------------
(* Everybody hears *)

\* How often x is among the first n of s.
Among(s, x, n) == Cardinality({i \in 1..n : s[i] = x})

\* Half way through onEvent the slots are those the event was sent to, and its slots so far have
\* heard; all of those of the events before have.
Progress ==
    /\ \A m \in sending : /\ m.size = Len(mClients) /\ m.i \in 1..(m.size + 1)
                          /\ due[m.event] = mClients
                          /\ \A c \in alive : Times(heard[c], m.event) = Among(mClients, c, m.i - 1)
    /\ \A e \in Events \ todo : (\A m \in sending : m.event # e) =>
          \A c \in alive : Times(heard[c], e) = Times(due[e], c)

LEMMA AmongNone == ASSUME NEW s, NEW x PROVE Among(s, x, 0) = 0
<1>1. {i \in 1..0 : s[i] = x} = {}
  OBVIOUS
<1> QED BY <1>1, FS_EmptySet DEF Among

\* One more place counts if x is there.
LEMMA AmongNext ==
    ASSUME NEW s, NEW x, NEW n \in Nat
    PROVE  /\ s[n + 1] = x => Among(s, x, n + 1) = Among(s, x, n) + 1
           /\ s[n + 1] # x => Among(s, x, n + 1) = Among(s, x, n)
<1> DEFINE T == {i \in 1..n : s[i] = x}
           U == {i \in 1..(n + 1) : s[i] = x}
<1>1. IsFiniteSet(1..n)
  BY FS_Interval
<1>2. IsFiniteSet(T) /\ n + 1 \notin T
  BY <1>1, FS_Subset
<1>3. ASSUME s[n + 1] = x PROVE U = T \cup {n + 1}
  BY <1>3
<1>4. ASSUME s[n + 1] # x PROVE U = T
  BY <1>4
<1>5. ASSUME s[n + 1] = x PROVE Cardinality(U) = Cardinality(T) + 1
  <2> HIDE DEF T, U
  <2> QED BY <1>2, <1>3, <1>5, FS_AddElement
<1>6. ASSUME s[n + 1] # x PROVE Cardinality(U) = Cardinality(T)
  BY <1>4, <1>6
<1> QED BY <1>5, <1>6 DEF Among

\* Who is told of y has heard of y once more, and of nothing else.
LEMMA TimesAppend ==
    ASSUME NEW S, NEW s \in Seq(S), NEW y \in S, NEW x
    PROVE  /\ y = x => Times(Append(s, y), x) = Times(s, x) + 1
           /\ y # x => Times(Append(s, y), x) = Times(s, x)
<1> DEFINE a == Append(s, y)
           n == Len(s)
<1>1. n \in Nat /\ Len(a) = n + 1 /\ a[n + 1] = y /\ \A i \in 1..n : a[i] = s[i]
  BY AppendProperties
<1> HIDE DEF a, n
<1>2. {i \in 1..n : a[i] = x} = {i \in 1..n : s[i] = x}
  BY <1>1
<1>3. Times(s, x) = Among(a, x, n) /\ Times(a, x) = Among(a, x, n + 1)
  BY <1>1, <1>2 DEF Times, Among, n
<1> QED BY <1>1, <1>3, AmongNext DEF a

\* Of what nobody has heard, nobody has heard.
LEMMA UnheardNone ==
    ASSUME TodoUnheard, NEW e \in todo, NEW c \in Clients
    PROVE  Times(heard[c], e) = 0
<1>1. {i \in 1..Len(heard[c]) : heard[c][i] = e} = {}
  BY DEF TodoUnheard
<1> QED BY <1>1, FS_EmptySet DEF Times

LEMMA LockProgress ==
    ASSUME SlotInv, OrderInv, Progress, NEW e \in Events, LockForEvent(e)
    PROVE  Progress'
<1> DEFINE m == [event |-> e, i |-> 1, size |-> Len(mClients)]
<1>1. /\ sending = {} /\ sending' = {m} /\ todo' = todo \ {e} /\ e \in todo
      /\ UNCHANGED <<mClients, heard, alive>>
      /\ due' = [due EXCEPT ![e] = mClients]
  BY DEF LockForEvent, Locked
<1>2. m.event = e /\ m.i = 1 /\ m.size = Len(mClients)
  OBVIOUS
<1>3. Len(mClients) \in Nat /\ due \in [Events -> Seq(Clients \cup {Nobody})] /\ alive \subseteq Clients
  BY DEF SlotInv, TypeOK
<1> HIDE DEF m
<1>4. due'[e] = mClients /\ \A f \in Events : f # e => due'[f] = due[f]
  BY <1>1, <1>3
<1>5. ASSUME NEW c \in alive PROVE Times(heard[c], e) = Among(mClients, c, 0)
  BY <1>1, <1>3, UnheardNone, AmongNone DEF OrderInv
<1>6. ASSUME NEW n \in sending'
      PROVE  /\ n.size = Len(mClients') /\ n.i \in 1..(n.size + 1)
             /\ due'[n.event] = mClients'
             /\ \A c \in alive' : Times(heard'[c], n.event) = Among(mClients', c, n.i - 1)
  <2>1. n = m /\ n.i - 1 = 0
    BY <1>1, <1>2
  <2>2. n.size = Len(mClients') /\ n.i \in 1..(n.size + 1)
    BY <1>1, <1>2, <1>3, <2>1
  <2> QED BY <1>1, <1>2, <1>4, <1>5, <2>1, <2>2
<1>7. ASSUME NEW f \in Events \ todo', \A n \in sending' : n.event # f, NEW c \in alive'
      PROVE  Times(heard'[c], f) = Times(due'[f], c)
  <2>1. f # e /\ f \in Events \ todo
    BY <1>1, <1>2, <1>7
  <2> QED BY <1>1, <1>4, <2>1 DEF Progress
<1> QED BY <1>6, <1>7 DEF Progress

LEMMA NotifyProgress ==
    ASSUME SlotInv, OrderInv, Progress, NEW m \in sending, Notify(m)
    PROVE  Progress'
<1> DEFINE n == NextNotify(m)
           d == mClients[m.i]
<1>1. sending = {m}
  BY DEF OrderInv, OneSender
<1>2. sending' = {n} /\ UNCHANGED <<mClients, alive, todo, due>> /\ m.i <= m.size
  BY <1>1 DEF Notify
<1>3. /\ m.event \in Events /\ m.i \in Nat /\ m.size \in Nat
      /\ heard \in [Clients -> Seq(Events)] /\ alive \subseteq Clients
  BY DEF SlotInv, TypeOK
<1>4. n.event = m.event /\ n.i = m.i + 1 /\ n.size = m.size
  BY DEF NextNotify, SlotInv, TypeOK
<1>5. /\ m.size = Len(mClients) /\ m.i \in 1..(m.size + 1) /\ due[m.event] = mClients
      /\ \A c \in alive : Times(heard[c], m.event) = Among(mClients, c, m.i - 1)
  BY DEF Progress
<1>6. heard' = IF d \in alive THEN [heard EXCEPT ![d] = Append(@, m.event)] ELSE heard
  BY DEF Notify
<1> HIDE DEF n, d
<1>7. ASSUME NEW c \in alive
      PROVE  /\ c = d => heard'[c] = Append(heard[c], m.event)
             /\ c # d => heard'[c] = heard[c]
  BY <1>3, <1>6
<1>8. ASSUME NEW c \in alive PROVE Times(heard'[c], m.event) = Among(mClients, c, m.i)
  <2>1. m.i - 1 \in Nat /\ (m.i - 1) + 1 = m.i
    BY <1>5
  <2>2. /\ mClients[m.i] = c => Among(mClients, c, m.i) = Among(mClients, c, m.i - 1) + 1
        /\ mClients[m.i] # c => Among(mClients, c, m.i) = Among(mClients, c, m.i - 1)
    BY <2>1, AmongNext
  <2>3. heard[c] \in Seq(Events)
    BY <1>3
  <2>4. Times(Append(heard[c], m.event), m.event) = Times(heard[c], m.event) + 1
    BY <1>3, <2>3, TimesAppend
  <2> QED BY <1>5, <1>7, <2>2, <2>4 DEF d
<1>9. ASSUME NEW c \in alive, NEW e \in Events, e # m.event
      PROVE  Times(heard'[c], e) = Times(heard[c], e)
  <2>1. heard[c] \in Seq(Events)
    BY <1>3
  <2>2. Times(Append(heard[c], m.event), e) = Times(heard[c], e)
    BY <1>3, <1>9, <2>1, TimesAppend
  <2> QED BY <1>7, <2>2
<1>10. ASSUME NEW k \in sending'
       PROVE  /\ k.size = Len(mClients') /\ k.i \in 1..(k.size + 1)
              /\ due'[k.event] = mClients'
              /\ \A c \in alive' : Times(heard'[c], k.event) = Among(mClients', c, k.i - 1)
  <2>1. k = n /\ k.i - 1 = m.i
    BY <1>2, <1>3, <1>4
  <2>2. k.i \in 1..(k.size + 1)
    BY <1>2, <1>3, <1>4, <2>1
  <2> QED BY <1>2, <1>4, <1>5, <1>8, <2>1, <2>2
<1>11. ASSUME NEW e \in Events \ todo', \A k \in sending' : k.event # e, NEW c \in alive'
       PROVE  Times(heard'[c], e) = Times(due'[e], c)
  <2>1. e # m.event /\ e \in Events \ todo /\ \A k \in sending : k.event # e
    BY <1>1, <1>2, <1>4, <1>11
  <2>2. Times(heard[c], e) = Times(due[e], c)
    BY <1>2, <2>1 DEF Progress
  <2> QED BY <1>2, <1>9, <2>1, <2>2
<1> QED BY <1>10, <1>11 DEF Progress

LEMMA UnlockProgress ==
    ASSUME SlotInv, OrderInv, Progress, NEW m \in sending, Unlock(m)
    PROVE  Progress'
<1>1. sending = {m} /\ sending' = {} /\ UNCHANGED <<mClients, alive, todo, due, heard>> /\ m.i > m.size
  BY DEF OrderInv, OneSender, Unlock
<1>2. /\ m.size = Len(mClients) /\ m.i \in 1..(m.size + 1) /\ due[m.event] = mClients
      /\ \A c \in alive : Times(heard[c], m.event) = Among(mClients, c, m.i - 1)
  BY DEF Progress
<1>3. m.size \in Nat
  BY DEF SlotInv, TypeOK
<1>4. m.i - 1 = Len(mClients)
  BY <1>1, <1>2, <1>3
<1>5. ASSUME NEW c \in alive PROVE Times(heard[c], m.event) = Times(due[m.event], c)
  BY <1>2, <1>4 DEF Among, Times
<1>6. ASSUME NEW e \in Events \ todo, NEW c \in alive PROVE Times(heard[c], e) = Times(due[e], c)
  BY <1>1, <1>5 DEF Progress
<1> QED BY <1>1, <1>6 DEF Progress

\* Who dies, calls or waits for the lock disturbs no event.
LEMMA OthersProgress ==
    ASSUME Progress, heard' = heard, todo' = todo, due' = due, sending' = sending,
           alive' \subseteq alive, sending = {} \/ mClients' = mClients
    PROVE  Progress'
<1> HIDE DEF Times, Among
<1> QED BY DEF Progress

LEMMA InitProgress == Init => Progress
BY DEF Init, Progress

LEMMA StepProgress == SlotInv /\ OrderInv /\ Progress /\ [Next]_vars => Progress'
<1> SUFFICES ASSUME SlotInv, OrderInv, Progress, [Next]_vars PROVE Progress'
  OBVIOUS
<1>1. CASE UNCHANGED vars
  BY <1>1, OthersProgress DEF vars
<1>2. ASSUME NEW c \in Clients, Call(c) \/ Die(c) \/ SetCallback(c) PROVE Progress'
  BY <1>2, OthersProgress DEF Call, Die, SetCallback, Locked
<1>3. ASSUME NEW c \in Clients, NEW k \in Slots, ServiceDied(c, k) PROVE Progress'
  BY <1>3, OthersProgress DEF ServiceDied, Locked
<1>4. CASE SetNoCallback
  BY <1>4, OthersProgress DEF SetNoCallback
<1> QED BY <1>1, <1>2, <1>3, <1>4, LockProgress, NotifyProgress, UnlockProgress DEF Next, Server

\* The clients of DroidTvServer are served, for any number of clients, registrations and events:
\* whoever lives hears every event once per slot, all hear in one order, and the notice of a death
\* finds the slot of the dead.
THEOREM EveryClientServed == Spec => []ClientsServed
<1>1. Progress => HeardByAll
  BY DEF Progress, HeardByAll, Locked
<1>2. SlotInv /\ OrderInv /\ Progress => ClientsServed
  BY <1>1 DEF SlotInv, OrderInv, ClientsServed
<1>3. SlotInv => TypeOK
  BY DEF SlotInv
<1> QED BY <1>2, <1>3, InitSlots, InitOrder, InitProgress, StepSlots, StepOrder, StepProgress, PTL
        DEF Spec

-----------------------------------------------------------------------------
(* The configuration file.                                                 *)

LineRecords == [type : Kinds, kind : Kinds, name : Seq(STRING), value : Value, at : Nat]
FileRecords == [kind : Kinds, name : Seq(STRING), value : Value]

IsSection(line, section) == line.type = "section" /\ line.kind = "section" /\ Begins(section, line.name)
IsKey(line, key) == line.type = "key" /\ Begins(key, line.name)

\* The first line of a section is a, the first of a key in it is b, and has the value v.
Reads(ls, section, key, v, a, b) ==
  /\ a \in DOMAIN ls /\ b \in DOMAIN ls /\ a < b
  /\ IsSection(ls[a], section) /\ \A j \in 1 .. (a - 1) : ~IsSection(ls[j], section)
  /\ IsKey(ls[b], key) /\ ls[b].value = v /\ ls[b].at = Len(ls[b].name)
  /\ \A j \in (a + 1) .. (b - 1) : ls[j].type # "section" /\ ~IsKey(ls[j], key)
Kept(ls, section, key, v) == \E a, b \in DOMAIN ls : Reads(ls, section, key, v, a, b)

LEMMA FirstOfIs ==
  ASSUME NEW S, NEW i \in S, S \subseteq Nat \ {0}, \A j \in S : i <= j
  PROVE  FirstOf(S) = i
<1>1. S # {}
  OBVIOUS
<1> DEFINE x == CHOOSE k \in S : \A j \in S : k <= j
<1>2. x \in S /\ \A j \in S : x <= j
  OBVIOUS
<1>3. x <= i /\ i <= x /\ x \in Nat /\ i \in Nat
  BY <1>2
<1>4. x = i
  BY <1>3
<1> QED BY <1>1, <1>4 DEF FirstOf

LEMMA FirstOfNone ==
  ASSUME NEW S, S \subseteq Nat \ {0}
  PROVE  /\ FirstOf(S) = 0 => S = {}
         /\ FirstOf(S) # 0 => FirstOf(S) \in S /\ \A j \in S : FirstOf(S) <= j
<1>1. CASE S = {}
  BY <1>1 DEF FirstOf
<1>2. CASE S # {}
  <2>1. PICK k \in S : \A j \in S : k <= j
    BY <1>2, LeastOf
  <2>2. FirstOf(S) = k
    BY <2>1, FirstOfIs
  <2> QED BY <2>1, <2>2
<1> QED BY <1>1, <1>2

\* SectionLine and KeyLine, said without FirstOf.
LEMMA SectionLineIs ==
  ASSUME lines \in Seq(LineRecords), NEW section
  PROVE  /\ SectionLine(section) = 0 => \A j \in DOMAIN lines : ~IsSection(lines[j], section)
         /\ SectionLine(section) # 0 =>
              /\ SectionLine(section) \in DOMAIN lines /\ IsSection(lines[SectionLine(section)], section)
              /\ \A j \in 1 .. (SectionLine(section) - 1) : ~IsSection(lines[j], section)
         /\ \A a \in DOMAIN lines : IsSection(lines[a], section) /\ (\A j \in 1 .. (a - 1) : ~IsSection(lines[j], section))
              => SectionLine(section) = a
<1> DEFINE S == {i \in DOMAIN lines : IsSection(lines[i], section)}
           k == FirstOf(S)
<1>1. S \subseteq Nat \ {0}
  OBVIOUS
<1>2. SectionLine(section) = k
  BY DEF SectionLine, IsSection
<1>3. /\ k = 0 => S = {}
      /\ k # 0 => k \in S /\ \A j \in S : k <= j
  BY <1>1, FirstOfNone
<1>4. ASSUME NEW a \in DOMAIN lines, IsSection(lines[a], section), \A j \in 1 .. (a - 1) : ~IsSection(lines[j], section)
      PROVE  k = a
  <2>1. a \in S /\ \A j \in S : a <= j
    BY <1>4
  <2> QED BY <1>1, <2>1, FirstOfIs
<1>5. ASSUME k # 0, NEW j \in 1 .. (k - 1) PROVE ~IsSection(lines[j], section)
  <2>1. k \in S /\ \A i \in S : k <= i
    BY <1>3, <1>5
  <2> HIDE DEF k
  <2>2. j \in DOMAIN lines /\ j \notin S
    BY <2>1
  <2> QED BY <2>2
<1>6. k # 0 => k \in DOMAIN lines /\ IsSection(lines[k], section)
  BY <1>3
<1>7. k = 0 => \A j \in DOMAIN lines : ~IsSection(lines[j], section)
  BY <1>3
<1> HIDE DEF k, S
<1> QED BY <1>2, <1>4, <1>5, <1>6, <1>7

LEMMA KeyLineIs ==
  ASSUME lines \in Seq(LineRecords), NEW sec \in Nat, NEW key
  PROVE  /\ KeyLine(sec, key) = 0 =>
              \A b \in (sec + 1) .. Len(lines) :
                (\A j \in (sec + 1) .. b : lines[j].type # "section") => ~IsKey(lines[b], key)
         /\ KeyLine(sec, key) # 0 =>
              /\ KeyLine(sec, key) \in (sec + 1) .. Len(lines) /\ IsKey(lines[KeyLine(sec, key)], key)
              /\ \A j \in (sec + 1) .. (KeyLine(sec, key) - 1) : lines[j].type # "section" /\ ~IsKey(lines[j], key)
         /\ \A b \in (sec + 1) .. Len(lines) :
              IsKey(lines[b], key) /\ (\A j \in (sec + 1) .. (b - 1) : lines[j].type # "section" /\ ~IsKey(lines[j], key))
              => KeyLine(sec, key) = b
<1> DEFINE S == {i \in DOMAIN lines : /\ i > sec /\ lines[i].type = "key" /\ Begins(key, lines[i].name)
                                      /\ \A j \in (sec + 1) .. i : lines[j].type # "section"}
           k == FirstOf(S)
<1>1. S \subseteq Nat \ {0}
  OBVIOUS
<1>2. KeyLine(sec, key) = k
  BY DEF KeyLine
<1>3. /\ k = 0 => S = {}
      /\ k # 0 => k \in S /\ \A j \in S : k <= j
  BY <1>1, FirstOfNone
<1>4. ASSUME NEW b \in (sec + 1) .. Len(lines), IsKey(lines[b], key),
             \A j \in (sec + 1) .. (b - 1) : lines[j].type # "section" /\ ~IsKey(lines[j], key)
      PROVE  k = b
  <2>1. b \in S
    <3>1. \A j \in (sec + 1) .. b : lines[j].type # "section"
      BY <1>4 DEF IsKey
    <3> QED BY <1>4, <3>1 DEF IsKey
  <2>2. \A j \in S : b <= j
    BY <1>4 DEF IsKey
  <2> QED BY <1>1, <2>1, <2>2, FirstOfIs
<1>5. ASSUME k = 0, NEW b \in (sec + 1) .. Len(lines), \A j \in (sec + 1) .. b : lines[j].type # "section"
      PROVE  ~IsKey(lines[b], key)
  BY <1>3, <1>5 DEF IsKey
<1>6. ASSUME k # 0
      PROVE  /\ k \in (sec + 1) .. Len(lines) /\ IsKey(lines[k], key)
             /\ \A j \in (sec + 1) .. (k - 1) : lines[j].type # "section" /\ ~IsKey(lines[j], key)
  <2>1. k \in S /\ \A j \in S : k <= j
    BY <1>3, <1>6
  <2> HIDE DEF k
  <2>2. k \in (sec + 1) .. Len(lines) /\ IsKey(lines[k], key)
    BY <2>1 DEF IsKey
  <2>3. ASSUME NEW j \in (sec + 1) .. (k - 1) PROVE lines[j].type # "section" /\ ~IsKey(lines[j], key)
    <3>1. lines[j].type # "section" /\ j \in DOMAIN lines /\ j > sec
      BY <2>1
    <3>2. \A i \in (sec + 1) .. j : lines[i].type # "section"
      BY <2>1
    <3>3. j \notin S
      BY <2>1
    <3> QED BY <3>1, <3>2, <3>3 DEF IsKey
  <2> QED BY <2>2, <2>3
<1> HIDE DEF k, S
<1> QED BY <1>2, <1>4, <1>5, <1>6

LEMMA KeptIsRead ==
  ASSUME lines \in Seq(LineRecords), NEW section, NEW key, NEW v, Kept(lines, section, key, v)
  PROVE  GetString(section, key, NoValue) = v
<1>1. PICK a, b \in DOMAIN lines : Reads(lines, section, key, v, a, b)
  BY DEF Kept
<1>2. SectionLine(section) = a /\ a \in Nat \ {0} /\ b \in (a + 1) .. Len(lines)
  BY <1>1, SectionLineIs DEF Reads
<1>3. KeyLine(a, key) = b
  BY <1>1, <1>2, KeyLineIs DEF Reads
<1>4. b # 0 /\ a # 0 /\ lines[b].at = Len(lines[b].name) /\ lines[b].value = v
  BY <1>1, <1>2 DEF Reads
<1> QED BY <1>2, <1>3, <1>4 DEF GetString

-----------------------------------------------------------------------------
(* Prefixes.                                                               *)

\* Two beginnings of one name: the shorter is a beginning of the longer.
LEMMA BeginningsNest ==
  ASSUME NEW s \in Seq(STRING), NEW t \in Seq(STRING), NEW n \in Seq(STRING), Begins(s, n), Begins(t, n)
  PROVE  Begins(s, t) \/ Begins(t, s)
<1>1. \A i \in 1 .. Len(s) : s[i] = n[i]
  BY DEF Begins
<1>2. \A i \in 1 .. Len(t) : t[i] = n[i]
  BY DEF Begins
<1>3. ASSUME NEW u \in Seq(STRING), NEW w \in Seq(STRING), Len(u) <= Len(w), \A i \in 1 .. Len(u) : u[i] = w[i]
      PROVE  Begins(u, w)
  <2>1. /\ SubSeq(w, 1, Len(u)) \in Seq(STRING) /\ Len(SubSeq(w, 1, Len(u))) = Len(u)
        /\ \A i \in 1 .. Len(u) : SubSeq(w, 1, Len(u))[i] = w[i]
    BY <1>3
  <2>2. SubSeq(w, 1, Len(u)) = u
    BY <1>3, <2>1
  <2> QED BY <1>3, <2>2 DEF Begins
<1>4. CASE Len(s) <= Len(t)
  <2>1. \A i \in 1 .. Len(s) : s[i] = t[i]
    BY <1>1, <1>2, <1>4
  <2> QED BY <1>3, <1>4, <2>1
<1>5. CASE Len(t) <= Len(s)
  <2>1. \A i \in 1 .. Len(t) : t[i] = s[i]
    BY <1>1, <1>2, <1>5
  <2> QED BY <1>3, <1>5, <2>1
<1> QED BY <1>4, <1>5

LEMMA BeginsItself == \A s \in Seq(STRING) : Begins(s, s)
<1> SUFFICES ASSUME NEW s \in Seq(STRING) PROVE Begins(s, s)
  OBVIOUS
<1>1. SubSeq(s, 1, Len(s)) = s
  OBVIOUS
<1> QED BY <1>1 DEF Begins

LEMMA OneSection ==
  ASSUME NEW s \in Sections, NEW t \in Sections, NEW line \in LineRecords, IsSection(line, s), IsSection(line, t)
  PROVE  s = t
<1>1. s \in Seq(STRING) /\ t \in Seq(STRING) /\ line.name \in Seq(STRING)
  BY SectionsAssumption DEF LineRecords
<1>2. Begins(s, t) \/ Begins(t, s)
  BY <1>1, BeginningsNest DEF IsSection
<1> QED BY <1>2, SectionsAssumption

\* A line that answers to a key that stands alone bears its name, and answers to no other.
LEMMA OneKey ==
  ASSUME NEW k \in AloneKeys, NEW key \in NamedKeys, Begins(k, key) \/ Begins(key, k)
  PROVE  key = k
BY DEF AloneKeys

-----------------------------------------------------------------------------
(* Setting.                                                                *)

\* m lines behind line p: what is inserted stands before the section, or in another one, or does
\* not matter.
LEMMA InsertKeeps ==
  ASSUME NEW ls \in Seq(LineRecords), NEW ms \in Seq(LineRecords), NEW p \in Nat, NEW m \in Nat, p <= Len(ls),
         Len(ms) = Len(ls) + m, \A i \in 1 .. p : ms[i] = ls[i], \A i \in (p + 1) .. Len(ls) : ms[i + m] = ls[i],
         NEW section, NEW key, NEW v, Kept(ls, section, key, v),
         \A x \in (p + 1) .. (p + m) : ~IsSection(ms[x], section),
         \/ p = 0
         \/ p \in DOMAIN ls /\ ls[p].type = "section" /\ ~IsSection(ls[p], section)
         \/ \A x \in (p + 1) .. (p + m) : ms[x].type # "section" /\ ~IsKey(ms[x], key)
  PROVE  Kept(ms, section, key, v)
<1>1. PICK a, b \in DOMAIN ls : Reads(ls, section, key, v, a, b)
  BY DEF Kept
<1>2. a \in 1 .. Len(ls) /\ b \in 1 .. Len(ls) /\ a < b /\ Len(ls) \in Nat /\ DOMAIN ms = 1 .. (Len(ls) + m)
  BY <1>1 DEF Reads
<1> DEFINE h(i) == IF i <= p THEN i ELSE i + m
<1>3. \A i \in 1 .. Len(ls) : h(i) \in DOMAIN ms /\ ms[h(i)] = ls[i]
  BY <1>2
<1>4. ASSUME NEW j \in DOMAIN ms
      PROVE  \/ j \in (p + 1) .. (p + m)
             \/ \E i \in 1 .. Len(ls) : h(i) = j
  <2>1. CASE j <= p
    <3>1. j \in 1 .. Len(ls) /\ h(j) = j
      BY <1>2, <2>1
    <3> QED BY <3>1
  <2>2. CASE j > p + m
    <3>1. j - m \in 1 .. Len(ls) /\ h(j - m) = j
      BY <1>2, <2>2
    <3> QED BY <3>1
  <2> QED BY <1>2, <2>1, <2>2
<1>5. h(a) \in Nat /\ h(b) \in Nat /\ h(a) < h(b)
  BY <1>2
<1>6. ASSUME NEW j \in 1 .. (h(a) - 1) PROVE ~IsSection(ms[j], section)
  <2>1. j \in DOMAIN ms
    <3>1. h(a) <= Len(ls) + m
      BY <1>2
    <3> HIDE DEF h
    <3> QED BY <1>2, <1>5, <3>1
  <2>2. CASE j \in (p + 1) .. (p + m)
    BY <2>2
  <2>3. ASSUME NEW i \in 1 .. Len(ls), h(i) = j PROVE ~IsSection(ms[j], section)
    <3>1. i \in 1 .. (a - 1)
      BY <1>2, <2>3
    <3> QED BY <1>1, <1>3, <2>3, <3>1 DEF Reads
  <2> QED BY <1>4, <2>1, <2>2, <2>3
<1>7. ASSUME NEW j \in (h(a) + 1) .. (h(b) - 1) PROVE ms[j].type # "section" /\ ~IsKey(ms[j], key)
  <2>1. j \in DOMAIN ms
    <3>1. h(b) <= Len(ls) + m
      BY <1>2
    <3> HIDE DEF h
    <3> QED BY <1>2, <1>5, <3>1
  <2>2. CASE j \in (p + 1) .. (p + m)
    <3>1. a <= p /\ p < b /\ p # 0
      BY <1>2, <2>2
    <3>2. CASE p \in DOMAIN ls /\ ls[p].type = "section" /\ ~IsSection(ls[p], section)
      <4>1. p # a
        BY <1>1, <3>2 DEF Reads
      <4>2. p \in (a + 1) .. (b - 1)
        BY <1>2, <3>1, <4>1
      <4> QED BY <1>1, <3>2, <4>2 DEF Reads
    <3> QED BY <2>2, <3>1, <3>2
  <2>3. ASSUME NEW i \in 1 .. Len(ls), h(i) = j PROVE ms[j].type # "section" /\ ~IsKey(ms[j], key)
    <3>1. i \in (a + 1) .. (b - 1)
      BY <1>2, <2>3
    <3> QED BY <1>1, <1>3, <2>3, <3>1 DEF Reads
  <2> QED BY <1>4, <2>1, <2>2, <2>3
<1>8. ms[h(a)] = ls[a] /\ ms[h(b)] = ls[b] /\ h(a) \in DOMAIN ms /\ h(b) \in DOMAIN ms
  BY <1>2, <1>3
<1> HIDE DEF h
<1>9. Reads(ms, section, key, v, h(a), h(b))
  BY <1>1, <1>5, <1>6, <1>7, <1>8 DEF Reads
<1> QED BY <1>8, <1>9 DEF Kept

LEMMA ShortSeqs ==
  ASSUME NEW S, NEW x \in S, NEW y \in S
  PROVE  /\ <<x>> \in Seq(S) /\ Len(<<x>>) = 1 /\ <<x>>[1] = x
         /\ <<x, y>> \in Seq(S) /\ Len(<<x, y>>) = 2 /\ <<x, y>>[1] = x /\ <<x, y>>[2] = y
OBVIOUS

LEMMA WiderSeq ==
  ASSUME NEW S, NEW T, S \subseteq T, NEW s \in Seq(S)
  PROVE  s \in Seq(T)
<1>1. s \in [1 .. Len(s) -> S] /\ Len(s) \in Nat
  OBVIOUS
<1>2. s \in [1 .. Len(s) -> T]
  BY <1>1
<1> QED BY <1>1, <1>2

LEMMA Joined ==
  ASSUME NEW S, NEW s \in Seq(S), NEW t \in Seq(S)
  PROVE  /\ s \o t \in Seq(S) /\ Len(s \o t) = Len(s) + Len(t)
         /\ \A i \in 1 .. Len(s) : (s \o t)[i] = s[i]
         /\ \A i \in 1 .. Len(t) : (s \o t)[Len(s) + i] = t[i]
OBVIOUS

LEMMA CutIs ==
  ASSUME NEW S, NEW s \in Seq(S), NEW p \in 1 .. Len(s)
  PROVE  LET front == SubSeq(s, 1, p)
             back == SubSeq(s, p + 1, Len(s))
         IN /\ front \in Seq(S) /\ Len(front) = p /\ \A i \in 1 .. p : front[i] = s[i]
            /\ back \in Seq(S) /\ Len(back) = Len(s) - p /\ \A i \in 1 .. (Len(s) - p) : back[i] = s[p + i]
OBVIOUS

LEMMA LineIs ==
  ASSUME NEW type \in Kinds, NEW name \in Seq(STRING), NEW value \in Value
  PROVE  /\ Line(type, name, value) \in LineRecords
         /\ Line(type, name, value).type = type /\ Line(type, name, value).name = name
         /\ Line(type, name, value).kind = type
         /\ Line(type, name, value).value = value /\ Line(type, name, value).at = Len(name)
<1>1. Len(name) \in Nat
  OBVIOUS
<1> QED BY <1>1 DEF Line, LineRecords

LEMMA RenamedIs ==
  ASSUME NEW line \in LineRecords, NEW name \in Seq(STRING), NEW value \in Value
  PROVE  LET r == [line EXCEPT !.name = name, !.value = value] IN
         r \in LineRecords /\ r.type = line.type /\ r.name = name /\ r.value = value /\ r.at = line.at
BY DEF LineRecords

\* The lines ms after a change, said line by line; sec and found are what was found before it.
SetIs(ms, section, key, value, sec, found) ==
  /\ ms \in Seq(LineRecords)
  /\ sec = 0 =>
       /\ Len(ms) = Len(lines) + 2 /\ ms[1] = Line("section", section, NoValue) /\ ms[2] = Line("key", key, value)
       /\ \A i \in 1 .. Len(lines) : ms[i + 2] = lines[i]
  /\ sec # 0 /\ found = 0 =>
       /\ Len(ms) = Len(lines) + 1 /\ ms[sec + 1] = Line("key", key, value)
       /\ \A i \in 1 .. sec : ms[i] = lines[i]
       /\ \A i \in (sec + 1) .. Len(lines) : ms[i + 1] = lines[i]
  /\ sec # 0 /\ found # 0 =>
       /\ DOMAIN ms = DOMAIN lines /\ \A i \in DOMAIN lines : i # found => ms[i] = lines[i]
       /\ ms[found].type = lines[found].type /\ ms[found].at = lines[found].at
       /\ ms[found].kind = lines[found].kind
       /\ ms[found].name = key /\ ms[found].value = value

LEMMA SetLines ==
  ASSUME lines \in Seq(LineRecords), NEW section, NEW key, NEW value,
         section \in Seq(STRING), key \in Seq(STRING), value \in Value
  PROVE  SetIs(SetString(section, key, value), section, key, value, SectionLine(section),
               KeyLine(SectionLine(section), key))
<1> DEFINE ms == SetString(section, key, value)
           sec == SectionLine(section)
           found == KeyLine(sec, key)
           line == Line("key", key, value)
<1>1. line \in LineRecords /\ Line("section", section, NoValue) \in LineRecords
  <2>1. Len(key) \in Nat /\ Len(section) \in Nat
    OBVIOUS
  <2>2. NoValue \in Value
    BY DEF Value, NoValue, Plain
  <2> QED BY <2>1, <2>2 DEF Line, LineRecords, Kinds
<1>2. sec # 0 => sec \in DOMAIN lines
  BY SectionLineIs
<1>3. sec # 0 /\ found # 0 => found \in DOMAIN lines
  BY <1>2, KeyLineIs
<1>4. CASE sec = 0
  <2> DEFINE head == Line("section", section, NoValue)
             two == <<head, line>>
  <2>1. ms = two \o lines
    BY <1>4 DEF SetString
  <2> HIDE DEF head, line
  <2>2. two \in Seq(LineRecords) /\ Len(two) = 2 /\ two[1] = head /\ two[2] = line
    BY <1>1, ShortSeqs DEF head, two
  <2> HIDE DEF two, ms
  <2>3. /\ ms \in Seq(LineRecords) /\ Len(ms) = Len(lines) + 2 /\ ms[1] = two[1] /\ ms[2] = two[2]
        /\ \A i \in 1 .. Len(lines) : ms[2 + i] = lines[i]
    <3>1. /\ ms \in Seq(LineRecords) /\ Len(ms) = Len(two) + Len(lines)
          /\ \A i \in 1 .. Len(two) : ms[i] = two[i]
          /\ \A i \in 1 .. Len(lines) : ms[Len(two) + i] = lines[i]
      <4>1. two \in Seq(LineRecords) /\ lines \in Seq(LineRecords)
        BY <2>2
      <4> QED BY <2>1, <4>1
    <3>2. Len(two) = 2 /\ Len(lines) \in Nat
      BY <2>2
    <3>3. Len(ms) = Len(lines) + 2
      BY <3>1, <3>2
    <3>4. 1 \in 1 .. Len(two) /\ 2 \in 1 .. Len(two)
      BY <3>2
    <3>5. \A i \in 1 .. Len(lines) : ms[2 + i] = lines[i]
      BY <3>1, <3>2
    <3>6. ms[1] = two[1] /\ ms[2] = two[2]
      BY <3>1, <3>4
    <3> QED BY <3>1, <3>3, <3>5, <3>6
  <2>4. \A i \in 1 .. Len(lines) : i + 2 = 2 + i
    OBVIOUS
  <2> QED BY <1>4, <2>2, <2>3, <2>4 DEF SetIs, ms, line, head
<1>5. CASE sec # 0 /\ found = 0
  <2> DEFINE front == SubSeq(lines, 1, sec)
             back == SubSeq(lines, sec + 1, Len(lines))
  <2>1. ms = front \o <<line>> \o back
    BY <1>5 DEF SetString, InsertKeyLine
  <2>2. /\ front \in Seq(LineRecords) /\ Len(front) = sec /\ \A i \in 1 .. sec : front[i] = lines[i]
        /\ back \in Seq(LineRecords) /\ Len(back) = Len(lines) - sec
        /\ \A i \in 1 .. (Len(lines) - sec) : back[i] = lines[sec + i]
        /\ sec \in Nat /\ sec <= Len(lines)
    <3>1. sec \in 1 .. Len(lines) /\ lines \in Seq(LineRecords)
      BY <1>2, <1>5
    <3> HIDE DEF sec
    <3>2. /\ front \in Seq(LineRecords) /\ Len(front) = sec /\ \A i \in 1 .. sec : front[i] = lines[i]
          /\ back \in Seq(LineRecords) /\ Len(back) = Len(lines) - sec
          /\ \A i \in 1 .. (Len(lines) - sec) : back[i] = lines[sec + i]
      BY <3>1, CutIs, Zenon
    <3>3. sec \in Nat /\ sec <= Len(lines)
      BY <3>1
    <3> QED BY <3>2, <3>3
  <2> HIDE DEF front, back, ms, line, sec
  <2>3. <<line>> \in Seq(LineRecords) /\ Len(<<line>>) = 1 /\ <<line>>[1] = line
    BY <1>1, ShortSeqs
  <2> DEFINE head == front \o <<line>>
  <2>4. /\ head \in Seq(LineRecords) /\ Len(head) = sec + 1 /\ head[sec + 1] = line
        /\ \A i \in 1 .. sec : head[i] = lines[i]
    BY <2>2, <2>3
  <2>5. ms = head \o back
    BY <2>1
  <2> HIDE DEF head
  <2>6. /\ ms \in Seq(LineRecords) /\ Len(ms) = Len(lines) + 1
        /\ \A i \in 1 .. (sec + 1) : ms[i] = head[i]
        /\ \A i \in 1 .. (Len(lines) - sec) : ms[sec + 1 + i] = back[i]
    BY <2>2, <2>4, <2>5
  <2>7. ASSUME NEW i \in (sec + 1) .. Len(lines) PROVE ms[i + 1] = lines[i]
    <3>1. i - sec \in 1 .. (Len(lines) - sec) /\ sec + 1 + (i - sec) = i + 1 /\ sec + (i - sec) = i
      BY <2>2
    <3>2. ms[sec + 1 + (i - sec)] = back[i - sec] /\ back[i - sec] = lines[sec + (i - sec)]
      BY <2>2, <2>6, <3>1
    <3> QED BY <3>1, <3>2
  <2>8. ms[sec + 1] = line /\ \A i \in 1 .. sec : ms[i] = lines[i]
    BY <2>2, <2>4, <2>6
  <2> QED BY <1>5, <2>6, <2>7, <2>8 DEF SetIs, ms, line, sec
<1>6. CASE sec # 0 /\ found # 0
  <2>1. ms = [lines EXCEPT ![found] = [lines[found] EXCEPT !.name = key, !.value = value]]
    BY <1>6 DEF SetString
  <2>2. lines[found] \in LineRecords
    BY <1>3, <1>6
  <2>3. [lines[found] EXCEPT !.name = key, !.value = value] \in LineRecords
    BY <2>2, RenamedIs
  <2> DEFINE r == [lines[found] EXCEPT !.name = key, !.value = value]
  <2> HIDE DEF r, found, ms
  <2>4. ms = [lines EXCEPT ![found] = r] /\ r \in LineRecords /\ found \in DOMAIN lines
    BY <1>3, <1>6, <2>1, <2>3 DEF r
  <2>5. ms \in Seq(LineRecords) /\ DOMAIN ms = DOMAIN lines /\ ms[found] = r /\ \A i \in DOMAIN lines : i # found => ms[i] = lines[i]
    BY <2>4
  <2>6. r.type = lines[found].type /\ r.kind = lines[found].kind /\ r.name = key /\ r.value = value /\ r.at = lines[found].at
    <3> DEFINE l == lines[found]
    <3>1. l \in LineRecords /\ r = [l EXCEPT !.name = key, !.value = value]
      BY <2>2 DEF r
    <3> HIDE DEF l
    <3>2. r.type = l.type /\ r.kind = l.kind /\ r.name = key /\ r.value = value /\ r.at = l.at
      BY <3>1 DEF LineRecords
    <3> QED BY <3>2 DEF l
  <2> QED BY <1>6, <2>5, <2>6 DEF SetIs, ms, found
<1> QED BY <1>4, <1>5, <1>6

\* Every key's line bears a name that was set or shipped; a name that stands alone is in its place.
KeysNamed(ls) ==
  \A i \in DOMAIN ls : ls[i].type = "key" =>
    ls[i].name \in NamedKeys /\ (ls[i].name \in AloneKeys => ls[i].at = Len(ls[i].name))

LEMMA KeysAreNames ==
  /\ AloneKeys \subseteq ConfigKeys /\ ConfigKeys \subseteq NamedKeys
  /\ ConfigKeys \subseteq Seq(STRING) /\ Sections \subseteq Seq(STRING)
BY ConfigAssumption, SectionsAssumption DEF AloneKeys, NamedKeys

LEMMA KindsDiffer == "section" # "key" /\ "section" \in Kinds /\ "key" \in Kinds /\ NoValue \in Value
BY DEF Kinds, Value, NoValue, Plain

\* What stands at the places a change touches.
LEMMA SetNames ==
  ASSUME lines \in Seq(LineRecords), KeysNamed(lines), NEW section \in Sections, NEW key \in ConfigKeys,
         NEW value \in Value
  PROVE  KeysNamed(SetString(section, key, value))
<1> DEFINE ms == SetString(section, key, value)
           sec == SectionLine(section)
           found == KeyLine(sec, key)
           line == Line("key", key, value)
           head == Line("section", section, NoValue)
<1>1. section \in Seq(STRING) /\ key \in Seq(STRING) /\ key \in NamedKeys
  BY KeysAreNames
<1>2. line.type = "key" /\ line.name = key /\ line.at = Len(key) /\ head.type = "section"
  BY <1>1, KindsDiffer, LineIs
<1>3. sec # 0 => sec \in DOMAIN lines
  BY SectionLineIs
<1>4. sec # 0 /\ found # 0 => found \in DOMAIN lines /\ IsKey(lines[found], key)
  BY <1>3, KeyLineIs
<1>5. SetIs(ms, section, key, value, sec, found)
  BY <1>1, SetLines
<1> HIDE DEF ms, sec, found, line, head
<1> SUFFICES ASSUME NEW i \in DOMAIN ms, ms[i].type = "key"
             PROVE  ms[i].name \in NamedKeys /\ (ms[i].name \in AloneKeys => ms[i].at = Len(ms[i].name))
  BY DEF KeysNamed, ms
<1>6. ASSUME NEW j \in DOMAIN lines, ms[i] = lines[j]
      PROVE  ms[i].name \in NamedKeys /\ (ms[i].name \in AloneKeys => ms[i].at = Len(ms[i].name))
  BY <1>6 DEF KeysNamed
<1>7. CASE sec = 0
  <2>1. i = 1 \/ i = 2 \/ \E j \in DOMAIN lines : ms[i] = lines[j]
    <3>1. i \in 1 .. (Len(lines) + 2)
      BY <1>5, <1>7 DEF SetIs, line, head
    <3>2. CASE i > 2
      <4>1. i - 2 \in 1 .. Len(lines) /\ (i - 2) + 2 = i
        BY <3>1, <3>2
      <4> QED BY <1>5, <1>7, <4>1 DEF SetIs, line, head
    <3> QED BY <3>1, <3>2
  <2>2. i # 1
    BY <1>2, <1>5, <1>7, KindsDiffer DEF SetIs, line, head
  <2> QED BY <1>1, <1>2, <1>5, <1>6, <1>7, <2>1, <2>2 DEF SetIs, line, head
<1>8. CASE sec # 0 /\ found = 0
  <2>1. i = sec + 1 \/ \E j \in DOMAIN lines : ms[i] = lines[j]
    <3>1. i \in 1 .. (Len(lines) + 1) /\ sec \in 1 .. Len(lines)
      BY <1>3, <1>5, <1>8 DEF SetIs, line, head
    <3>2. CASE i > sec + 1
      <4>1. i - 1 \in (sec + 1) .. Len(lines) /\ (i - 1) + 1 = i
        BY <3>1, <3>2
      <4>2. ms[(i - 1) + 1] = lines[i - 1]
        BY <1>5, <1>8, <4>1 DEF SetIs
      <4>3. i - 1 \in DOMAIN lines
        BY <3>1, <4>1
      <4> QED BY <4>1, <4>2, <4>3
    <3>3. CASE i <= sec
      <4>1. i \in 1 .. sec /\ i \in DOMAIN lines
        BY <3>1, <3>3
      <4> QED BY <1>5, <1>8, <4>1 DEF SetIs, line, head
    <3> QED BY <3>1, <3>2, <3>3
  <2> QED BY <1>1, <1>2, <1>5, <1>6, <1>8, <2>1 DEF SetIs, line, head
<1>9. CASE sec # 0 /\ found # 0
  <2>1. CASE i = found
    <3>1. lines[found] \in LineRecords /\ lines[found].type = "key" /\ Begins(key, lines[found].name)
      BY <1>4, <1>9 DEF IsKey
    <3>2. ms[i].name = key /\ ms[i].at = lines[found].at
      BY <1>1, <1>5, <1>9, <2>1, <3>1 DEF SetIs, line, head
    <3>3. ASSUME key \in AloneKeys PROVE ms[i].at = Len(key)
      <4>1. lines[found].name \in NamedKeys
        BY <1>4, <1>9, <3>1 DEF KeysNamed
      <4>2. lines[found].name = key
        BY <3>1, <3>3, <4>1, OneKey
      <4> QED BY <1>4, <1>9, <3>1, <3>2, <3>3, <4>2 DEF KeysNamed
    <3> QED BY <1>1, <3>2, <3>3
  <2>2. CASE i # found
    BY <1>5, <1>6, <1>9, <2>2 DEF SetIs, line, head
  <2> QED BY <2>1, <2>2
<1> QED BY <1>7, <1>8, <1>9

LEMMA SetIsRead ==
  ASSUME lines \in Seq(LineRecords), KeysNamed(lines), NEW section \in Sections, NEW key \in AloneKeys,
         NEW value \in Value
  PROVE  Kept(SetString(section, key, value), section, key, value)
<1> DEFINE ms == SetString(section, key, value)
           sec == SectionLine(section)
           found == KeyLine(sec, key)
           line == Line("key", key, value)
           head == Line("section", section, NoValue)
<1>1. section \in Seq(STRING) /\ key \in Seq(STRING) /\ key \in NamedKeys /\ key \in ConfigKeys
  BY KeysAreNames
<1>2. /\ line.type = "key" /\ line.name = key /\ line.at = Len(key) /\ line.value = value
      /\ head.type = "section" /\ head.kind = "section" /\ head.name = section
  BY <1>1, KindsDiffer, LineIs
<1>3. sec # 0 =>
        /\ sec \in DOMAIN lines /\ IsSection(lines[sec], section)
        /\ \A j \in 1 .. (sec - 1) : ~IsSection(lines[j], section)
  BY SectionLineIs
<1>4. sec # 0 /\ found # 0 =>
        /\ found \in (sec + 1) .. Len(lines) /\ IsKey(lines[found], key)
        /\ \A j \in (sec + 1) .. (found - 1) : lines[j].type # "section" /\ ~IsKey(lines[j], key)
  BY <1>3, KeyLineIs
<1>5. SetIs(ms, section, key, value, sec, found)
  BY <1>1, SetLines
<1>6. IsSection(head, section) /\ IsKey(line, key)
  BY <1>1, <1>2, BeginsItself DEF IsSection, IsKey
<1> HIDE DEF ms, sec, found, line, head
<1>7. CASE sec = 0
  <2>1. 1 \in DOMAIN ms /\ 2 \in DOMAIN ms
    BY <1>5, <1>7 DEF SetIs, line, head
  <2>2. Reads(ms, section, key, value, 1, 2)
    BY <1>2, <1>5, <1>6, <1>7, <2>1 DEF Reads, SetIs, line, head
  <2> QED BY <2>1, <2>2 DEF Kept, ms
<1>8. CASE sec # 0 /\ found = 0
  <2>1. sec \in DOMAIN ms /\ sec + 1 \in DOMAIN ms /\ sec \in 1 .. sec /\ sec \in 1 .. Len(lines) /\ sec < sec + 1
    BY <1>3, <1>5, <1>8 DEF SetIs, line, head
  <2>2. ms[sec] = lines[sec] /\ \A j \in 1 .. (sec - 1) : ms[j] = lines[j]
    BY <1>5, <1>8, <2>1 DEF SetIs, line, head
  <2>3. \A j \in (sec + 1) .. ((sec + 1) - 1) : FALSE
    BY <2>1
  <2>4. Reads(ms, section, key, value, sec, sec + 1)
    BY <1>2, <1>3, <1>5, <1>6, <1>8, <2>1, <2>2, <2>3 DEF Reads, SetIs, line, head
  <2> QED BY <2>1, <2>4 DEF Kept, ms
<1>9. CASE sec # 0 /\ found # 0
  <2>1. /\ sec \in DOMAIN ms /\ found \in DOMAIN ms /\ sec < found /\ sec \in Nat /\ found \in Nat
        /\ sec \in DOMAIN lines /\ found \in DOMAIN lines
    BY <1>3, <1>4, <1>5, <1>9 DEF SetIs, line, head
  <2>2. lines[found] \in LineRecords /\ lines[found].type = "key" /\ Begins(key, lines[found].name)
    BY <1>4, <1>9, <2>1 DEF IsKey
  <2>3. ms[found].name = key /\ ms[found].at = lines[found].at /\ ms[found].value = value /\ ms[found].type = "key"
    BY <1>1, <1>5, <1>9, <2>2 DEF SetIs, line, head
  <2>4. lines[found].name = key /\ lines[found].at = Len(key)
    <3>1. lines[found].name \in NamedKeys
      BY <2>1, <2>2 DEF KeysNamed
    <3>2. lines[found].name = key
      BY <2>2, <3>1, OneKey
    <3> QED BY <2>1, <2>2, <3>2 DEF KeysNamed
  <2>5. IsKey(ms[found], key)
    BY <1>1, <2>3, BeginsItself DEF IsKey
  <2>6. ms[sec] = lines[sec] /\ (\A j \in 1 .. (sec - 1) : ms[j] = lines[j])
        /\ \A j \in (sec + 1) .. (found - 1) : ms[j] = lines[j]
    BY <1>5, <1>9, <2>1 DEF SetIs, line, head
  <2>7. Reads(ms, section, key, value, sec, found)
    BY <1>3, <1>4, <1>9, <2>1, <2>3, <2>4, <2>5, <2>6 DEF Reads
  <2> QED BY <2>1, <2>7 DEF Kept, ms
<1> QED BY <1>7, <1>8, <1>9

\* A change keeps what every other key reads as.
LEMMA SetKeeps ==
  ASSUME lines \in Seq(LineRecords), KeysNamed(lines), NEW section \in Sections, NEW key \in ConfigKeys,
         NEW value \in Value, NEW other \in Sections, NEW k \in AloneKeys, NEW v,
         Kept(lines, other, k, v), other # section \/ k # key
  PROVE  Kept(SetString(section, key, value), other, k, v)
<1> DEFINE ms == SetString(section, key, value)
           sec == SectionLine(section)
           found == KeyLine(sec, key)
           line == Line("key", key, value)
           head == Line("section", section, NoValue)
<1>1. section \in Seq(STRING) /\ key \in Seq(STRING) /\ key \in NamedKeys
  BY KeysAreNames, KindsDiffer
<1>2. line.type = "key" /\ line.name = key /\ head \in LineRecords
  BY <1>1, KindsDiffer, LineIs
<1>3. /\ sec = 0 => \A j \in DOMAIN lines : ~IsSection(lines[j], section)
      /\ sec # 0 => sec \in DOMAIN lines /\ IsSection(lines[sec], section)
  BY SectionLineIs
<1>4. sec # 0 /\ found # 0 =>
        /\ found \in (sec + 1) .. Len(lines) /\ IsKey(lines[found], key)
        /\ \A j \in (sec + 1) .. (found - 1) : lines[j].type # "section" /\ ~IsKey(lines[j], key)
  BY <1>3, KeyLineIs
<1>5. SetIs(ms, section, key, value, sec, found)
  BY <1>1, SetLines
<1>6. ms \in Seq(LineRecords)
  BY <1>5 DEF SetIs
<1>7. PICK a, b \in DOMAIN lines : Reads(lines, other, k, v, a, b)
  BY DEF Kept
<1>8. ~IsSection(line, other)
  BY <1>2, KindsDiffer DEF IsSection
<1>9. k # key => ~IsKey(line, k)
  BY <1>1, <1>2, OneKey DEF IsKey
<1> HIDE DEF ms, sec, found, line, head
<1>10. CASE sec = 0
  <2>1. other # section
    BY <1>3, <1>7, <1>10 DEF Reads
  <2>2. head.type = "section" /\ head.kind = "section" /\ head.name = section
    BY <1>1, KindsDiffer, LineIs DEF head
  <2>3. IsSection(head, section)
    BY <1>1, <2>2, BeginsItself DEF IsSection
  <2>4. ~IsSection(head, other)
    BY <1>2, <2>1, <2>3, OneSection
  <2>5. /\ Len(ms) = Len(lines) + 2 /\ ms[1] = head /\ ms[2] = line
        /\ \A i \in 1 .. Len(lines) : ms[i + 2] = lines[i]
    BY <1>5, <1>10 DEF SetIs, head, line
  <2>6. \A x \in (0 + 1) .. (0 + 2) : ~IsSection(ms[x], other)
    BY <1>8, <2>4, <2>5
  <2>7. Kept(ms, other, k, v)
    <3>1. 0 \in Nat /\ 2 \in Nat /\ 0 <= Len(lines) /\ (\A i \in 1 .. 0 : ms[i] = lines[i])
          /\ \A i \in (0 + 1) .. Len(lines) : ms[i + 2] = lines[i]
      BY <2>5
    <3> QED BY <1>6, <2>5, <2>6, <3>1, InsertKeeps
  <2> QED BY <2>7 DEF ms
<1>11. CASE sec # 0 /\ found = 0
  <2>1. /\ Len(ms) = Len(lines) + 1 /\ ms[sec + 1] = line
        /\ \A i \in 1 .. sec : ms[i] = lines[i]
        /\ \A i \in (sec + 1) .. Len(lines) : ms[i + 1] = lines[i]
    BY <1>5, <1>11 DEF SetIs, line
  <2>2. sec \in Nat /\ sec <= Len(lines) /\ sec \in DOMAIN lines /\ lines[sec] \in LineRecords
    BY <1>3, <1>11
  <2>3. \A x \in (sec + 1) .. (sec + 1) : x = sec + 1
    BY <2>2
  <2>4. CASE other = section
    <3>1. \A x \in (sec + 1) .. (sec + 1) : ms[x].type # "section" /\ ~IsKey(ms[x], k)
      BY <1>2, <1>9, <2>1, <2>3, <2>4, KindsDiffer
    <3>2. Kept(ms, other, k, v)
      BY <1>6, <1>8, <2>1, <2>2, <2>3, <3>1, InsertKeeps
    <3> QED BY <3>2 DEF ms
  <2>5. CASE other # section
    <3>1. lines[sec].type = "section" /\ ~IsSection(lines[sec], other)
      <4>1. IsSection(lines[sec], section)
        BY <1>3, <1>11
      <4> QED BY <2>2, <2>5, <4>1, OneSection DEF IsSection
    <3>2. Kept(ms, other, k, v)
      BY <1>6, <1>8, <2>1, <2>2, <2>3, <3>1, InsertKeeps
    <3> QED BY <3>2 DEF ms
  <2> QED BY <2>4, <2>5
<1>12. CASE sec # 0 /\ found # 0
  <2>1. /\ DOMAIN ms = DOMAIN lines /\ \A i \in DOMAIN lines : i # found => ms[i] = lines[i]
        /\ ms[found].type = lines[found].type /\ ms[found].name = key
    BY <1>5, <1>12 DEF SetIs
  <2>2. /\ a \in Nat /\ b \in Nat /\ sec \in Nat /\ found \in Nat /\ a < b /\ sec < found
        /\ a \in 1 .. Len(lines) /\ b \in 1 .. Len(lines) /\ sec \in 1 .. Len(lines) /\ found \in 1 .. Len(lines)
        /\ lines[found].type = "key" /\ lines[found] \in LineRecords /\ lines[sec] \in LineRecords
    BY <1>3, <1>4, <1>7, <1>12 DEF Reads, IsKey
  <2>3. \A n \in NamedKeys : Begins(k, n) => n = k
    BY OneKey
  <2>4. lines[found].name \in NamedKeys
    BY <2>2 DEF KeysNamed
  <2>5. lines[sec].type = "section" /\ lines[a].type = "section"
    BY <1>3, <1>7, <1>12 DEF IsSection, Reads
  <2>6. b # found
    <3> SUFFICES ASSUME b = found PROVE FALSE
      OBVIOUS
    <3>1. lines[found].name = k
      BY <1>7, <2>3, <2>4 DEF Reads, IsKey
    <3>2. key = k
      BY <1>1, <1>4, <1>12, <3>1, OneKey DEF IsKey
    <3>3. sec = a
      <4>1. ~(a < sec)
        <5>1. a < sec => sec \in (a + 1) .. (b - 1)
          BY <2>2
        <5> QED BY <1>7, <2>5, <5>1 DEF Reads
      <4>2. ~(sec < a)
        <5>1. sec < a => a \in (sec + 1) .. (found - 1)
          BY <2>2
        <5> QED BY <1>4, <1>12, <2>5, <5>1
      <4> QED BY <2>2, <4>1, <4>2
    <3>4. IsSection(lines[sec], section) /\ IsSection(lines[sec], other)
      BY <1>3, <1>7, <1>12, <3>3 DEF Reads
    <3>5. other = section
      BY <2>2, <3>4, OneSection
    <3> QED BY <3>2, <3>5
  <2>7. a # found
    BY <2>2, <2>5, KindsDiffer
  <2>8. ms[a] = lines[a] /\ ms[b] = lines[b]
    BY <2>1, <2>2, <2>6, <2>7
  <2>9. \A j \in 1 .. (a - 1) : ~IsSection(ms[j], other)
    <3> SUFFICES ASSUME NEW j \in 1 .. (a - 1) PROVE ~IsSection(ms[j], other)
      OBVIOUS
    <3>1. j \in DOMAIN lines
      BY <2>2
    <3>2. CASE j = found
      BY <2>1, <2>2, <3>2, KindsDiffer DEF IsSection
    <3>3. CASE j # found
      BY <1>7, <2>1, <3>1, <3>3 DEF Reads
    <3> QED BY <3>2, <3>3
  <2>10. \A j \in (a + 1) .. (b - 1) : ms[j].type # "section" /\ ~IsKey(ms[j], k)
    <3> SUFFICES ASSUME NEW j \in (a + 1) .. (b - 1) PROVE ms[j].type # "section" /\ ~IsKey(ms[j], k)
      OBVIOUS
    <3>1. j \in DOMAIN lines
      BY <2>2
    <3>2. CASE j = found
      <4>1. ~IsKey(lines[found], k)
        BY <1>7, <3>2 DEF Reads
      <4>2. key # k
        BY <1>4, <1>12, <4>1
      <4>3. ~Begins(k, key)
        BY <1>1, <2>3, <4>2
      <4> QED BY <2>1, <2>2, <3>2, <4>3, KindsDiffer DEF IsKey
    <3>3. CASE j # found
      BY <1>7, <2>1, <3>1, <3>3 DEF Reads
    <3> QED BY <3>2, <3>3
  <2>11. Reads(ms, other, k, v, a, b)
    BY <1>7, <2>1, <2>8, <2>9, <2>10 DEF Reads
  <2> QED BY <2>1, <2>11 DEF Kept, ms
<1> QED BY <1>10, <1>11, <1>12

-----------------------------------------------------------------------------
(* Lines a restart takes for what they are.                                *)

Steady(line) == LineType(line) # "section"

\* Line b is one of a section's, or stands before any section.
Under(ls, section, b) ==
  \E a \in DOMAIN ls :
    /\ a < b /\ IsSection(ls[a], section) /\ \A j \in 1 .. (a - 1) : ~IsSection(ls[j], section)
    /\ \A j \in (a + 1) .. b : ls[j].type # "section"
Outside(ls, b) == \A j \in 1 .. b : ls[j].type # "section"

\* In the sections but those of c, and before any section, no setting is taken for a section.
SteadyIn(ls, section) == \A b \in DOMAIN ls : Under(ls, section, b) => Steady(ls[b])
SteadyLines(ls, c) ==
  /\ \A b \in DOMAIN ls : Outside(ls, b) => Steady(ls[b])
  /\ \A section \in Sections \ c : SteadyIn(ls, section)

\* Only a setting may be taken for something else.
Typed(ls) ==
  \A i \in DOMAIN ls :
    IF ls[i].type = "key" THEN ls[i].kind = "key" ELSE LineType(ls[i]) = ls[i].type

LEMMA InsertSteady ==
  ASSUME NEW ls \in Seq(LineRecords), NEW ms \in Seq(LineRecords), NEW p \in Nat, NEW m \in Nat, p <= Len(ls),
         Len(ms) = Len(ls) + m, \A i \in 1 .. p : ms[i] = ls[i], \A i \in (p + 1) .. Len(ls) : ms[i + m] = ls[i],
         NEW section, SteadyIn(ls, section),
         \A x \in (p + 1) .. (p + m) : ~IsSection(ms[x], section) /\ (Under(ms, section, x) => Steady(ms[x]))
  PROVE  SteadyIn(ms, section)
<1> SUFFICES ASSUME NEW b \in DOMAIN ms, Under(ms, section, b) PROVE Steady(ms[b])
  BY DEF SteadyIn
<1>1. PICK a \in DOMAIN ms :
        /\ a < b /\ IsSection(ms[a], section) /\ \A j \in 1 .. (a - 1) : ~IsSection(ms[j], section)
        /\ \A j \in (a + 1) .. b : ms[j].type # "section"
  BY DEF Under
<1>2. Len(ls) \in Nat /\ DOMAIN ls = 1 .. Len(ls) /\ DOMAIN ms = 1 .. (Len(ls) + m)
  OBVIOUS
<1> DEFINE h(i) == IF i <= p THEN i ELSE i + m
           g(j) == IF j <= p THEN j ELSE j - m
<1>3. \A i \in DOMAIN ls : ms[h(i)] = ls[i] /\ h(i) \in DOMAIN ms /\ g(h(i)) = i
  BY <1>2
<1>4. \A j \in DOMAIN ms \ ((p + 1) .. (p + m)) : g(j) \in DOMAIN ls /\ h(g(j)) = j
  BY <1>2
<1>5. a \notin (p + 1) .. (p + m)
  BY <1>1
<1>6. \A x, y \in DOMAIN ls : \A i \in (x + 1) .. y : i \in DOMAIN ls /\ h(x) < h(i) /\ h(i) <= h(y)
  BY <1>2
<1>7. CASE b \in (p + 1) .. (p + m)
  BY <1>7
<1>8. CASE b \notin (p + 1) .. (p + m)
  <2>1. g(a) \in DOMAIN ls /\ g(b) \in DOMAIN ls /\ h(g(a)) = a /\ h(g(b)) = b
    BY <1>4, <1>5, <1>8
  <2>2. g(a) < g(b) /\ ls[g(a)] = ms[a] /\ ls[g(b)] = ms[b]
    <3>1. ls[g(a)] = ms[a] /\ ls[g(b)] = ms[b]
      BY <1>3, <2>1
    <3>2. a < b /\ a \in Nat /\ b \in Nat
      BY <1>1, <1>2
    <3>3. g(a) < g(b)
      BY <1>2, <1>5, <1>8, <3>2
    <3> QED BY <3>1, <3>3
  <2>3. ASSUME NEW i \in 1 .. (g(a) - 1) PROVE ~IsSection(ls[i], section)
    <3>1. i \in DOMAIN ls /\ h(i) \in 1 .. (a - 1)
      BY <1>2, <1>5, <2>1
    <3> HIDE DEF g, h
    <3> QED BY <1>1, <1>3, <3>1
  <2>4. ASSUME NEW i \in (g(a) + 1) .. g(b) PROVE ls[i].type # "section"
    <3>1. i \in DOMAIN ls /\ h(i) \in (a + 1) .. b
      <4>1. g(a) \in DOMAIN ls /\ g(b) \in DOMAIN ls /\ h(g(a)) = a /\ h(g(b)) = b
        BY <2>1
      <4> HIDE DEF g, h
      <4>2. i \in DOMAIN ls /\ h(g(a)) < h(i) /\ h(i) <= h(g(b))
        BY <1>6, <4>1
      <4>3. h(i) \in Nat /\ a \in Nat /\ b \in Nat
        BY <1>2, <1>3, <4>2
      <4> QED BY <4>1, <4>2, <4>3
    <3> HIDE DEF g, h
    <3> QED BY <1>1, <1>3, <3>1
  <2> HIDE DEF g, h
  <2>5. Under(ls, section, g(b))
    BY <1>1, <2>1, <2>2, <2>3, <2>4 DEF Under
  <2> QED BY <2>1, <2>2, <2>5 DEF SteadyIn
<1> QED BY <1>7, <1>8

LEMMA SetSteady ==
  ASSUME lines \in Seq(LineRecords), NEW section \in Sections, NEW key \in ConfigKeys, NEW value \in Value,
         Typed(lines), NEW c, NEW d, SteadyLines(lines, c), c \subseteq d,
         {"[", "]"} \subseteq value.marks => section \in d
  PROVE  Typed(SetString(section, key, value)) /\ SteadyLines(SetString(section, key, value), d)
<1> DEFINE ms == SetString(section, key, value)
           sec == SectionLine(section)
           found == KeyLine(sec, key)
           line == Line("key", key, value)
           head == Line("section", section, NoValue)
<1>1. section \in Seq(STRING) /\ key \in Seq(STRING)
  BY KeysAreNames
<1>2. /\ line.type = "key" /\ line.kind = "key" /\ line.value = value
      /\ head.type = "section" /\ head.kind = "section" /\ head.name = section
      /\ head.value = NoValue /\ head \in LineRecords
  BY <1>1, KindsDiffer, LineIs
<1>3. /\ sec = 0 => \A j \in DOMAIN lines : ~IsSection(lines[j], section)
      /\ sec # 0 => sec \in DOMAIN lines /\ IsSection(lines[sec], section)
  BY SectionLineIs
<1>4. sec # 0 /\ found # 0 =>
        /\ found \in (sec + 1) .. Len(lines) /\ IsKey(lines[found], key)
        /\ \A j \in (sec + 1) .. (found - 1) : lines[j].type # "section" /\ ~IsKey(lines[j], key)
  BY <1>3, KeyLineIs
<1>5. SetIs(ms, section, key, value, sec, found)
  BY <1>1, SetLines
<1>6. ms \in Seq(LineRecords)
  BY <1>5 DEF SetIs
<1>7. LineType(head) = "section"
  <2>1. head.value.marks = {}
    BY <1>2 DEF NoValue, Plain
  <2> QED BY <1>2, <2>1, KindsDiffer DEF LineType
<1>8. ASSUME NEW l, l.kind = "key", l.value = value, section \notin d PROVE Steady(l)
  BY <1>8, KindsDiffer DEF Steady, LineType
<1>9. IsSection(head, section) /\ \A s : ~IsSection(line, s)
  BY <1>1, <1>2, BeginsItself, KindsDiffer DEF IsSection
<1>10. /\ \A b \in DOMAIN lines : Outside(lines, b) => Steady(lines[b])
       /\ \A s \in Sections \ d : SteadyIn(lines, s)
  BY DEF SteadyLines
<1> HIDE DEF ms, sec, found, line, head
<1>11. CASE sec = 0
  <2>1. /\ Len(ms) = Len(lines) + 2 /\ ms[1] = head /\ ms[2] = line
        /\ \A i \in 1 .. Len(lines) : ms[i + 2] = lines[i]
    BY <1>5, <1>11 DEF SetIs, head, line
  <2>2. Len(lines) \in Nat /\ DOMAIN lines = 1 .. Len(lines) /\ DOMAIN ms = 1 .. (Len(lines) + 2)
    BY <1>6, <2>1
  <2>3. \A j \in DOMAIN ms : j = 1 \/ j = 2 \/ (j - 2 \in DOMAIN lines /\ ms[j] = lines[j - 2])
    <3>1. \A j \in 3 .. (Len(lines) + 2) : j - 2 \in 1 .. Len(lines) /\ (j - 2) + 2 = j
      BY <2>2
    <3> QED BY <2>1, <2>2, <3>1
  <2>4. Typed(ms)
    BY <1>2, <1>7, <2>1, <2>3, KindsDiffer DEF Typed
  <2>5. ASSUME NEW b \in DOMAIN ms, Outside(ms, b) PROVE FALSE
    <3>1. 1 \in 1 .. b
      BY <2>2
    <3> QED BY <1>2, <2>1, <2>5, <3>1 DEF Outside
  <2>6. ASSUME NEW s \in Sections \ d PROVE SteadyIn(ms, s)
    <3>1. CASE s = section
      <4> SUFFICES ASSUME NEW b \in DOMAIN ms, Under(ms, s, b) PROVE Steady(ms[b])
        BY DEF SteadyIn
      <4>1. PICK a \in DOMAIN ms :
              /\ a < b /\ IsSection(ms[a], s) /\ \A j \in 1 .. (a - 1) : ~IsSection(ms[j], s)
              /\ \A j \in (a + 1) .. b : ms[j].type # "section"
        BY DEF Under
      <4>2. a = 1
        <5>1. a # 1 => 1 \in 1 .. (a - 1)
          BY <2>2
        <5> QED BY <1>9, <2>1, <3>1, <4>1, <5>1
      <4>3. CASE b = 2
        BY <1>2, <1>8, <2>1, <2>6, <3>1, <4>3
      <4>4. CASE b # 2
        <5>1. b - 2 \in DOMAIN lines /\ ms[b] = lines[b - 2] /\ b \in Nat
          BY <2>2, <2>3, <4>1, <4>2, <4>4
        <5>2. ASSUME NEW j \in 1 .. (b - 2) PROVE lines[j].type # "section"
          <6>1. j \in 1 .. Len(lines) /\ j + 2 \in (1 + 1) .. b
            BY <2>2, <5>1
          <6> QED BY <2>1, <4>1, <4>2, <6>1
        <5>3. Outside(lines, b - 2)
          BY <5>2 DEF Outside
        <5> QED BY <1>10, <5>1, <5>3
      <4> QED BY <4>3, <4>4
    <3>2. CASE s # section
      <4>1. ~IsSection(head, s)
        BY <1>2, <1>9, <3>2, OneSection
      <4>2. \A x \in (0 + 1) .. (0 + 2) : ~IsSection(ms[x], s)
        BY <1>9, <2>1, <4>1
      <4>3. ASSUME NEW x \in (0 + 1) .. (0 + 2) PROVE ~Under(ms, s, x)
        <5> SUFFICES ASSUME NEW a \in DOMAIN ms, a < x, IsSection(ms[a], s) PROVE FALSE
          BY DEF Under
        <5>1. a \in (0 + 1) .. (0 + 2)
          BY <2>2
        <5> QED BY <4>2, <5>1
      <4>4. 0 \in Nat /\ 2 \in Nat /\ 0 <= Len(lines) /\ (\A i \in 1 .. 0 : ms[i] = lines[i])
            /\ \A i \in (0 + 1) .. Len(lines) : ms[i + 2] = lines[i]
        BY <2>1, <2>2
      <4> QED BY <1>6, <1>10, <2>1, <4>2, <4>3, <4>4, InsertSteady
    <3> QED BY <3>1, <3>2
  <2> QED BY <2>4, <2>5, <2>6 DEF SteadyLines, ms
<1>12. CASE sec # 0 /\ found = 0
  <2>1. /\ Len(ms) = Len(lines) + 1 /\ ms[sec + 1] = line
        /\ \A i \in 1 .. sec : ms[i] = lines[i]
        /\ \A i \in (sec + 1) .. Len(lines) : ms[i + 1] = lines[i]
    BY <1>5, <1>12 DEF SetIs, line
  <2>2. /\ sec \in Nat /\ sec <= Len(lines) /\ sec \in DOMAIN lines /\ lines[sec] \in LineRecords /\ sec \in 1 .. sec
        /\ Len(lines) \in Nat /\ DOMAIN lines = 1 .. Len(lines) /\ DOMAIN ms = 1 .. (Len(lines) + 1)
    BY <1>3, <1>6, <1>12, <2>1
  <2>3. ms[sec] = lines[sec] /\ lines[sec].type = "section" /\ IsSection(lines[sec], section)
    BY <1>3, <1>12, <2>1, <2>2 DEF IsSection
  <2>4. \A j \in DOMAIN ms : j = sec + 1 \/ (j <= sec /\ ms[j] = lines[j] /\ j \in DOMAIN lines)
                             \/ (j > sec + 1 /\ j - 1 \in DOMAIN lines /\ ms[j] = lines[j - 1])
    <3>1. \A j \in (sec + 2) .. (Len(lines) + 1) : j - 1 \in (sec + 1) .. Len(lines) /\ (j - 1) + 1 = j
      BY <2>2
    <3>2. \A j \in (sec + 2) .. (Len(lines) + 1) : j - 1 \in DOMAIN lines /\ ms[j] = lines[j - 1]
      BY <2>1, <2>2, <3>1
    <3>3. \A j \in DOMAIN ms : j = sec + 1 \/ j \in 1 .. sec \/ j \in (sec + 2) .. (Len(lines) + 1)
      BY <2>2
    <3> QED BY <2>1, <2>2, <3>2, <3>3
  <2>5. Typed(ms)
    BY <1>2, <2>1, <2>4 DEF Typed
  <2>6. ASSUME NEW b \in DOMAIN ms, Outside(ms, b) PROVE Steady(ms[b])
    <3>1. b < sec
      <4>1. b >= sec => sec \in 1 .. b
        BY <2>2
      <4> QED BY <2>2, <2>3, <2>6, <4>1 DEF Outside
    <3>2. ms[b] = lines[b] /\ b \in DOMAIN lines
      BY <2>2, <2>4, <3>1
    <3>3. \A j \in 1 .. b : ms[j] = lines[j]
      BY <2>1, <2>2, <3>1
    <3>4. Outside(lines, b)
      BY <2>6, <3>3 DEF Outside
    <3> QED BY <1>10, <3>2, <3>4
  <2>7. ASSUME NEW s \in Sections \ d PROVE SteadyIn(ms, s)
    <3>1. \A x \in (sec + 1) .. (sec + 1) : x = sec + 1
      BY <2>2
    <3>2. ASSUME Under(ms, s, sec + 1) PROVE Steady(ms[sec + 1])
      <4>1. PICK a \in DOMAIN ms :
              /\ a < sec + 1 /\ IsSection(ms[a], s) /\ \A j \in 1 .. (a - 1) : ~IsSection(ms[j], s)
              /\ \A j \in (a + 1) .. (sec + 1) : ms[j].type # "section"
        BY <3>2 DEF Under
      <4>2. a = sec
        <5>1. a # sec => sec \in (a + 1) .. (sec + 1)
          BY <2>2, <4>1
        <5> QED BY <2>3, <4>1, <5>1
      <4>3. s = section
        BY <2>2, <2>3, <4>1, <4>2, OneSection
      <4> QED BY <1>2, <1>8, <2>1, <2>7, <4>3
    <3>3. \A x \in (sec + 1) .. (sec + 1) : ~IsSection(ms[x], s) /\ (Under(ms, s, x) => Steady(ms[x]))
      BY <1>9, <2>1, <3>1, <3>2
    <3> QED BY <1>6, <1>10, <2>1, <2>2, <3>3, InsertSteady
  <2> QED BY <2>5, <2>6, <2>7 DEF SteadyLines, ms
<1>13. CASE sec # 0 /\ found # 0
  <2>1. /\ DOMAIN ms = DOMAIN lines /\ \A i \in DOMAIN lines : i # found => ms[i] = lines[i]
        /\ ms[found].type = lines[found].type /\ ms[found].kind = lines[found].kind /\ ms[found].value = value
    BY <1>5, <1>13 DEF SetIs
  <2>2. /\ sec \in Nat /\ found \in Nat /\ sec < found /\ Len(lines) \in Nat
        /\ sec \in DOMAIN lines /\ found \in DOMAIN lines /\ DOMAIN lines = 1 .. Len(lines)
        /\ lines[found].type = "key" /\ lines[sec].type = "section" /\ lines[sec] \in LineRecords
    BY <1>3, <1>4, <1>13 DEF IsKey, IsSection
  <2>3. lines[found].kind = "key"
    BY <2>2 DEF Typed
  <2>4. \A j \in DOMAIN lines : ms[j].type = lines[j].type /\ \A s : IsSection(ms[j], s) <=> IsSection(lines[j], s)
    BY <2>1, <2>2, KindsDiffer DEF IsSection
  <2>5. Typed(ms)
    BY <2>1, <2>2, <2>3 DEF Typed
  <2>6. ASSUME NEW b \in DOMAIN ms, Outside(ms, b) PROVE Steady(ms[b])
    <3>1. b # found
      <4>1. sec \in 1 .. found
        BY <2>2
      <4> QED BY <2>2, <2>4, <2>6, <4>1 DEF Outside
    <3>2. \A j \in 1 .. b : j \in DOMAIN lines
      BY <2>1, <2>2
    <3>3. Outside(lines, b)
      BY <2>4, <2>6, <3>2 DEF Outside
    <3> QED BY <1>10, <2>1, <3>1, <3>3
  <2>7. ASSUME NEW s \in Sections \ d PROVE SteadyIn(ms, s)
    <3> SUFFICES ASSUME NEW b \in DOMAIN ms, Under(ms, s, b) PROVE Steady(ms[b])
      BY DEF SteadyIn
    <3>1. PICK a \in DOMAIN ms :
            /\ a < b /\ IsSection(ms[a], s) /\ \A j \in 1 .. (a - 1) : ~IsSection(ms[j], s)
            /\ \A j \in (a + 1) .. b : ms[j].type # "section"
      BY DEF Under
    <3>2. /\ \A j \in 1 .. (a - 1) : j \in DOMAIN lines
          /\ \A j \in (a + 1) .. b : j \in DOMAIN lines
          /\ a \in DOMAIN lines /\ b \in DOMAIN lines
      BY <2>1, <2>2
    <3>3. Under(lines, s, b)
      BY <2>4, <3>1, <3>2 DEF Under
    <3>4. CASE b # found
      BY <1>10, <2>1, <2>7, <3>2, <3>3, <3>4 DEF SteadyIn
    <3>5. CASE b = found
      <4>1. a = sec
        <5>1. a < sec => sec \in (a + 1) .. b
          BY <2>1, <2>2, <3>5
        <5>2. sec < a => a \in (sec + 1) .. (found - 1)
          BY <2>1, <2>2, <3>1, <3>5
        <5>3. lines[a].type = "section" /\ ms[sec].type = "section"
          BY <2>2, <2>4, <3>1, <3>2 DEF IsSection
        <5>4. ~(a < sec) /\ ~(sec < a)
          BY <1>4, <1>13, <3>1, <5>1, <5>2, <5>3
        <5> QED BY <2>1, <2>2, <5>4
      <4>2. IsSection(lines[sec], s) /\ IsSection(lines[sec], section)
        BY <1>3, <1>13, <2>2, <2>4, <3>1, <4>1
      <4>3. s = section
        BY <2>2, <4>2, OneSection
      <4> QED BY <1>8, <2>1, <2>3, <2>7, <3>5, <4>3
    <3> QED BY <3>4, <3>5
  <2> QED BY <2>5, <2>6, <2>7 DEF SteadyLines, ms
<1> QED BY <1>11, <1>12, <1>13

-----------------------------------------------------------------------------
(* Saving, and starting again.                                             *)

\* A file holds the lines, maybe with blanks that the lines have lost.
Trimmed(text) == [kind |-> text.kind, name |-> text.name, value |-> Trim(text.value)]
Holds(f, ls) ==
  /\ f \in Seq(FileRecords) /\ DOMAIN f = DOMAIN ls
  /\ \A i \in DOMAIN f : Trimmed(f[i]) = Trimmed(ls[i])

SetsKept ==
  \A s \in DOMAIN lastSet :
    /\ s = <<s[1], s[2]>> /\ s[1] \in Sections /\ s[2] \in ConfigKeys
    /\ s[2] \in AloneKeys => Kept(lines, s[1], s[2], lastSet[s])

SavePcs == {"idle", "open", "format", "flush"}
OneSaves == \A v, w \in Writers : savePc[v] # "idle" /\ savePc[w] # "idle" => v = w
SavesWhole ==
  /\ savePc \in [Writers -> SavePcs] /\ buffer = [w \in Writers |-> buffer[w]]
  /\ (\A w \in Writers : savePc[w] = "idle") => Holds(file, lines)
  /\ \A w \in Writers : savePc[w] \in {"format", "flush"} => file = <<>>
  /\ \A w \in Writers : savePc[w] = "flush" => buffer[w] = [i \in DOMAIN lines |-> Text(lines[i])]

LinesSound ==
  lines \in Seq(LineRecords) /\ KeysNamed(lines) /\ Typed(lines) /\ SteadyLines(lines, cut)

ConfigInv ==
  /\ disturbed \in BOOLEAN
  /\ disturbed = FALSE => LinesSound /\ SetsKept /\ OneSaves /\ SavesWhole

LEMMA ConfigReads == ConfigInv => SetIsKept
<1> SUFFICES ASSUME ConfigInv, ~disturbed, NEW s \in DOMAIN lastSet, s[2] \in AloneKeys
             PROVE  GetString(s[1], s[2], NoValue) = lastSet[s]
  BY DEF SetIsKept
<1>1. lines \in Seq(LineRecords) /\ Kept(lines, s[1], s[2], lastSet[s])
  BY DEF ConfigInv, LinesSound, SetsKept
<1> QED BY <1>1, KeptIsRead

LEMMA TextsHold ==
  ASSUME NEW ls \in Seq(LineRecords)
  PROVE  Holds([i \in DOMAIN ls |-> Text(ls[i])], ls)
<1> DEFINE f == [i \in DOMAIN ls |-> Text(ls[i])]
<1>1. DOMAIN ls = 1 .. Len(ls) /\ Len(ls) \in Nat
  OBVIOUS
<1>2. \A i \in DOMAIN ls : ls[i] \in LineRecords
  OBVIOUS
<1>3. \A line \in LineRecords : Text(line) \in FileRecords /\ Trimmed(Text(line)) = Trimmed(line)
  BY DEF Text, LineRecords, FileRecords, Trimmed
<1>4. f \in [1 .. Len(ls) -> FileRecords]
  BY <1>1, <1>2, <1>3
<1>5. f \in Seq(FileRecords) /\ DOMAIN f = DOMAIN ls
  BY <1>1, <1>4
<1>6. \A i \in DOMAIN f : Trimmed(f[i]) = Trimmed(ls[i])
  BY <1>2, <1>3
<1> QED BY <1>5, <1>6 DEF Holds

\* What is taken for what does not turn on the blanks.
LEMMA TrimmedIs ==
  ASSUME NEW text, NEW line, text.value \in Value, line.value \in Value, Trimmed(text) = Trimmed(line)
  PROVE  /\ text.kind = line.kind /\ text.name = line.name /\ Trim(text.value) = Trim(line.value)
         /\ LineType(text) = LineType(line)
<1>1. text.kind = line.kind /\ text.name = line.name /\ Trim(text.value) = Trim(line.value)
  BY DEF Trimmed
<1>2. \A v \in Value : Trim(v).marks = v.marks
  BY DEF Trim, Value
<1>3. text.value.marks = line.value.marks
  BY <1>1, <1>2
<1> QED BY <1>1, <1>3 DEF LineType

LEMMA TrimIs == \A v \in Value : Trim(v) \in Value /\ Trim(v).marks = v.marks /\ Trim(Trim(v)) = Trim(v)
BY DEF Trim, Value

\* A file that is loaded: every line is what it is taken for.
LEMMA LoadedIs ==
  ASSUME NEW f \in Seq(FileRecords)
  PROVE  /\ LoadFromFile(f) \in Seq(LineRecords) /\ DOMAIN LoadFromFile(f) = DOMAIN f
         /\ \A i \in DOMAIN f :
              LET line == LoadFromFile(f)[i] IN
              /\ line.kind = f[i].kind /\ line.name = f[i].name /\ line.value = Trim(f[i].value)
              /\ line.type = LineType(f[i]) /\ line.type = LineType(line) /\ line.at = Len(f[i].name)
              /\ Trimmed(f[i]) = Trimmed(line)
<1>1. ASSUME NEW text \in FileRecords
      PROVE  LET line == Loaded1(text) IN
             /\ line \in LineRecords
             /\ line.kind = text.kind /\ line.name = text.name /\ line.value = Trim(text.value)
             /\ line.type = LineType(text) /\ line.type = LineType(line) /\ line.at = Len(text.name)
             /\ Trimmed(text) = Trimmed(line)
  <2> DEFINE line == Loaded1(text)
  <2>1. text.kind \in Kinds /\ text.name \in Seq(STRING) /\ text.value \in Value
    BY DEF FileRecords
  <2>2. Trim(text.value) \in Value /\ Trim(Trim(text.value)) = Trim(text.value) /\ Len(text.name) \in Nat
    BY <2>1, TrimIs
  <2>3. LineType(text) \in Kinds
    BY <2>1 DEF LineType, Kinds
  <2>4. /\ line.kind = text.kind /\ line.name = text.name /\ line.value = Trim(text.value)
        /\ line.type = LineType(text) /\ line.at = Len(text.name)
    BY DEF Loaded1
  <2>5. line \in LineRecords
    BY <2>1, <2>2, <2>3 DEF Loaded1, LineRecords
  <2>6. Trimmed(text) = Trimmed(line)
    BY <2>2, <2>4 DEF Trimmed
  <2> HIDE DEF line
  <2>7. LineType(text) = LineType(line)
    BY <2>1, <2>2, <2>4, <2>6, TrimmedIs
  <2> QED BY <2>4, <2>5, <2>6, <2>7 DEF line
<1>2. DOMAIN f = 1 .. Len(f) /\ Len(f) \in Nat /\ \A i \in DOMAIN f : f[i] \in FileRecords
  OBVIOUS
<1>3. LoadFromFile(f) = [i \in DOMAIN f |-> Loaded1(f[i])]
  BY DEF LoadFromFile
<1>4. LoadFromFile(f) \in [1 .. Len(f) -> LineRecords]
  BY <1>1, <1>2, <1>3
<1> QED BY <1>1, <1>2, <1>3, <1>4

LEMMA LoadedSound ==
  ASSUME NEW f \in Seq(FileRecords), NEW c
  PROVE  /\ Typed(LoadFromFile(f)) /\ SteadyLines(LoadFromFile(f), c)
         /\ Holds(f, LoadFromFile(f))
<1> DEFINE ls == LoadFromFile(f)
<1>1. /\ DOMAIN ls = DOMAIN f
      /\ \A i \in DOMAIN ls : ls[i].type = LineType(ls[i]) /\ ls[i].kind = f[i].kind /\ Trimmed(f[i]) = Trimmed(ls[i])
  BY LoadedIs
<1>2. ls \in Seq(LineRecords)
  BY LoadedIs
<1> HIDE DEF ls
<1>3. \A i \in DOMAIN ls : ls[i].type = "key" => ls[i].kind = "key"
  BY <1>1, KindsDiffer DEF LineType
<1>4. Typed(ls)
  BY <1>1, <1>3 DEF Typed
<1>5. \A b \in DOMAIN ls : Outside(ls, b) => Steady(ls[b])
  <2> SUFFICES ASSUME NEW b \in DOMAIN ls, Outside(ls, b) PROVE Steady(ls[b])
    OBVIOUS
  <2>1. b \in 1 .. b
    BY <1>2
  <2> QED BY <1>1, <2>1 DEF Outside, Steady
<1>6. \A s : SteadyIn(ls, s)
  <2> SUFFICES ASSUME NEW s, NEW b \in DOMAIN ls, Under(ls, s, b) PROVE Steady(ls[b])
    BY DEF SteadyIn
  <2>1. PICK a \in DOMAIN ls : a < b /\ \A j \in (a + 1) .. b : ls[j].type # "section"
    BY DEF Under
  <2>2. b \in (a + 1) .. b
    BY <1>2, <2>1
  <2> QED BY <1>1, <2>1, <2>2 DEF Steady
<1> QED BY <1>1, <1>4, <1>5, <1>6 DEF SteadyLines, Holds, ls

LEMMA ConfigStarts == ConfigInit => ConfigInv
<1> SUFFICES ASSUME ConfigInit PROVE ConfigInv
  OBVIOUS
<1>1. file \in Seq(FileRecords) /\ file \in Shipped
  BY ConfigAssumption DEF ConfigInit, FileRecords
<1>2. lines = LoadFromFile(file)
  BY DEF ConfigInit
<1>3. lines \in Seq(LineRecords) /\ DOMAIN lines = DOMAIN file
  BY <1>1, <1>2, LoadedIs
<1>4. KeysNamed(lines)
  <2> SUFFICES ASSUME NEW i \in DOMAIN lines, lines[i].type = "key"
               PROVE  lines[i].name \in NamedKeys /\ lines[i].at = Len(lines[i].name)
    BY DEF KeysNamed
  <2>1. /\ lines[i].type = LineType(file[i]) /\ lines[i].name = file[i].name
        /\ lines[i].at = Len(file[i].name)
    BY <1>1, <1>2, <1>3, LoadedIs
  <2>2. file[i].kind = "key"
    BY <2>1, KindsDiffer DEF LineType
  <2>3. file[i].name \in ShippedKeys
    BY <1>1, <1>3, <2>2 DEF ShippedKeys
  <2> QED BY <2>1, <2>3 DEF NamedKeys
<1>5. Typed(lines) /\ SteadyLines(lines, cut) /\ Holds(file, lines)
  BY <1>1, <1>2, LoadedSound
<1>6. SetsKept
  BY DEF ConfigInit, SetsKept
<1>7. OneSaves /\ SavesWhole
  BY <1>5 DEF ConfigInit, OneSaves, SavesWhole, SavePcs
<1> QED BY <1>3, <1>4, <1>5, <1>6, <1>7 DEF ConfigInit, ConfigInv, LinesSound

LEMMA SetStep ==
  ASSUME ConfigInv, NEW w \in Writers, NEW section \in Sections, NEW key \in ConfigKeys, NEW value \in ConfigValues,
         Set(w, section, key, value)
  PROVE  ConfigInv'
<1>1. disturbed' \in BOOLEAN /\ (disturbed' = FALSE => disturbed = FALSE /\ \A v \in Writers : savePc[v] = "idle")
  BY DEF ConfigInv, Set
<1> SUFFICES ASSUME disturbed' = FALSE
             PROVE  LinesSound' /\ SetsKept' /\ OneSaves' /\ SavesWhole'
  BY <1>1 DEF ConfigInv
<1>2. /\ lines \in Seq(LineRecords) /\ KeysNamed(lines) /\ Typed(lines) /\ SteadyLines(lines, cut)
      /\ SetsKept /\ SavesWhole /\ \A v \in Writers : savePc[v] = "idle"
  BY <1>1 DEF ConfigInv, LinesSound
<1>3. value \in Value /\ key \in Seq(STRING) /\ section \in Seq(STRING)
  BY KeysAreNames, ConfigAssumption
<1>4. lines' = SetString(section, key, value)
  BY DEF Set
<1>5. LinesSound'
  <2>1. lines' \in Seq(LineRecords) /\ KeysNamed(lines')
    BY <1>2, <1>3, <1>4, SetLines, SetNames DEF SetIs
  <2>2. cut \subseteq cut' /\ ({"[", "]"} \subseteq value.marks => section \in cut')
    BY DEF Set
  <2>3. Typed(lines') /\ SteadyLines(lines', cut')
    BY <1>2, <1>3, <1>4, <2>2, SetSteady
  <2> QED BY <2>1, <2>3 DEF LinesSound
<1>6. SetsKept'
  <2> DEFINE x == <<section, key>>
  <2>1. lastSet' = [s \in DOMAIN lastSet \cup {x} |-> IF s = x THEN value ELSE lastSet[s]]
    BY DEF Set
  <2>2. x = <<x[1], x[2]>> /\ x[1] = section /\ x[2] = key
    OBVIOUS
  <2> HIDE DEF x
  <2> SUFFICES ASSUME NEW s \in DOMAIN lastSet'
               PROVE  /\ s = <<s[1], s[2]>> /\ s[1] \in Sections /\ s[2] \in ConfigKeys
                      /\ s[2] \in AloneKeys => Kept(lines', s[1], s[2], lastSet'[s])
    BY DEF SetsKept
  <2>3. CASE s = x
    <3>1. key \in AloneKeys => Kept(lines', section, key, value)
      BY <1>2, <1>3, <1>4, SetIsRead
    <3>2. lastSet'[s] = value
      BY <2>1, <2>3
    <3> QED BY <2>2, <2>3, <3>1, <3>2
  <2>4. CASE s # x
    <3>1. s \in DOMAIN lastSet /\ lastSet'[s] = lastSet[s]
      BY <2>1, <2>4
    <3>2. s = <<s[1], s[2]>> /\ s[1] \in Sections /\ s[2] \in ConfigKeys
      BY <1>2, <3>1 DEF SetsKept
    <3>3. s[1] # section \/ s[2] # key
      BY <2>4, <3>2 DEF x
    <3>4. s[2] \in AloneKeys => Kept(lines, s[1], s[2], lastSet[s])
      BY <1>2, <3>1 DEF SetsKept
    <3>5. s[2] \in AloneKeys => Kept(lines', s[1], s[2], lastSet[s])
      BY <1>2, <1>3, <1>4, <3>2, <3>3, <3>4, SetKeeps
    <3> QED BY <3>1, <3>2, <3>5
  <2> QED BY <2>3, <2>4
<1>7. savePc' = [savePc EXCEPT ![w] = "open"] /\ UNCHANGED <<file, buffer>>
  BY DEF Set
<1>8. OneSaves'
  BY <1>2, <1>7 DEF OneSaves, SavesWhole
<1>9. SavesWhole'
  <2>1. savePc' \in [Writers -> SavePcs] /\ savePc'[w] = "open" /\ \A v \in Writers : v # w => savePc'[v] = "idle"
    BY <1>2, <1>7 DEF SavesWhole, SavePcs
  <2>2. buffer' = [v \in Writers |-> buffer'[v]]
    BY <1>2, <1>7 DEF SavesWhole
  <2>3. \A v \in Writers : savePc'[v] # "format" /\ savePc'[v] # "flush"
    BY <2>1
  <2> QED BY <2>1, <2>2, <2>3 DEF SavesWhole
<1> QED BY <1>5, <1>6, <1>8, <1>9

\* A writer at work is alone.
LEMMA SaveStep ==
  ASSUME ConfigInv, NEW w \in Writers, Truncate(w) \/ Format(w) \/ Flush(w)
  PROVE  ConfigInv'
<1>1. disturbed' \in BOOLEAN /\ (disturbed' = FALSE => disturbed = FALSE) /\ UNCHANGED <<lines, lastSet, cut>>
  BY DEF ConfigInv, Truncate, Format, Flush
<1> SUFFICES ASSUME disturbed' = FALSE
             PROVE  LinesSound' /\ SetsKept' /\ OneSaves' /\ SavesWhole'
  BY <1>1 DEF ConfigInv
<1>2. lines \in Seq(LineRecords) /\ LinesSound /\ SetsKept /\ SavesWhole /\ OneSaves /\ disturbed = FALSE
  BY <1>1 DEF ConfigInv, LinesSound
<1>3. LinesSound' /\ SetsKept'
  BY <1>1, <1>2 DEF LinesSound, SetsKept
<1>4. /\ savePc[w] # "idle" /\ \A v \in Writers : v # w => savePc'[v] = savePc[v]
      /\ savePc' \in [Writers -> SavePcs]
  BY <1>2 DEF Truncate, Format, Flush, SavesWhole, SavePcs
<1>5. \A v \in Writers : v # w => savePc[v] = "idle" /\ savePc'[v] = "idle"
  BY <1>2, <1>4 DEF OneSaves
<1>6. OneSaves'
  BY <1>5 DEF OneSaves
<1>7. CASE Truncate(w)
  <2>1. file' = <<>> /\ savePc'[w] = "format" /\ UNCHANGED buffer
    BY <1>2, <1>7 DEF Truncate, SavesWhole
  <2> QED BY <1>2, <1>3, <1>4, <1>5, <1>6, <2>1 DEF SavesWhole
<1>8. CASE Format(w)
  <2>1. /\ savePc[w] = "format" /\ savePc'[w] = "flush" /\ file' = file /\ file = <<>>
        /\ buffer'[w] = [i \in DOMAIN lines |-> Text(lines[i])] /\ buffer' = [v \in Writers |-> buffer'[v]]
    BY <1>2, <1>8 DEF Format, SavesWhole
  <2>2. buffer'[w] = [i \in DOMAIN lines' |-> Text(lines'[i])]
    BY <1>1, <2>1
  <2>3. SavesWhole'
    BY <1>4, <1>5, <2>1, <2>2 DEF SavesWhole
  <2> QED BY <1>3, <1>6, <2>3
<1>9. CASE Flush(w)
  <2>1. /\ savePc[w] = "flush" /\ savePc'[w] = "idle" /\ file = <<>>
        /\ file' = buffer[w] \o SubSeq(file, Len(buffer[w]) + 1, Len(file))
        /\ buffer[w] = [i \in DOMAIN lines |-> Text(lines[i])] /\ buffer' = [v \in Writers |-> buffer'[v]]
    BY <1>2, <1>9 DEF Flush, SavesWhole
  <2>2. Holds(buffer[w], lines)
    BY <1>2, <2>1, TextsHold
  <2>3. buffer[w] \in Seq(FileRecords)
    BY <2>2 DEF Holds
  <2>4. file' = buffer[w]
    <3> DEFINE B == buffer[w]
    <3> HIDE DEF B
    <3>1. B \in Seq(FileRecords) /\ B \o SubSeq(<<>>, Len(B) + 1, Len(<<>>)) = B
      <4>1. B \in Seq(FileRecords)
        BY <2>3 DEF B
      <4>2. Len(<<>>) = 0 /\ Len(B) \in Nat
        BY <4>1
      <4>3. SubSeq(<<>>, Len(B) + 1, 0) = <<>>
        BY <4>2
      <4> QED BY <4>1, <4>2, <4>3
    <3> QED BY <2>1, <3>1 DEF B
  <2>5. Holds(file', lines')
    BY <1>1, <2>2, <2>4
  <2>6. SavesWhole'
    BY <1>4, <1>5, <2>1, <2>5 DEF SavesWhole
  <2> QED BY <1>3, <1>6, <2>6
<1> QED BY <1>7, <1>8, <1>9

LEMMA RestartStep ==
  ASSUME ConfigInv, Restart
  PROVE  ConfigInv'
<1>1. /\ disturbed' \in BOOLEAN /\ lines' = LoadFromFile(file') /\ cut' = {}
      /\ lastSet' = [s \in {r \in DOMAIN lastSet : r[1] \notin cut /\ "#" \notin lastSet[r].marks} |-> Trim(lastSet[s])]
      /\ buffer' = [w \in Writers |-> <<>>] /\ savePc' = [w \in Writers |-> "idle"]
  BY DEF ConfigInv, Restart
<1>2. disturbed' = FALSE => disturbed = FALSE /\ file' = file /\ \A w \in Writers : savePc[w] = "idle"
  BY DEF ConfigInv, Restart
<1> SUFFICES ASSUME disturbed' = FALSE
             PROVE  LinesSound' /\ SetsKept' /\ OneSaves' /\ SavesWhole'
  BY <1>1 DEF ConfigInv
<1>3. /\ lines \in Seq(LineRecords) /\ KeysNamed(lines) /\ Typed(lines) /\ SteadyLines(lines, cut)
      /\ SetsKept /\ Holds(file, lines)
  BY <1>2 DEF ConfigInv, LinesSound, SavesWhole
<1>4. file \in Seq(FileRecords) /\ lines' = LoadFromFile(file) /\ DOMAIN file = DOMAIN lines
  BY <1>1, <1>2, <1>3 DEF Holds
<1>5. lines' \in Seq(LineRecords) /\ DOMAIN lines' = DOMAIN lines
  BY <1>4, LoadedIs
<1>6. ASSUME NEW i \in DOMAIN lines
      PROVE  /\ lines'[i].type = LineType(lines[i]) /\ lines'[i].kind = lines[i].kind /\ lines'[i].name = lines[i].name
             /\ lines'[i].value = Trim(lines[i].value) /\ lines'[i].at = Len(lines[i].name)
  <2>1. file[i] \in FileRecords /\ lines[i] \in LineRecords /\ Trimmed(file[i]) = Trimmed(lines[i])
    BY <1>3, <1>4 DEF Holds
  <2>2. file[i].value \in Value /\ lines[i].value \in Value
    BY <2>1 DEF FileRecords, LineRecords
  <2>3. /\ file[i].kind = lines[i].kind /\ file[i].name = lines[i].name
        /\ Trim(file[i].value) = Trim(lines[i].value) /\ LineType(file[i]) = LineType(lines[i])
    BY <2>1, <2>2, TrimmedIs
  <2> QED BY <1>4, <2>3, LoadedIs
<1>7. ASSUME NEW i \in DOMAIN lines
      PROVE  /\ lines'[i].type = "key" => lines[i].type = "key"
             /\ lines[i].type = "key" /\ Steady(lines[i]) /\ "#" \notin lines[i].value.marks => lines'[i].type = "key"
             /\ \A s : IsSection(lines'[i], s) <=> IsSection(lines[i], s)
             /\ \A k : IsKey(lines'[i], k) => IsKey(lines[i], k)
  <2>1. IF lines[i].type = "key" THEN lines[i].kind = "key" ELSE LineType(lines[i]) = lines[i].type
    BY <1>3 DEF Typed
  <2>2. CASE lines[i].type = "key"
    <3>1. lines[i].kind = "key" /\ lines'[i].kind = "key"
      BY <1>6, <2>1, <2>2
    <3>2. Steady(lines[i]) /\ "#" \notin lines[i].value.marks => lines'[i].type = "key"
      BY <1>6, <3>1, KindsDiffer DEF Steady, LineType
    <3> QED BY <1>6, <2>2, <3>1, <3>2, KindsDiffer DEF IsSection, IsKey
  <2>3. CASE lines[i].type # "key"
    BY <1>6, <2>1, <2>3 DEF IsSection, IsKey
  <2> QED BY <2>2, <2>3
<1>8. KeysNamed(lines')
  BY <1>3, <1>5, <1>6, <1>7 DEF KeysNamed
<1>9. LinesSound'
  BY <1>1, <1>4, <1>5, <1>8, LoadedSound DEF LinesSound
<1>10. ASSUME NEW section \in Sections \ cut, NEW key, NEW v, "#" \notin v.marks, Kept(lines, section, key, v)
       PROVE  Kept(lines', section, key, Trim(v))
  <2>1. PICK a, b \in DOMAIN lines : Reads(lines, section, key, v, a, b)
    BY <1>10 DEF Kept
  <2>2. a \in 1 .. Len(lines) /\ b \in 1 .. Len(lines) /\ a < b /\ DOMAIN lines = 1 .. Len(lines)
    BY <1>3, <2>1 DEF Reads
  <2>3. ASSUME NEW j \in (a + 1) .. b PROVE j \in DOMAIN lines /\ lines[j].type # "section" /\ Steady(lines[j])
    <3>1. \A i \in (a + 1) .. j : lines[i].type # "section"
      <4> SUFFICES ASSUME NEW i \in (a + 1) .. j PROVE lines[i].type # "section"
        OBVIOUS
      <4>1. i = b \/ i \in (a + 1) .. (b - 1)
        BY <2>2
      <4> QED BY <2>1, <4>1, KindsDiffer DEF Reads, IsKey
    <3>2. j \in DOMAIN lines /\ a < j /\ j \in (a + 1) .. j
      BY <2>2
    <3>3. Under(lines, section, j)
      BY <2>1, <3>1, <3>2 DEF Under, Reads
    <3>4. Steady(lines[j])
      BY <1>3, <3>2, <3>3 DEF SteadyLines, SteadyIn
    <3> QED BY <3>1, <3>2, <3>4
  <2>4. \A j \in 1 .. (a - 1) : j \in DOMAIN lines /\ ~IsSection(lines[j], section)
    BY <2>1, <2>2 DEF Reads
  <2>5. ASSUME NEW j \in (a + 1) .. (b - 1) PROVE lines'[j].type # "section" /\ ~IsKey(lines'[j], key)
    <3>1. j \in (a + 1) .. b
      BY <2>2
    <3>2. j \in DOMAIN lines /\ Steady(lines[j]) /\ ~IsKey(lines[j], key)
      BY <2>1, <2>3, <3>1 DEF Reads
    <3> QED BY <1>6, <1>7, <3>2 DEF Steady
  <2>6. IsKey(lines'[b], key) /\ lines'[b].value = Trim(v) /\ lines'[b].at = Len(lines'[b].name)
    <3>1. b \in (a + 1) .. b /\ IsKey(lines[b], key) /\ lines[b].value = v
      BY <2>1, <2>2 DEF Reads
    <3>2. lines'[b].type = "key"
      BY <1>7, <1>10, <2>3, <3>1 DEF IsKey
    <3> QED BY <1>6, <3>1, <3>2 DEF IsKey
  <2>7. IsSection(lines'[a], section) /\ \A j \in 1 .. (a - 1) : ~IsSection(lines'[j], section)
    BY <1>7, <2>1, <2>4 DEF Reads
  <2>8. Reads(lines', section, key, Trim(v), a, b)
    BY <1>5, <2>1, <2>2, <2>5, <2>6, <2>7 DEF Reads
  <2> QED BY <1>5, <2>8 DEF Kept
<1>11. SetsKept'
  <2> SUFFICES ASSUME NEW s \in DOMAIN lastSet'
               PROVE  /\ s = <<s[1], s[2]>> /\ s[1] \in Sections /\ s[2] \in ConfigKeys
                      /\ s[2] \in AloneKeys => Kept(lines', s[1], s[2], lastSet'[s])
    BY DEF SetsKept
  <2>1. s \in DOMAIN lastSet /\ s[1] \notin cut /\ "#" \notin lastSet[s].marks /\ lastSet'[s] = Trim(lastSet[s])
    BY <1>1
  <2> QED BY <1>3, <1>10, <2>1 DEF SetsKept
<1>12. Holds(file', lines')
  BY <1>2, <1>4, LoadedSound
<1>13. OneSaves' /\ SavesWhole'
  BY <1>1, <1>12 DEF OneSaves, SavesWhole, SavePcs
<1> QED BY <1>9, <1>11, <1>13

\* As long as no two saves overlap and none is cut short, a setting reads as it was set last, and
\* after a restart without its blanks, unless its value has a '#' or its section was given one with
\* both brackets (CIniFile).
THEOREM SettingsAreRead == ConfigSpec => []SetIsKept
<1>1. ConfigInv /\ [ConfigNext]_configVars => ConfigInv'
  <2> SUFFICES ASSUME ConfigInv, [ConfigNext]_configVars PROVE ConfigInv'
    OBVIOUS
  <2>1. CASE Restart
    BY <2>1, RestartStep
  <2>2. ASSUME NEW w \in Writers, Truncate(w) \/ Format(w) \/ Flush(w) PROVE ConfigInv'
    BY <2>2, SaveStep
  <2>3. ASSUME NEW w \in Writers, NEW s \in Sections, NEW k \in ConfigKeys, NEW v \in ConfigValues, Set(w, s, k, v)
        PROVE  ConfigInv'
    BY <2>3, SetStep
  <2>4. CASE UNCHANGED configVars
    BY <2>4 DEF configVars, ConfigInv, LinesSound, SetsKept, OneSaves, SavesWhole
  <2> QED BY <2>1, <2>2, <2>3, <2>4 DEF ConfigNext
<1> QED BY <1>1, ConfigStarts, ConfigReads, PTL DEF ConfigSpec

-----------------------------------------------------------------------------
(* DevicesPoll.                                                            *)


\* The loops' positions, and what the thread has not yet looked at.
Loop == poll.pc \in {"compare", "store"}
Starting == {"off", "init_hdmi", "init_avin"}

Positions ==
    /\ Loop => poll.file # "vdin" /\ poll.i \in 1..Size[poll.file]
    /\ poll.pc = "store" /\ poll.file = "hdmi" => poll.i = NHdmi
    /\ poll.pc \in Starting \cup {"wait"} => poll.batch = {}
    /\ \A c \in Callers : caller[c].pc # "idle" => caller[c].ask \in Queries

\* The thread has read the start level of s.
Started(s) ==
    /\ s[1] = "hdmi" => poll.pc \notin {"off", "init_hdmi"}
    /\ s[1] = "avin" => poll.pc \notin Starting

\* s has been compared but its level is not remembered yet.
Compared(s) ==
    /\ poll.file = s[1]
    /\ \/ poll.pc = "compare" /\ s[1] = "hdmi" /\ s[2] < poll.i
       \/ poll.pc = "store" /\ (s[1] = "hdmi" \/ s[2] = poll.i)

\* The file of s has been read and s is still to be compared.
ToCompare(s) ==
    /\ poll.file = s[1] /\ Loop
    /\ s[2] > poll.i \/ (s[2] = poll.i /\ poll.pc = "compare")

\* An edge of the file of s is pending, or the thread is about to read it.
Awaited(s) ==
    \/ s[1] \in ready \/ s[1] \in poll.batch
    \/ poll.pc = "read" /\ poll.file = s[1]

\* A level that was not reported will be; and what was read is current unless
\* another edge is pending.
Reported(s) ==
    /\ Started(s) => told[s] = wire[s] \/ Awaited(s) \/ ToCompare(s)
    /\ ToCompare(s) => poll.snap[s] = wire[s] \/ s[1] \in ready

\* What is remembered is what was reported.
Remembers(s) ==
    /\ Compared(s) => told[s] = poll.snap[s]
    /\ Started(s) /\ s[1] # "vdin" /\ ~Compared(s) => cache[s] = told[s]

IInv == PollTypeOK /\ Positions /\ \A s \in Undisturbed : Reported(s) /\ Remembers(s)

-----------------------------------------------------------------------------
\* A socket is a file and a position in it.
LEMMA SocketParts ==
    ASSUME NEW s \in Sockets
    PROVE  /\ s = <<s[1], s[2]>> /\ s[1] \in Files /\ s[2] \in 1..Size[s[1]]
           /\ s[2] \in Nat /\ s[2] >= 1 /\ Size[s[1]] \in Nat
<1>1. PICK f \in Files : s \in {f} \X (1..Size[f])
  BY DEF Sockets
<1>2. Size[f] \in Nat
  BY NHdmiAssumption DEF Size, Files
<1> QED BY <1>1, <1>2

LEMMA SocketOf ==
    ASSUME NEW f \in Files, NEW i \in 1..Size[f]
    PROVE  <<f, i>> \in Sockets
BY DEF Sockets

\* The initial states satisfy the invariant.
LEMMA InitIInv == PollInit => IInv
<1> SUFFICES ASSUME PollInit PROVE IInv
  OBVIOUS
<1>0. cache \in Levels
  BY DEF PollInit, Levels
<1>1. Out \in Levels
  BY DEF Out, Levels
<1>2. PollTypeOK
  BY <1>0, <1>1 DEF PollInit, PollTypeOK, Poll, PollPcs, Files, Caller, Askable
<1>3. Positions
  BY DEF PollInit, Positions, Loop, Starting
<1>4. ASSUME NEW s \in Undisturbed PROVE Reported(s) /\ Remembers(s)
  <2>1. s \in Sockets
    BY DEF Undisturbed
  <2>2. s = <<s[1], s[2]>> /\ s[1] \in Files /\ s[2] \in 1..Size[s[1]]
    BY <2>1, SocketParts
  <2>3. Started(s) => s = <<"vdin", 1>>
    BY <2>2 DEF PollInit, Started, Starting, Files, Size
  <2>4. s = <<"vdin", 1>> => told[s] = wire[s]
    BY <2>1 DEF PollInit, Out, Levels
  <2>5. ~Compared(s) /\ ~ToCompare(s)
    BY DEF PollInit, Compared, ToCompare, Loop
  <2> QED BY <2>2, <2>3, <2>4, <2>5 DEF Reported, Remembers
<1> QED BY <1>2, <1>3, <1>4 DEF IInv
-----------------------------------------------------------------------------
\* Filling levels from a file gives levels.
LEMMA FillLevels ==
    ASSUME NEW l \in Levels, NEW f \in Files, NEW m \in Levels
    PROVE  /\ Fill(l, f, m) \in Levels
           /\ \A s \in Sockets : Fill(l, f, m)[s] = IF s[1] = f THEN m[s] ELSE l[s]
BY DEF Fill, Levels

\* A step of a driver keeps the invariant: the change comes with an edge.
LEMMA PlugStep ==
    ASSUME IInv, NEW p \in Sockets, Plug(p) PROVE IInv'
<1>1. p[1] \in Files
  BY SocketParts
<1>2. PollTypeOK'
  BY <1>1 DEF IInv, PollTypeOK, Plug, Levels
<1>3. Positions'
  BY DEF IInv, Positions, Plug, Loop, Starting
<1>4. ASSUME NEW s \in Undisturbed PROVE (Reported(s) /\ Remembers(s))'
  <2>1. Reported(s) /\ Remembers(s) /\ s \in Sockets
    BY DEF IInv, Undisturbed
  <2>2. s = p \/ wire'[s] = wire[s]
    BY <2>1 DEF Plug, IInv, PollTypeOK, Levels
  <2>3. s = p => s[1] \in ready'
    BY DEF Plug
  <2> QED BY <2>1, <2>2, <2>3
          DEF Plug, Reported, Remembers, Started, Starting, Awaited, ToCompare,
              Compared, Loop
<1> QED BY <1>2, <1>3, <1>4 DEF IInv

\* The thread starts: nothing has been read yet.
LEMMA StartStep ==
    ASSUME IInv, StartDetect PROVE IInv'
<1>1. PollTypeOK'
  BY DEF IInv, PollTypeOK, StartDetect, Poll, PollPcs
<1>2. Positions'
  BY DEF IInv, PollTypeOK, Poll, Positions, StartDetect, Loop, Starting
<1>3. ASSUME NEW s \in Undisturbed PROVE (Reported(s) /\ Remembers(s))'
  <2>1. Reported(s) /\ Remembers(s) /\ s \in Sockets
    BY DEF IInv, Undisturbed
  <2>2. s[1] \in Files
    BY <2>1, SocketParts
  <2> QED BY <2>1, <2>2
          DEF StartDetect, IInv, PollTypeOK, Poll, Reported, Remembers, Started,
              Starting, Awaited, ToCompare, Compared, Loop, Files
<1> QED BY <1>1, <1>2, <1>3 DEF IInv

\* The first reads: what is found is remembered and counts as told.
LEMMA InitReadStep ==
    ASSUME IInv,
           \/ InitRead("init_hdmi", "hdmi", "init_avin")
           \/ InitRead("init_avin", "avin", "wait")
    PROVE  IInv'
<1>1. PICK f \in {"hdmi", "avin"} :
        /\ f = "hdmi" => poll.pc = "init_hdmi" /\ poll' = [poll EXCEPT !.pc = "init_avin"]
        /\ f = "avin" => poll.pc = "init_avin" /\ poll' = [poll EXCEPT !.pc = "wait"]
        /\ cache' = Fill(cache, f, wire) /\ told' = Fill(told, f, wire)
        /\ UNCHANGED <<wire, ready, caller>>
  BY DEF InitRead
<1>2. /\ cache' \in Levels /\ told' \in Levels
      /\ \A s \in Sockets : cache'[s] = IF s[1] = f THEN wire[s] ELSE cache[s]
      /\ \A s \in Sockets : told'[s] = IF s[1] = f THEN wire[s] ELSE told[s]
  BY <1>1, FillLevels DEF IInv, PollTypeOK, Files
<1>3. PollTypeOK'
  BY <1>1, <1>2 DEF IInv, PollTypeOK, Poll, PollPcs
<1>4. Positions'
  BY <1>1 DEF IInv, PollTypeOK, Poll, Positions, Loop, Starting
<1>5. ASSUME NEW s \in Undisturbed PROVE (Reported(s) /\ Remembers(s))'
  <2>1. Reported(s) /\ Remembers(s) /\ s \in Sockets
    BY DEF IInv, Undisturbed
  <2>2. s[1] \in Files
    BY <2>1, SocketParts
  <2> QED BY <1>1, <1>2, <2>1, <2>2
          DEF IInv, PollTypeOK, Poll, Reported, Remembers, Started, Starting,
              Awaited, ToCompare, Compared, Loop, Files
<1> QED BY <1>3, <1>4, <1>5 DEF IInv

\* epoll_wait and the choice of the next event only move the edges.
LEMMA EventStep ==
    ASSUME IInv, Wait \/ Take PROVE IInv'
<1>1. PollTypeOK'
  <2>1. CASE Wait
    BY <2>1 DEF IInv, PollTypeOK, Wait, Poll, PollPcs
  <2>2. CASE Take /\ poll.batch = {} /\ poll' = [poll EXCEPT !.pc = "wait"]
    BY <2>2 DEF IInv, PollTypeOK, Take, Poll, PollPcs
  <2>3. CASE Take /\ \E f \in poll.batch : poll' =
               [poll EXCEPT !.pc = "read", !.batch = @ \ {f}, !.file = f]
    BY <2>3 DEF IInv, PollTypeOK, Take, Poll, PollPcs
  <2> QED BY <2>1, <2>2, <2>3 DEF Take
<1>2. Positions'
  BY DEF IInv, PollTypeOK, Poll, Positions, Wait, Take, Loop, Starting
<1>3. ASSUME NEW s \in Undisturbed PROVE (Reported(s) /\ Remembers(s))'
  <2>1. Reported(s) /\ Remembers(s) /\ s \in Sockets
    BY DEF IInv, Undisturbed
  <2>2. s[1] \in Files
    BY <2>1, SocketParts
  <2>3. /\ Started(s) /\ ~Compared(s) /\ ~Compared(s)'
        /\ ~ToCompare(s) /\ ~ToCompare(s)'
    BY <2>2 DEF IInv, PollTypeOK, Poll, Wait, Take, Started, Starting, Compared,
                ToCompare, Loop
  <2>4. Awaited(s) => Awaited(s)'
    <3>1. CASE Wait
      BY <3>1 DEF IInv, PollTypeOK, Poll, Positions, Wait, Awaited
    <3>2. CASE Take
      BY <3>2 DEF IInv, PollTypeOK, Poll, Take, Awaited
    <3> QED BY <3>1, <3>2
  <2>5. UNCHANGED <<wire, cache, told>>
    BY DEF Wait, Take
  <2> QED BY <2>1, <2>3, <2>4, <2>5 DEF Reported, Remembers
<1> QED BY <1>1, <1>2, <1>3 DEF IInv

\* Reading a file: its sockets are now to be compared.
LEMMA ReadStep ==
    ASSUME IInv, Read PROVE IInv'
<1>0. Out \in Levels
  BY DEF Out, Levels
<1>1. poll.file \in Files /\ poll.pc = "read"
  BY DEF IInv, PollTypeOK, Poll, Read
<1>2. CASE poll.file = "vdin"
  <2>1. /\ told' \in Levels
        /\ \A s \in Sockets : told'[s] = IF s[1] = "vdin" THEN wire[s] ELSE told[s]
    BY <1>1, <1>2, FillLevels DEF Read, IInv, PollTypeOK
  <2>2. poll' = [poll EXCEPT !.pc = "take"] /\ UNCHANGED <<wire, ready, cache, caller>>
    BY <1>2 DEF Read
  <2>3. PollTypeOK'
    BY <2>1, <2>2 DEF IInv, PollTypeOK, Poll, PollPcs
  <2>4. Positions'
    BY <2>2 DEF IInv, PollTypeOK, Poll, Positions, Loop, Starting
  <2>5. ASSUME NEW s \in Undisturbed PROVE (Reported(s) /\ Remembers(s))'
    <3>1. Reported(s) /\ Remembers(s) /\ s \in Sockets
      BY DEF IInv, Undisturbed
    <3> QED BY <1>1, <1>2, <2>1, <2>2, <3>1
            DEF IInv, PollTypeOK, Poll, Reported, Remembers, Started, Starting,
                Awaited, ToCompare, Compared, Loop
  <2> QED BY <2>3, <2>4, <2>5 DEF IInv
<1>3. CASE poll.file # "vdin"
  <2> DEFINE m == Fill(Out, poll.file, wire)
  <2>1. m \in Levels /\ \A s \in Sockets : s[1] = poll.file => m[s] = wire[s]
    BY <1>0, <1>1, FillLevels DEF IInv, PollTypeOK
  <2>2. /\ poll' = [poll EXCEPT !.pc = "compare", !.i = 1, !.snap = m]
        /\ UNCHANGED <<wire, ready, cache, told, caller>>
    BY <1>3 DEF Read
  <2> HIDE DEF m
  <2>3. PollTypeOK'
    BY <2>1, <2>2 DEF IInv, PollTypeOK, Poll, PollPcs
  <2>4. 1 \in 1..Size[poll.file]
    BY <1>1, NHdmiAssumption DEF Size, Files
  <2>5. Positions'
    BY <1>1, <1>3, <2>2, <2>4 DEF IInv, PollTypeOK, Poll, Positions, Loop, Starting
  <2>6. ASSUME NEW s \in Undisturbed PROVE (Reported(s) /\ Remembers(s))'
    <3>1. Reported(s) /\ Remembers(s) /\ s \in Sockets
      BY DEF IInv, Undisturbed
    <3>2. s[1] \in Files /\ s[2] \in Nat /\ s[2] >= 1
      BY <3>1, SocketParts
    <3>3. Started(s) /\ ~Compared(s) /\ ~Compared(s)'
      BY <1>1, <2>2, <3>2 DEF IInv, PollTypeOK, Poll, Started, Starting, Compared
    <3>4. s[1] = poll.file => ToCompare(s)' /\ poll'.snap[s] = wire'[s]
      BY <2>1, <2>2, <3>1, <3>2 DEF IInv, PollTypeOK, Poll, ToCompare, Loop
    <3>5. s[1] # poll.file => /\ ~ToCompare(s) /\ ~ToCompare(s)'
                              /\ Awaited(s) => Awaited(s)'
      BY <2>2 DEF IInv, PollTypeOK, Poll, ToCompare, Awaited
    <3>6. told'[s] = told[s] /\ cache'[s] = cache[s] /\ wire'[s] = wire[s]
      BY <2>2
    <3>7. Reported(s)'
      <4>1. CASE s[1] = poll.file
        BY <3>4, <4>1 DEF Reported
      <4>2. CASE s[1] # poll.file
        BY <3>1, <3>3, <3>5, <3>6, <4>2 DEF Reported
      <4> QED BY <4>1, <4>2
    <3>8. Remembers(s)'
      BY <3>1, <3>3, <3>6 DEF Remembers
    <3> QED BY <3>7, <3>8
  <2> QED BY <2>3, <2>5, <2>6 DEF IInv
<1> QED BY <1>2, <1>3

\* The loop's socket.
LEMMA LoopSocket ==
    ASSUME IInv, Loop
    PROVE  /\ Socket \in Sockets /\ Socket[1] = poll.file /\ Socket[2] = poll.i
           /\ poll.file \in {"hdmi", "avin"} /\ poll.i \in Nat
           /\ poll.i >= 1 /\ poll.i <= Size[poll.file] /\ Size[poll.file] \in Nat
<1>1. poll.file \in {"hdmi", "avin"} /\ poll.i \in 1..Size[poll.file]
  BY DEF IInv, PollTypeOK, Poll, Files, Positions
<1>2. Size[poll.file] \in Nat
  BY <1>1, NHdmiAssumption DEF Size, Files
<1> QED BY <1>1, <1>2, SocketOf DEF Socket, Files

\* Comparing a socket reports a level that is not the remembered one.
LEMMA CompareStep ==
    ASSUME IInv, Compare PROVE IInv'
<1>1. Loop /\ poll.pc = "compare"
  BY DEF Compare, Loop
<1>2. /\ Socket \in Sockets /\ Socket[1] = poll.file /\ Socket[2] = poll.i
      /\ poll.file \in {"hdmi", "avin"} /\ poll.i \in Nat
      /\ poll.i >= 1 /\ poll.i <= Size[poll.file] /\ Size[poll.file] \in Nat
  BY <1>1, LoopSocket
<1>3. /\ told' \in Levels
      /\ \A s \in Sockets : s # Socket => told'[s] = told[s]
      /\ told'[Socket] = IF poll.snap[Socket] # cache[Socket]
                         THEN poll.snap[Socket] ELSE told[Socket]
  BY <1>2 DEF Compare, IInv, PollTypeOK, Poll, Levels
<1>4. \/ /\ poll.file = "hdmi" /\ poll.i # Size[poll.file]
         /\ poll' = [poll EXCEPT !.i = @ + 1]
      \/ /\ poll.file = "avin" \/ poll.i = Size[poll.file]
         /\ poll' = [poll EXCEPT !.pc = "store"]
  BY <1>2 DEF Compare, LastSocket
<1>5. UNCHANGED <<wire, ready, cache, caller>>
  BY DEF Compare
<1>6. PollTypeOK'
  BY <1>2, <1>3, <1>4, <1>5 DEF IInv, PollTypeOK, Poll, PollPcs
<1>7. Positions'
  <2>1. Size["hdmi"] = NHdmi
    BY DEF Size, Files
  <2> QED BY <1>1, <1>2, <1>4, <1>5, <2>1
          DEF IInv, PollTypeOK, Poll, Positions, Loop, Starting
<1>8. ASSUME NEW s \in Undisturbed PROVE (Reported(s) /\ Remembers(s))'
  <2>1. Reported(s) /\ Remembers(s) /\ s \in Sockets
    BY DEF IInv, Undisturbed
  <2>2. /\ s = <<s[1], s[2]>> /\ s[2] \in Nat /\ s[1] \in Files
        /\ s[2] <= Size[s[1]]
    BY <2>1, SocketParts
  <2>3. Started(s) /\ Started(s)' /\ (Awaited(s) <=> Awaited(s)')
    BY <1>1, <1>4, <1>5 DEF IInv, PollTypeOK, Poll, Started, Starting, Awaited
  <2>4. CASE s = Socket
    <3>1. ToCompare(s) /\ ~Compared(s) /\ s[1] # "vdin"
      BY <1>1, <1>2, <2>4 DEF ToCompare, Compared
    <3>2. told'[s] = poll.snap[s]
      <4>1. cache[s] = told[s]
        BY <2>1, <2>3, <3>1 DEF Remembers
      <4> QED BY <1>3, <2>4, <4>1
    <3>3. poll'.snap = poll.snap
      BY <1>4 DEF IInv, PollTypeOK, Poll
    <3>4. Compared(s)' /\ ~ToCompare(s)'
      BY <1>1, <1>2, <1>4, <2>4 DEF IInv, PollTypeOK, Poll, Compared, ToCompare, Loop
    <3>6. told'[s] = wire'[s] \/ Awaited(s)'
      <4>1. CASE poll.snap[s] = wire[s]
        BY <4>1, <3>2, <1>5
      <4>2. CASE s[1] \in ready
        BY <4>2, <1>5 DEF Awaited
      <4> QED BY <4>1, <4>2, <3>1, <2>1 DEF Reported
    <3> QED BY <3>2, <3>3, <3>4, <3>6 DEF Remembers, Reported
  <2>5. CASE s # Socket
    <3>1. told'[s] = told[s] /\ cache'[s] = cache[s] /\ wire'[s] = wire[s]
      BY <1>3, <1>5, <2>1, <2>5
    <3>2. s[1] = poll.file => s[2] # poll.i
      BY <2>2, <2>5 DEF Socket
    <3>3. (Compared(s) <=> Compared(s)') /\ (ToCompare(s) <=> ToCompare(s)')
      BY <1>1, <1>2, <1>4, <2>2, <3>2
      DEF IInv, PollTypeOK, Poll, Compared, ToCompare, Loop
    <3>4. poll'.snap = poll.snap
      BY <1>4 DEF IInv, PollTypeOK, Poll
    <3> QED BY <1>5, <2>1, <2>3, <3>1, <3>3, <3>4 DEF Reported, Remembers
  <2> QED BY <2>4, <2>5
<1> QED BY <1>6, <1>7, <1>8 DEF IInv

\* Storing: what was compared and reported is now remembered.
LEMMA StoreStep ==
    ASSUME IInv, Store PROVE IInv'
<1>1. Loop /\ poll.pc = "store"
  BY DEF Store, Loop
<1>2. /\ Socket \in Sockets /\ Socket[1] = poll.file /\ Socket[2] = poll.i
      /\ poll.file \in {"hdmi", "avin"} /\ poll.i \in Nat
      /\ poll.i >= 1 /\ poll.i <= Size[poll.file] /\ Size[poll.file] \in Nat
  BY <1>1, LoopSocket
<1>3. /\ cache' \in Levels
      /\ \A s \in Sockets : Compared(s) => cache'[s] = poll.snap[s]
      /\ \A s \in Sockets : ~Compared(s) => cache'[s] = cache[s]
  <2>1. CASE poll.file = "hdmi"
    <3>1. cache' = Fill(cache, "hdmi", poll.snap)
      BY <2>1 DEF Store
    <3>2. \A s \in Sockets : Compared(s) <=> s[1] = "hdmi"
      BY <1>1, <2>1 DEF Compared
    <3> QED BY <3>1, <3>2, FillLevels DEF IInv, PollTypeOK, Poll, Files
  <2>2. CASE poll.file = "avin"
    <3>1. cache' = [cache EXCEPT ![Socket] = poll.snap[Socket]]
      BY <2>2 DEF Store
    <3>2. ASSUME NEW s \in Sockets PROVE Compared(s) <=> s = Socket
      <4>1. s = <<s[1], s[2]>>
        BY SocketParts
      <4> QED BY <4>1, <1>1, <1>2, <2>2 DEF Compared, Socket
    <3> QED BY <3>1, <3>2, <1>2 DEF IInv, PollTypeOK, Poll, Levels
  <2> QED BY <1>2, <2>1, <2>2
<1>4. \/ /\ poll.i = Size[poll.file]
         /\ poll' = [poll EXCEPT !.pc = "take", !.snap = Out]
      \/ /\ poll.i # Size[poll.file]
         /\ poll' = [poll EXCEPT !.pc = "compare", !.i = @ + 1]
  BY <1>2 DEF Store, NextSocket, LastSocket
<1>5. UNCHANGED <<wire, ready, told, caller>>
  BY DEF Store
<1>6. Out \in Levels
  BY DEF Out, Levels
<1> DEFINE n == Size[poll.file]
<1>7. /\ poll'.file = poll.file /\ poll'.batch = poll.batch /\ poll' \in Poll
      /\ \/ poll.i = n /\ poll'.pc = "take" /\ poll'.i = poll.i
         \/ /\ poll.i < n /\ poll'.pc = "compare" /\ poll'.i = poll.i + 1
            /\ poll'.snap = poll.snap
  <2> HIDE DEF n
  <2>1. poll.i <= n /\ n \in Nat /\ poll.i \in Nat
    BY <1>2 DEF n
  <2>2. CASE poll.i = n
    <3>1. poll' = [poll EXCEPT !.pc = "take", !.snap = Out]
      BY <1>4, <2>2 DEF n
    <3> QED BY <3>1, <1>6, <2>2 DEF IInv, PollTypeOK, Poll, PollPcs
  <2>3. CASE poll.i # n
    <3>1. poll' = [poll EXCEPT !.pc = "compare", !.i = @ + 1]
      BY <1>4, <2>3 DEF n
    <3>2. poll.i < n
      BY <2>1, <2>3
    <3>3. poll.i + 1 \in Nat
      BY <2>1
    <3> QED BY <3>1, <3>2, <3>3 DEF IInv, PollTypeOK, Poll, PollPcs
  <2> QED BY <2>2, <2>3
<1>8. poll.file = "hdmi" => poll.i = n
  BY <1>1 DEF IInv, Positions, Size, Files
<1>11. PollTypeOK'
  BY <1>3, <1>5, <1>7 DEF IInv, PollTypeOK
<1>9. Positions'
  <2>1. Loop' => poll'.file # "vdin" /\ poll'.i \in 1..n
    BY <1>2, <1>7 DEF Loop
  <2>2. poll'.pc \notin Starting \cup {"wait", "store"}
    BY <1>7 DEF Starting
  <2> QED BY <1>5, <1>7, <2>1, <2>2 DEF IInv, Positions, Starting
<1>10. ASSUME NEW s \in Undisturbed PROVE (Reported(s) /\ Remembers(s))'
  <2>1. Reported(s) /\ Remembers(s) /\ s \in Sockets
    BY DEF IInv, Undisturbed
  <2>2. s[2] \in Nat /\ s[2] <= Size[s[1]] /\ s[2] >= 1
    BY <2>1, SocketParts
  <2>3. Started(s) /\ Started(s)' /\ (Awaited(s) <=> Awaited(s)')
    BY <1>1, <1>5, <1>7 DEF Started, Starting, Awaited
  <2>4. ~Compared(s)'
    BY <1>2, <1>7, <1>8 DEF Compared
  <2>9. s[1] = poll.file => s[2] <= n
    BY <2>2
  <2>5. ToCompare(s) <=> ToCompare(s)'
    <3> HIDE DEF n
    <3> QED BY <1>1, <1>2, <1>7, <2>2, <2>9 DEF ToCompare, Loop
  <2>6. ToCompare(s) => poll'.snap = poll.snap
    <3> HIDE DEF n
    <3> QED BY <1>1, <1>2, <1>7, <2>2, <2>9 DEF ToCompare
  <2>7. Reported(s)'
    BY <1>5, <2>1, <2>3, <2>5, <2>6 DEF Reported
  <2>8. s[1] # "vdin" => cache'[s] = told'[s]
    BY <1>3, <1>5, <2>1, <2>3 DEF Remembers
  <2> QED BY <2>4, <2>7, <2>8 DEF Remembers
<1> QED BY <1>9, <1>10, <1>11 DEF IInv

\* A question overwrites the remembered level of disturbed sockets only.
LEMMA CallerStep ==
    ASSUME IInv, NEW c \in Callers, GetSourceConnectStatus(c) PROVE IInv'
<1>0. Out \in Levels
  BY DEF Out, Levels
<1>1. FileOf(caller[c].ask) \in Files
  BY DEF FileOf, Files
<1>2. Fill(Out, FileOf(caller[c].ask), wire) \in Levels
  BY <1>0, <1>1, FillLevels DEF IInv, PollTypeOK
<1>3. UNCHANGED <<wire, ready, told, poll>>
  BY DEF GetSourceConnectStatus, Ask, AskRead, AskStore
<1>4. caller[c] \in Caller
  BY DEF IInv, PollTypeOK
<1>5. cache' \in Levels /\ \A s \in Undisturbed : cache'[s] = cache[s]
  <2>1. CASE Ask(c) \/ AskRead(c)
    BY <2>1 DEF Ask, AskRead, IInv, PollTypeOK
  <2>2. CASE AskStore(c)
    <3>1. caller[c].ask \in Queries
      BY <2>2 DEF AskStore, IInv, Positions
    <3>2. \A s \in Undisturbed : ~Remembered(caller[c].ask, s)
      BY <3>1 DEF Undisturbed, Disturbed, Remembered
    <3> QED BY <2>2, <3>2, <1>4 DEF AskStore, IInv, PollTypeOK, Levels, Caller, Undisturbed
  <2> QED BY <2>1, <2>2 DEF GetSourceConnectStatus
<1>6. caller' \in [Callers -> Caller]
  <2>1. CASE Ask(c)
    <3>1. PICK q \in Queries :
            caller' = [caller EXCEPT ![c].pc = "read", ![c].ask = q]
      BY <2>1 DEF Ask
    <3> QED BY <3>1, <1>4, QueriesAssumption DEF IInv, PollTypeOK, Caller
  <2>2. CASE AskRead(c)
    BY <2>2, <1>2 DEF AskRead, IInv, PollTypeOK, Caller
  <2>3. CASE AskStore(c)
    BY <2>3, <1>0 DEF AskStore, IInv, PollTypeOK, Caller
  <2> QED BY <2>1, <2>2, <2>3 DEF GetSourceConnectStatus
<1>7. Positions'
  <2>1. ASSUME NEW d \in Callers, caller'[d].pc # "idle"
        PROVE  caller'[d].ask \in Queries
    BY <2>1 DEF GetSourceConnectStatus, Ask, AskRead, AskStore, IInv, PollTypeOK,
                Caller, Positions
  <2> QED BY <1>3, <2>1 DEF IInv, Positions, Loop
<1>8. PollTypeOK'
  BY <1>3, <1>5, <1>6 DEF IInv, PollTypeOK
<1>9. ASSUME NEW s \in Undisturbed PROVE (Reported(s) /\ Remembers(s))'
  <2>1. cache'[s] = cache[s]
    BY <1>5
  <2> QED BY <1>3, <2>1 DEF IInv, Reported, Remembers, Started, Compared,
                            ToCompare, Awaited, Loop
<1> QED BY <1>7, <1>8, <1>9 DEF IInv

-----------------------------------------------------------------------------
(* The invariant, and what follows from it. *)

LEMMA StepIInv == IInv /\ [PollNext]_pollVars => IInv'
<1> SUFFICES ASSUME IInv, [PollNext]_pollVars PROVE IInv'
  OBVIOUS
<1>1. ASSUME NEW s \in Moving, Plug(s) PROVE IInv'
  BY <1>1, PlugStep, MovingAssumption
<1>2. CASE StartDetect
  BY <1>2, StartStep
<1>3. CASE PollStep
  BY <1>3, InitReadStep, EventStep, ReadStep, CompareStep, StoreStep DEF PollStep
<1>4. ASSUME NEW c \in Callers, GetSourceConnectStatus(c) PROVE IInv'
  BY <1>4, CallerStep
<1>5. CASE UNCHANGED pollVars
  BY <1>5 DEF pollVars, IInv, PollTypeOK, Positions, Reported, Remembers, Started,
              Compared, ToCompare, Awaited, Loop
<1> QED BY <1>1, <1>2, <1>3, <1>4, <1>5 DEF PollNext

\* The remembered levels, the edges and the position of the poll thread always
\* account for every level that has not been reported yet.
THEOREM Accounted == PollSpec => []IInv
BY InitIInv, StepIInv, PTL DEF PollSpec

\* CDevicesPollStatusDetect::threadLoop: for any number of ports and threads,
\* when the thread sleeps every undisturbed level has been reported.
THEOREM NeverMissed == PollSpec => []NothingMissed
<1>1. IInv => NothingMissed
  <2> SUFFICES ASSUME IInv, Asleep, NEW s \in Undisturbed
               PROVE  told[s] = wire[s]
    BY DEF NothingMissed
  <2>1. Started(s) /\ ~ToCompare(s) /\ ~Awaited(s)
    BY DEF IInv, Positions, Asleep, Started, Starting, ToCompare, Loop, Awaited
  <2> QED BY <2>1 DEF IInv, Reported
<1> QED BY <1>1, Accounted, PTL

\* onSourceConnect never repeats what it said last about an undisturbed input.
THEOREM AlwaysNews == PollSpec => []NewsOnly
<1>1. IInv => NewsOnly
  <2> SUFFICES ASSUME IInv, Reporting, Socket \in Undisturbed
               PROVE  poll.snap[Socket] # told[Socket]
    BY DEF NewsOnly
  <2>1. Loop /\ poll.pc = "compare"
    BY DEF Reporting, Loop
  <2>2. /\ Socket[1] = poll.file /\ Socket[2] = poll.i /\ poll.i \in Nat
        /\ poll.file \in {"hdmi", "avin"}
    BY <2>1, LoopSocket
  <2>3. Started(Socket) /\ ~Compared(Socket) /\ Socket[1] # "vdin"
    BY <2>1, <2>2 DEF Started, Starting, Compared
  <2>4. cache[Socket] = told[Socket]
    BY <2>3 DEF IInv, Remembers
  <2> QED BY <2>4 DEF Reporting
<1> QED BY <1>1, Accounted, PTL

(***************************************************************************)
(* The parcels.  Each part of a parcel fills a run of slots (Covers, Join) *)
(* or a run of fields (Row, RowJoin); a parcel is the join of its parts.   *)
(***************************************************************************)

\* Its writes use the n slots from p on, each once, and no other.
Covers(W, p, n) ==
  /\ \A w \in W : w[1] \in p .. (p + n - 1)
  /\ \A i \in p .. (p + n - 1) : \E w \in W : w[1] = i
  /\ \A v, w \in W : v[1] = w[1] => v = w
Carried(W) == {w[2] : w \in W}

\* There are as many writes as slots.
LEMMA CoversCount ==
  ASSUME NEW W, NEW n \in Nat, Covers(W, 0, n)
  PROVE  {w[1] : w \in W} = 0 .. (Cardinality(W) - 1) /\ Cardinality(W) = n
<1> DEFINE D == 0 .. (n - 1)
           g == [i \in D |-> CHOOSE w \in W : w[1] = i]
<1>1. /\ \A w \in W : w[1] \in D
      /\ \A i \in D : \E w \in W : w[1] = i
      /\ \A v, w \in W : v[1] = w[1] => v = w
  BY DEF Covers
<1>2. IsFiniteSet(D) /\ Cardinality(D) = n
  <2>1. 0 \in Int /\ n - 1 \in Int
    OBVIOUS
  <2>2. IsFiniteSet(D) /\ Cardinality(D) = IF 0 > n - 1 THEN 0 ELSE (n - 1) - 0 + 1
    BY <2>1, FS_Interval
  <2> QED BY <2>2
<1> HIDE DEF D
<1>3. \A i \in D : g[i] \in W /\ g[i][1] = i
  <2> TAKE i \in D
  <2>1. g[i] = CHOOSE w \in W : w[1] = i
    OBVIOUS
  <2>2. \E w \in W : w[1] = i
    BY <1>1
  <2> HIDE DEF g
  <2> QED BY <2>1, <2>2
<1>4. g \in [D -> W]
  BY <1>1
<1> HIDE DEF g
<1>5. g \in Injection(D, W)
  BY <1>3, <1>4 DEF Injection, IsInjective
<1>6. g \in Surjection(D, W)
  <2>1. \A w \in W : \E i \in D : g[i] = w
    <3> TAKE w \in W
    <3>1. w[1] \in D /\ g[w[1]] \in W /\ g[w[1]][1] = w[1]
      BY <1>1, <1>3
    <3>2. g[w[1]] = w
      BY <1>1, <3>1
    <3> QED BY <3>1, <3>2
  <2> QED BY <1>4, <2>1 DEF Surjection
<1>7. ExistsBijection(D, W)
  BY <1>5, <1>6 DEF ExistsBijection, Bijection
<1>8. Cardinality(W) = n
  BY <1>2, <1>7, FS_Bijection
<1>9. {w[1] : w \in W} = D
  BY <1>1
<1> QED BY <1>8, <1>9 DEF D

\* What fills the slots up to another's first joins with it.
LEMMA CoversJoin ==
  ASSUME NEW V, NEW W, NEW p \in Nat, NEW m \in Nat, NEW n \in Nat, Covers(V, p, m), Covers(W, p + m, n)
  PROVE  Covers(V \cup W, p, m + n)
<1>1. \A w \in V \cup W : w[1] \in p .. (p + (m + n) - 1)
  BY DEF Covers
<1>2. \A i \in p .. (p + (m + n) - 1) : \E w \in V \cup W : w[1] = i
  <2> TAKE i \in p .. (p + (m + n) - 1)
  <2>1. i \in p .. (p + m - 1) \/ i \in (p + m) .. (p + m + n - 1)
    OBVIOUS
  <2> QED BY <2>1 DEF Covers
<1>3. ASSUME NEW v \in V \cup W, NEW w \in V \cup W, v[1] = w[1] PROVE v = w
  <2>1. ASSUME NEW x \in V, NEW y \in W PROVE x[1] # y[1]
    <3>1. x[1] \in p .. (p + m - 1) /\ y[1] \in (p + m) .. (p + m + n - 1)
      BY DEF Covers
    <3> QED BY <3>1
  <2> QED BY <1>3, <2>1 DEF Covers
<1> QED BY <1>1, <1>2, <1>3 DEF Covers

\* The writes use the n slots from p on, each once, and carry the members M.
Fills(W, p, n, M) == Covers(W, p, n) /\ Carried(W) = M

LEMMA Join ==
  ASSUME NEW V, NEW W, NEW M, NEW N, NEW p \in Nat, NEW m \in Nat, NEW n \in Nat,
         NEW q, q = p + m, NEW l, l = m + n, Fills(V, p, m, M), Fills(W, q, n, N)
  PROVE  Fills(V \cup W, p, l, M \cup N)
<1>1. Covers(V, p, m) /\ Covers(W, p + m, n)
  BY DEF Fills
<1>2. Covers(V \cup W, p, m + n)
  BY <1>1, CoversJoin
<1>3. Carried(V \cup W) = Carried(V) \cup Carried(W)
  BY DEF Carried
<1> QED BY <1>2, <1>3 DEF Fills

LEMMA OneHolds == ASSUME NEW p \in Nat, NEW f PROVE Fills({<<p, f>>}, p, 1, {f})
BY DEF Fills, Covers, Carried

LEMMA ScalarsCover ==
  ASSUME NEW S, NEW names \in Seq(S), NEW p \in Nat
  PROVE  Covers(Scalars(p, names), p, Len(names)) /\ Carried(Scalars(p, names)) = Once({names[k] : k \in DOMAIN names})
<1> DEFINE n == Len(names)
           W == Scalars(p, names)
<1>1. n \in Nat /\ DOMAIN names = 1 .. n
  OBVIOUS
<1>2. W = {<<p + k - 1, <<names[k], 0>>>> : k \in 1 .. n}
  BY <1>1 DEF Scalars
<1>3. Carried(W) = Once({names[k] : k \in DOMAIN names})
  <2>1. Carried(W) = {<<names[k], 0>> : k \in 1 .. n}
    <3>1. ASSUME NEW w \in W PROVE w[2] \in {<<names[k], 0>> : k \in 1 .. n}
      BY <1>2
    <3>2. ASSUME NEW k \in 1 .. n PROVE <<names[k], 0>> \in Carried(W)
      <4> DEFINE w == <<p + k - 1, <<names[k], 0>>>>
      <4>1. w \in W /\ w[2] = <<names[k], 0>>
        BY <1>2
      <4> QED BY <4>1 DEF Carried
    <3> QED BY <3>1, <3>2 DEF Carried
  <2>2. Once({names[k] : k \in DOMAIN names}) = {<<names[k], 0>> : k \in 1 .. n}
    BY <1>1 DEF Once, Each
  <2> QED BY <2>1, <2>2
<1>4. Covers(W, p, n)
  <2> HIDE DEF n
  <2>1. \A w \in W : w[1] \in p .. (p + n - 1)
    <3> TAKE w \in W
    <3>1. PICK k \in 1 .. n : w = <<p + k - 1, <<names[k], 0>>>>
      BY <1>2
    <3>2. w[1] = p + k - 1
      BY <3>1
    <3> QED BY <1>1, <3>2
  <2>2. \A i \in p .. (p + n - 1) : \E w \in W : w[1] = i
    <3> TAKE i \in p .. (p + n - 1)
    <3> DEFINE k == i - p + 1
    <3>1. k \in 1 .. n /\ p + k - 1 = i
      BY <1>1
    <3> HIDE DEF k
    <3>2. <<p + k - 1, <<names[k], 0>>>> \in W
      BY <1>2, <3>1
    <3> QED BY <3>1, <3>2
  <2>3. ASSUME NEW v \in W, NEW w \in W, v[1] = w[1] PROVE v = w
    <3>1. PICK k \in 1 .. n : v = <<p + k - 1, <<names[k], 0>>>>
      BY <1>2
    <3>2. PICK l \in 1 .. n : w = <<p + l - 1, <<names[l], 0>>>>
      BY <1>2
    <3>3. p + k - 1 = p + l - 1
      BY <2>3, <3>1, <3>2
    <3>4. k = l
      BY <3>3
    <3> QED BY <3>1, <3>2, <3>4
  <2> QED BY <2>1, <2>2, <2>3 DEF Covers
<1> QED BY <1>3, <1>4

LEMMA ArrayCovers ==
  ASSUME NEW n \in Nat, NEW name, NEW p \in Nat
  PROVE  Covers(Array(p, n, name), p, n) /\ Carried(Array(p, n, name)) = Each({name}, 0 .. (n - 1))
<1> DEFINE W == Array(p, n, name)
<1>1. W = {<<p + i, <<name, i>>>> : i \in 0 .. (n - 1)}
  BY DEF Array
<1>2. Carried(W) = Each({name}, 0 .. (n - 1))
  <2>1. Carried(W) = {<<name, i>> : i \in 0 .. (n - 1)}
    <3>1. ASSUME NEW w \in W PROVE w[2] \in {<<name, i>> : i \in 0 .. (n - 1)}
      BY <1>1
    <3>2. ASSUME NEW i \in 0 .. (n - 1) PROVE <<name, i>> \in Carried(W)
      <4> DEFINE w == <<p + i, <<name, i>>>>
      <4>1. w \in W /\ w[2] = <<name, i>>
        BY <1>1
      <4> QED BY <4>1 DEF Carried
    <3> QED BY <3>1, <3>2 DEF Carried
  <2> QED BY <2>1 DEF Each
<1>3. Covers(W, p, n)
  <2>1. \A w \in W : w[1] \in p .. (p + n - 1)
    <3> TAKE w \in W
    <3>1. PICK k \in 0 .. (n - 1) : w = <<p + k, <<name, k>>>>
      BY <1>1
    <3>2. w[1] = p + k
      BY <3>1
    <3> QED BY <3>2
  <2>2. \A i \in p .. (p + n - 1) : \E w \in W : w[1] = i
    <3> TAKE i \in p .. (p + n - 1)
    <3> DEFINE k == i - p
    <3>1. k \in 0 .. (n - 1) /\ p + k = i
      OBVIOUS
    <3> HIDE DEF k
    <3>2. <<p + k, <<name, k>>>> \in W
      BY <1>1, <3>1
    <3> QED BY <3>1, <3>2
  <2>3. ASSUME NEW v \in W, NEW w \in W, v[1] = w[1] PROVE v = w
    <3>1. PICK k \in 0 .. (n - 1) : v = <<p + k, <<name, k>>>>
      BY <1>1
    <3>2. PICK l \in 0 .. (n - 1) : w = <<p + l, <<name, l>>>>
      BY <1>1
    <3>3. p + k = p + l
      BY <2>3, <3>1, <3>2
    <3>4. k = l
      BY <3>3
    <3> QED BY <3>1, <3>2, <3>4
  <2> QED BY <2>1, <2>2, <2>3 DEF Covers
<1> QED BY <1>2, <1>3


LEMMA ScalarsHold ==
  ASSUME NEW S, NEW names \in Seq(S), NEW p \in Nat, NEW n, n = Len(names), S = {names[k] : k \in 1 .. n}
  PROVE  Fills(Scalars(p, names), p, n, Once(S))
<1>1. DOMAIN names = 1 .. n
  OBVIOUS
<1> QED BY <1>1, ScalarsCover DEF Fills

LEMMA ArrayHolds ==
  ASSUME NEW n \in Nat, NEW name, NEW p \in Nat
  PROVE  Fills(Array(p, n, name), p, n, Each({name}, 0 .. (n - 1)))
BY ArrayCovers DEF Fills

ServiceHead ==
  {"Type", "Percent", "TotalChannelCount", "LockedStatus", "ChannelIndex", "Frequency", "programType",
   "Strength", "Snr", "VideoStd", "AudioStd", "IsAutoStd", "Mode", "SymbolRate", "Modulation", "Bandwidth",
   "Reserved", "TsId", "ONetId", "ServiceId", "Vid", "Vfmt", "Acnt"}

LEMMA HeadHolds == Fills(HeadWrites, 0, 23, Once(ServiceHead))
<1> DEFINE names == <<"Type", "Percent", "TotalChannelCount", "LockedStatus", "ChannelIndex", "Frequency",
               "programType", "Strength", "Snr", "VideoStd", "AudioStd", "IsAutoStd", "Mode",
               "SymbolRate", "Modulation", "Bandwidth", "Reserved", "TsId", "ONetId", "ServiceId",
               "Vid", "Vfmt", "Acnt">>
           S == ServiceHead
<1>1. Len(names) = 23 /\ DOMAIN names = 1 .. 23
  OBVIOUS
<1>2. names \in Seq(S)
  BY DEF ServiceHead
<1>3. S = {names[k] : k \in 1 .. 23}
  BY DEF ServiceHead
<1>4. HeadWrites = Scalars(0, names)
  BY DEF HeadWrites
<1> HIDE DEF names, S
<1>5. Fills(HeadWrites, 0, 23, Once(S))
  BY <1>1, <1>2, <1>3, <1>4, ScalarsHold
<1> QED BY <1>5 DEF S

LEMMA AudioHolds ==
  ASSUME NEW a \in Nat
  PROVE  Fills(AudioWrites(a), 23, 4 * a, Each({"Aid", "Afmt", "Atype", "AExt"}, 0 .. (a - 1)))
<1> DEFINE V1 == Array(23, a, "Aid")
           V2 == Array(a + 23, a, "Afmt")
           V3 == Array(2 * a + 23, a, "Atype")
           V4 == Array(3 * a + 23, a, "AExt")
           M(name) == Each({name}, 0 .. (a - 1))
<1>1. AudioWrites(a) = ((V1 \cup V2) \cup V3) \cup V4
  BY DEF AudioWrites
<1>2. /\ Fills(V1, 23, a, M("Aid")) /\ Fills(V2, a + 23, a, M("Afmt"))
      /\ Fills(V3, 2 * a + 23, a, M("Atype")) /\ Fills(V4, 3 * a + 23, a, M("AExt"))
  <2>1. a + 23 \in Nat /\ 2 * a + 23 \in Nat /\ 3 * a + 23 \in Nat /\ 23 \in Nat
    OBVIOUS
  <2> QED BY <2>1, ArrayHolds
<1> HIDE DEF V1, V2, V3, V4
<1>3. /\ 2 * a \in Nat /\ 3 * a \in Nat /\ 4 * a \in Nat /\ 23 \in Nat
      /\ a + 23 = 23 + a /\ 2 * a + 23 = 23 + 2 * a /\ 3 * a + 23 = 23 + 3 * a
      /\ 2 * a = a + a /\ 3 * a = 2 * a + a /\ 4 * a = 3 * a + a
  OBVIOUS
<1> HIDE DEF M
<1>4. Fills(V1 \cup V2, 23, 2 * a, M("Aid") \cup M("Afmt"))
  BY <1>2, <1>3, Join
<1>5. Fills((V1 \cup V2) \cup V3, 23, 3 * a, (M("Aid") \cup M("Afmt")) \cup M("Atype"))
  BY <1>2, <1>3, <1>4, Join
<1>6. Fills(((V1 \cup V2) \cup V3) \cup V4, 23, 4 * a, ((M("Aid") \cup M("Afmt")) \cup M("Atype")) \cup M("AExt"))
  BY <1>2, <1>3, <1>5, Join
<1>7. ((M("Aid") \cup M("Afmt")) \cup M("Atype")) \cup M("AExt") = Each({"Aid", "Afmt", "Atype", "AExt"}, 0 .. (a - 1))
  BY DEF Each, M
<1> QED BY <1>1, <1>6, <1>7

LEMMA SubtitleHolds ==
  ASSUME NEW a \in Nat, NEW s \in Nat
  PROVE  Fills(SubtitleWrites(a, s), 4 * a + 23, 5 * s + 2,
               Once({"Pcr", "Scnt"}) \cup Each({"Stype", "Sid", "Sstype", "Sid1", "Sid2"}, 0 .. (s - 1)))
<1> DEFINE p == 4 * a + 23
           F(k) == Array((k - 1) * s + 4 * a + 25, s, <<"Stype", "Sid", "Sstype", "Sid1", "Sid2">>[k])
           V0 == Scalars(p, <<"Pcr", "Scnt">>)
           M0 == Once({"Pcr", "Scnt"})
           M(name) == Each({name}, 0 .. (s - 1))
<1>1. SubtitleWrites(a, s) = ((((V0 \cup F(1)) \cup F(2)) \cup F(3)) \cup F(4)) \cup F(5)
  <2>1. SubtitleWrites(a, s) = V0 \cup UNION {F(k) : k \in 1 .. 5}
    BY DEF SubtitleWrites
  <2>2. 1 .. 5 = {1, 2, 3, 4, 5}
    OBVIOUS
  <2> HIDE DEF F, V0
  <2> QED BY <2>1, <2>2
<1>2. p \in Nat
  OBVIOUS
<1>3. Fills(V0, p, 2, M0)
  <2> DEFINE names == <<"Pcr", "Scnt">>
             S == {"Pcr", "Scnt"}
  <2>1. Len(names) = 2 /\ names \in Seq(S) /\ S = {names[k] : k \in 1 .. 2}
    OBVIOUS
  <2> HIDE DEF names, S, p
  <2>2. Fills(Scalars(p, names), p, 2, Once(S))
    BY <1>2, <2>1, ScalarsHold
  <2> QED BY <2>2 DEF names, S
<1>4. /\ F(1) = Array(p + 2, s, "Stype") /\ F(2) = Array(p + (s + 2), s, "Sid")
      /\ F(3) = Array(p + (2 * s + 2), s, "Sstype") /\ F(4) = Array(p + (3 * s + 2), s, "Sid1")
      /\ F(5) = Array(p + (4 * s + 2), s, "Sid2")
  <2>1. /\ (1 - 1) * s + 4 * a + 25 = p + 2 /\ (2 - 1) * s + 4 * a + 25 = p + (s + 2)
        /\ (3 - 1) * s + 4 * a + 25 = p + (2 * s + 2) /\ (4 - 1) * s + 4 * a + 25 = p + (3 * s + 2)
        /\ (5 - 1) * s + 4 * a + 25 = p + (4 * s + 2)
    OBVIOUS
  <2> HIDE DEF p
  <2> QED BY <2>1
<1> HIDE DEF V0, F, p, M0
<1>5. /\ Fills(F(1), p + 2, s, M("Stype")) /\ Fills(F(2), p + (s + 2), s, M("Sid"))
      /\ Fills(F(3), p + (2 * s + 2), s, M("Sstype")) /\ Fills(F(4), p + (3 * s + 2), s, M("Sid1"))
      /\ Fills(F(5), p + (4 * s + 2), s, M("Sid2"))
  <2>1. p + 2 \in Nat /\ p + (s + 2) \in Nat /\ p + (2 * s + 2) \in Nat /\ p + (3 * s + 2) \in Nat /\ p + (4 * s + 2) \in Nat
    BY <1>2
  <2> QED BY <1>4, <2>1, ArrayHolds
<1>6. /\ s + 2 \in Nat /\ 2 * s + 2 \in Nat /\ 3 * s + 2 \in Nat /\ 4 * s + 2 \in Nat /\ 5 * s + 2 \in Nat /\ 2 \in Nat
      /\ s + 2 = 2 + s /\ 2 * s + 2 = (s + 2) + s /\ 3 * s + 2 = (2 * s + 2) + s /\ 4 * s + 2 = (3 * s + 2) + s
      /\ 5 * s + 2 = (4 * s + 2) + s
  OBVIOUS
<1> DEFINE M1 == M0 \cup M("Stype")
           M2 == M1 \cup M("Sid")
           M3 == M2 \cup M("Sstype")
           M4 == M3 \cup M("Sid1")
           M5 == M4 \cup M("Sid2")
           V1 == V0 \cup F(1)
           V2 == V1 \cup F(2)
           V3 == V2 \cup F(3)
           V4 == V3 \cup F(4)
           V5 == V4 \cup F(5)
<1> HIDE DEF M
<1>7. Fills(V1, p, s + 2, M1)
  BY <1>2, <1>3, <1>5, <1>6, Join
<1> HIDE DEF M1, V1
<1>8. Fills(V2, p, 2 * s + 2, M2)
  BY <1>2, <1>5, <1>6, <1>7, Join
<1> HIDE DEF M2, V2
<1>9. Fills(V3, p, 3 * s + 2, M3)
  BY <1>2, <1>5, <1>6, <1>8, Join
<1> HIDE DEF M3, V3
<1>10. Fills(V4, p, 4 * s + 2, M4)
  BY <1>2, <1>5, <1>6, <1>9, Join
<1> HIDE DEF M4, V4
<1>11. Fills(V5, p, 5 * s + 2, M5)
  BY <1>2, <1>5, <1>6, <1>10, Join
<1>12. V5 = SubtitleWrites(a, s)
  BY <1>1 DEF V4, V3, V2, V1
<1>13. M5 = M0 \cup Each({"Stype", "Sid", "Sstype", "Sid1", "Sid2"}, 0 .. (s - 1))
  BY DEF M4, M3, M2, M1, M, Each
<1> QED BY <1>11, <1>12, <1>13 DEF p, M0

LCNs == {"visible", "lcn", "valid"}
ServiceTail == {"Free_ca", "Scrambled", "ScanMode", "SdtVer", "SortMode", "net_id", "ts_id", "service_id"}
ServiceEnd == {"MajorChannelNumber", "MinorChannelNumber", "SourceId", "AccessControlled", "Hidden",
               "HideGuide", "ProgramsInPat", "PatTsId"}

LEMMA LcnHolds ==
  ASSUME NEW base \in Nat
  PROVE  Fills({<<i * 3 + base + 33 + k, <<<<"visible", "lcn", "valid">>[k + 1], i>>>> : i \in 0 .. 3, k \in 0 .. 2},
               base + 33, 12, Each(LCNs, 0 .. 3))
<1> DEFINE names == <<"visible", "lcn", "valid">>
           W == {<<i * 3 + base + 33 + k, <<names[k + 1], i>>>> : i \in 0 .. 3, k \in 0 .. 2}
<1>1. \A k \in 0 .. 2 : names[k + 1] \in LCNs
  BY DEF LCNs
<1>2. \A m \in LCNs : \E k \in 0 .. 2 : names[k + 1] = m
  <2>1. names[0 + 1] = "visible" /\ names[1 + 1] = "lcn" /\ names[2 + 1] = "valid"
    OBVIOUS
  <2>2. 0 \in 0 .. 2 /\ 1 \in 0 .. 2 /\ 2 \in 0 .. 2
    OBVIOUS
  <2> QED BY <2>1, <2>2 DEF LCNs
<1> HIDE DEF names
<1>3. \A w \in W : \E i \in 0 .. 3, k \in 0 .. 2 : w = <<i * 3 + base + 33 + k, <<names[k + 1], i>>>>
  OBVIOUS
<1>4. \A i \in 0 .. 3, k \in 0 .. 2 : <<i * 3 + base + 33 + k, <<names[k + 1], i>>>> \in W
  OBVIOUS
<1> HIDE DEF W
<1>5. \A w \in W : w[1] \in (base + 33) .. (base + 33 + 12 - 1)
  <2> TAKE w \in W
  <2>1. PICK i \in 0 .. 3, k \in 0 .. 2 : w = <<i * 3 + base + 33 + k, <<names[k + 1], i>>>>
    BY <1>3
  <2>2. w[1] = i * 3 + base + 33 + k
    BY <2>1
  <2> QED BY <2>2
<1>6. \A x \in (base + 33) .. (base + 33 + 12 - 1) : \E w \in W : w[1] = x
  <2> TAKE x \in (base + 33) .. (base + 33 + 12 - 1)
  <2> DEFINE y == x - (base + 33)
  <2>1. y \in 0 .. 11 /\ x = base + 33 + y
    OBVIOUS
  <2>2. \E i \in 0 .. 3, k \in 0 .. 2 : y = i * 3 + k
    <3> HIDE DEF y
    <3>1. CASE y \in 0 .. 2
      <4>1. 0 \in 0 .. 3 /\ y \in 0 .. 2 /\ y = 0 * 3 + y
        BY <3>1
      <4> QED BY <4>1
    <3>2. CASE y \in 3 .. 5
      <4>1. 1 \in 0 .. 3 /\ y - 3 \in 0 .. 2 /\ y = 1 * 3 + (y - 3)
        BY <3>2
      <4> QED BY <4>1
    <3>3. CASE y \in 6 .. 8
      <4>1. 2 \in 0 .. 3 /\ y - 6 \in 0 .. 2 /\ y = 2 * 3 + (y - 6)
        BY <3>3
      <4> QED BY <4>1
    <3>4. CASE y \in 9 .. 11
      <4>1. 3 \in 0 .. 3 /\ y - 9 \in 0 .. 2 /\ y = 3 * 3 + (y - 9)
        BY <3>4
      <4> QED BY <4>1
    <3> QED BY <2>1, <3>1, <3>2, <3>3, <3>4
  <2>3. PICK i \in 0 .. 3, k \in 0 .. 2 : y = i * 3 + k
    BY <2>2
  <2> HIDE DEF y
  <2> DEFINE w == <<i * 3 + base + 33 + k, <<names[k + 1], i>>>>
  <2>4. w \in W
    BY <1>4
  <2>5. w[1] = x
    BY <2>1, <2>3
  <2> QED BY <2>4, <2>5
<1>7. ASSUME NEW v \in W, NEW w \in W, v[1] = w[1] PROVE v = w
  <2>1. PICK i \in 0 .. 3, k \in 0 .. 2 : v = <<i * 3 + base + 33 + k, <<names[k + 1], i>>>>
    BY <1>3
  <2>2. PICK j \in 0 .. 3, l \in 0 .. 2 : w = <<j * 3 + base + 33 + l, <<names[l + 1], j>>>>
    BY <1>3
  <2>3. i * 3 + base + 33 + k = j * 3 + base + 33 + l
    BY <1>7, <2>1, <2>2
  <2>4. i = j /\ k = l
    BY <2>3
  <2> QED BY <2>1, <2>2, <2>4
<1>8. Carried(W) = Each(LCNs, 0 .. 3)
  <2>1. ASSUME NEW w \in W PROVE w[2] \in Each(LCNs, 0 .. 3)
    <3>1. PICK i \in 0 .. 3, k \in 0 .. 2 : w = <<i * 3 + base + 33 + k, <<names[k + 1], i>>>>
      BY <1>3
    <3>2. w[2] = <<names[k + 1], i>>
      BY <3>1
    <3> QED BY <1>1, <3>2 DEF Each
  <2>2. ASSUME NEW m \in LCNs, NEW i \in 0 .. 3 PROVE <<m, i>> \in Carried(W)
    <3>1. PICK k \in 0 .. 2 : names[k + 1] = m
      BY <1>2
    <3> DEFINE w == <<i * 3 + base + 33 + k, <<names[k + 1], i>>>>
    <3>2. w \in W /\ w[2] = <<m, i>>
      BY <1>4, <3>1
    <3> QED BY <3>2 DEF Carried
  <2> QED BY <2>1, <2>2 DEF Carried, Each
<1>9. Fills(W, base + 33, 12, Each(LCNs, 0 .. 3))
  BY <1>5, <1>6, <1>7, <1>8 DEF Fills, Covers
<1> QED BY <1>9 DEF W, names

LEMMA TailHolds ==
  ASSUME NEW base \in Nat
  PROVE  Fills(TailWrites(base), base + 25, 28, (Once(ServiceTail) \cup Each(LCNs, 0 .. 3)) \cup Once(ServiceEnd))
<1> DEFINE n1 == <<"Free_ca", "Scrambled", "ScanMode", "SdtVer", "SortMode", "net_id", "ts_id", "service_id">>
           n3 == <<"MajorChannelNumber", "MinorChannelNumber", "SourceId", "AccessControlled", "Hidden",
                   "HideGuide", "ProgramsInPat", "PatTsId">>
           V1 == Scalars(base + 25, n1)
           V2 == {<<i * 3 + base + 33 + k, <<<<"visible", "lcn", "valid">>[k + 1], i>>>> : i \in 0 .. 3, k \in 0 .. 2}
           V3 == Scalars(base + 45, n3)
<1>1. TailWrites(base) = (V1 \cup V2) \cup V3
  <2>1. MAX_LCN * 3 + base + 33 = base + 45 /\ MAX_LCN - 1 = 3
    BY DEF MAX_LCN
  <2> QED BY <2>1 DEF TailWrites
<1>2. Fills(V1, base + 25, 8, Once(ServiceTail))
  <2>1. Len(n1) = 8 /\ n1 \in Seq(ServiceTail) /\ ServiceTail = {n1[k] : k \in 1 .. 8}
    BY DEF ServiceTail
  <2>2. base + 25 \in Nat
    OBVIOUS
  <2> HIDE DEF n1
  <2> QED BY <2>1, <2>2, ScalarsHold
<1>3. Fills(V3, base + 45, 8, Once(ServiceEnd))
  <2>1. Len(n3) = 8 /\ n3 \in Seq(ServiceEnd) /\ ServiceEnd = {n3[k] : k \in 1 .. 8}
    BY DEF ServiceEnd
  <2>2. base + 45 \in Nat
    OBVIOUS
  <2> HIDE DEF n3
  <2> QED BY <2>1, <2>2, ScalarsHold
<1>4. Fills(V2, base + 33, 12, Each(LCNs, 0 .. 3))
  BY LcnHolds
<1> HIDE DEF V1, V2, V3
<1>5. /\ base + 25 \in Nat /\ 8 \in Nat /\ 12 \in Nat /\ 20 \in Nat /\ 8 + 12 = 20 /\ 20 + 8 = 28
      /\ base + 33 = (base + 25) + 8 /\ base + 45 = (base + 25) + 20
  OBVIOUS
<1> DEFINE p == base + 25
           M1 == Once(ServiceTail)
           M2 == Each(LCNs, 0 .. 3)
           M3 == Once(ServiceEnd)
<1> HIDE DEF M1, M2, M3
<1>6. Fills(V1 \cup V2, base + 25, 20, M1 \cup M2)
  BY <1>2, <1>4, <1>5, Join DEF M1, M2
<1>7. Fills((V1 \cup V2) \cup V3, base + 25, 28, (M1 \cup M2) \cup M3)
  BY <1>3, <1>5, <1>6, Join DEF M3
<1> QED BY <1>1, <1>7 DEF M1, M2, M3

LEMMA ScannerHolds ==
  ASSUME NEW a \in Nat, NEW s \in Nat
  PROVE  \E M, N : /\ Fills(ScannerParcel(a, s).ints.writes, 0, ScannerParcel(a, s).ints.size, M)
                   /\ Fills(ScannerParcel(a, s).texts.writes, 0, ScannerParcel(a, s).texts.size, N)
                   /\ ScannerParcel(a, s).ints.size \in Nat /\ ScannerParcel(a, s).texts.size \in Nat
                   /\ M \cup N = ServiceMembers(a, s)
<1> DEFINE V1 == HeadWrites
           V2 == AudioWrites(a)
           V3 == SubtitleWrites(a, s)
           V4 == TailWrites(5 * s + 4 * a)
           A == 0 .. (a - 1)
           S == 0 .. (s - 1)
           M1 == Once(ServiceHead)
           M2 == Each({"Aid", "Afmt", "Atype", "AExt"}, A)
           M3 == Once({"Pcr", "Scnt"}) \cup Each({"Stype", "Sid", "Sstype", "Sid1", "Sid2"}, S)
           M4 == (Once(ServiceTail) \cup Each(LCNs, 0 .. 3)) \cup Once(ServiceEnd)
           V == ((V1 \cup V2) \cup V3) \cup V4
           M == ((M1 \cup M2) \cup M3) \cup M4
           n == MAX_LCN * 3 + 5 * s + 4 * a + 41
<1>1. ScannerParcel(a, s).ints.writes = V /\ ScannerParcel(a, s).ints.size = n
  BY DEF ScannerParcel, Vector
<1>2. Fills(V1, 0, 23, M1)
  BY HeadHolds
<1>3. Fills(V2, 23, 4 * a, M2)
  BY AudioHolds
<1>4. Fills(V3, 4 * a + 23, 5 * s + 2, M3)
  BY SubtitleHolds
<1>5. Fills(V4, (5 * s + 4 * a) + 25, 28, M4)
  <2>1. 5 * s + 4 * a \in Nat
    OBVIOUS
  <2> QED BY <2>1, TailHolds
<1> HIDE DEF V1, V2, V3, V4, M1, M2, M3, M4
<1>6. n = (5 * s + 4 * a + 25) + 28 /\ n \in Nat
  BY DEF MAX_LCN
<1>7. Fills(V, 0, n, M)
  <2>1. 0 \in Nat /\ 23 \in Nat /\ 28 \in Nat /\ 4 * a \in Nat /\ 5 * s + 2 \in Nat /\ 4 * a + 23 \in Nat
        /\ 5 * s + 4 * a + 25 \in Nat
        /\ 23 = 0 + 23 /\ 4 * a + 23 = 0 + (4 * a + 23) /\ 4 * a + 23 = 23 + 4 * a
        /\ (5 * s + 4 * a) + 25 = 0 + (5 * s + 4 * a + 25) /\ 5 * s + 4 * a + 25 = (4 * a + 23) + (5 * s + 2)
    OBVIOUS
  <2> DEFINE W2 == V1 \cup V2
             W3 == W2 \cup V3
             N2 == M1 \cup M2
             N3 == N2 \cup M3
  <2>2. Fills(W2, 0, 4 * a + 23, N2)
    BY <1>2, <1>3, <2>1, Join
  <2> HIDE DEF W2, N2
  <2>3. Fills(W3, 0, 5 * s + 4 * a + 25, N3)
    BY <1>4, <2>1, <2>2, Join
  <2> HIDE DEF W3, N3, n
  <2>4. Fills(W3 \cup V4, 0, n, N3 \cup M4)
    BY <1>5, <1>6, <2>1, <2>3, Join
  <2> QED BY <2>4 DEF W3, W2, N3, N2
<1> DEFINE T1 == Scalars(0, <<"ProgramName", "Paras">>)
           T2 == Array(2, a, "Alang")
           T3 == Array(a + 2, s, "Slang")
           T4 == {<<s + a + 2, <<"Vct", 0>>>>}
           T == ((T1 \cup T2) \cup T3) \cup T4
           N1 == Once({"ProgramName", "Paras"})
           N2 == Each({"Alang"}, A)
           N3 == Each({"Slang"}, S)
           N4 == {<<"Vct", 0>>}
           N == ((N1 \cup N2) \cup N3) \cup N4
           m == s + a + 3
<1>8. ScannerParcel(a, s).texts.writes = T /\ ScannerParcel(a, s).texts.size = m
  BY DEF ScannerParcel, Vector
<1>9. m \in Nat
  OBVIOUS
<1>10. Fills(T1, 0, 2, N1)
  <2> DEFINE names == <<"ProgramName", "Paras">>
             Q == {"ProgramName", "Paras"}
  <2>1. Len(names) = 2 /\ names \in Seq(Q) /\ Q = {names[k] : k \in 1 .. 2}
    OBVIOUS
  <2> HIDE DEF names, Q
  <2>2. Fills(Scalars(0, names), 0, 2, Once(Q))
    BY <2>1, ScalarsHold
  <2> QED BY <2>2 DEF names, Q
<1>11. Fills(T2, 2, a, N2)
  BY ArrayHolds
<1>12. Fills(T3, a + 2, s, N3)
  <2>1. a + 2 \in Nat
    OBVIOUS
  <2> QED BY <2>1, ArrayHolds
<1>13. Fills(T4, s + a + 2, 1, N4)
  <2>1. s + a + 2 \in Nat
    OBVIOUS
  <2> QED BY <2>1, OneHolds
<1>14. Fills(T, 0, m, N)
  <2>1. 0 \in Nat /\ 2 \in Nat /\ 1 \in Nat /\ a + 2 \in Nat /\ s + a + 2 \in Nat
        /\ 2 = 0 + 2 /\ a + 2 = 2 + a /\ a + 2 = 0 + (a + 2) /\ s + a + 2 = (a + 2) + s
        /\ s + a + 2 = 0 + (s + a + 2) /\ s + a + 3 = (s + a + 2) + 1
    OBVIOUS
  <2> DEFINE W2 == T1 \cup T2
             W3 == W2 \cup T3
             L2 == N1 \cup N2
             L3 == L2 \cup N3
  <2> HIDE DEF T1, T2, T3, T4, N1, N2, N3, N4
  <2>2. Fills(W2, 0, a + 2, L2)
    BY <1>10, <1>11, <2>1, Join
  <2> HIDE DEF W2, L2
  <2>3. Fills(W3, 0, s + a + 2, L3)
    BY <1>12, <2>1, <2>2, Join
  <2> HIDE DEF W3, L3
  <2>4. Fills(W3 \cup T4, 0, s + a + 3, L3 \cup N4)
    BY <1>13, <2>1, <2>3, Join
  <2> QED BY <2>4 DEF W3, W2, L3, L2
<1>15. M \cup N = ServiceMembers(a, s)
  <2> HIDE DEF A, S
  <2>1. ServiceMembers(a, s) =
          Once({"Type", "Percent", "TotalChannelCount", "LockedStatus", "ChannelIndex", "Mode", "Frequency",
        "SymbolRate", "Modulation", "Bandwidth", "Reserved", "Strength", "Snr", "ProgramName",
        "programType", "Paras", "VideoStd", "AudioStd", "IsAutoStd", "TsId", "ONetId", "ServiceId",
        "Vid", "Vfmt", "Acnt", "Pcr", "Scnt", "Free_ca", "Scrambled", "ScanMode", "SdtVer", "SortMode",
        "MajorChannelNumber", "MinorChannelNumber", "SourceId", "AccessControlled", "Hidden",
        "HideGuide", "Vct", "ProgramsInPat", "PatTsId", "net_id", "ts_id", "service_id"})
           \cup Each({"visible", "lcn", "valid"}, 0 .. 3)
           \cup Each({"Aid", "Afmt", "Alang", "Atype", "AExt"}, A)
           \cup Each({"Stype", "Sid", "Sstype", "Sid1", "Sid2", "Slang"}, S)
    BY DEF ServiceMembers, MAX_LCN, A, S
  <2>2. Each({"Aid", "Afmt", "Alang", "Atype", "AExt"}, A) = M2 \cup N2
    BY DEF M2, Each
  <2>3. Each({"Stype", "Sid", "Sstype", "Sid1", "Sid2", "Slang"}, S)
          = Each({"Stype", "Sid", "Sstype", "Sid1", "Sid2"}, S) \cup N3
    BY DEF Each
  <2>4. Once({"Type", "Percent", "TotalChannelCount", "LockedStatus", "ChannelIndex", "Mode", "Frequency",
        "SymbolRate", "Modulation", "Bandwidth", "Reserved", "Strength", "Snr", "ProgramName",
        "programType", "Paras", "VideoStd", "AudioStd", "IsAutoStd", "TsId", "ONetId", "ServiceId",
        "Vid", "Vfmt", "Acnt", "Pcr", "Scnt", "Free_ca", "Scrambled", "ScanMode", "SdtVer", "SortMode",
        "MajorChannelNumber", "MinorChannelNumber", "SourceId", "AccessControlled", "Hidden",
        "HideGuide", "Vct", "ProgramsInPat", "PatTsId", "net_id", "ts_id", "service_id"})
          = M1 \cup Once({"Pcr", "Scnt"}) \cup Once(ServiceTail) \cup Once(ServiceEnd) \cup N1 \cup N4
    <3>1. {"Type", "Percent", "TotalChannelCount", "LockedStatus", "ChannelIndex", "Mode", "Frequency",
        "SymbolRate", "Modulation", "Bandwidth", "Reserved", "Strength", "Snr", "ProgramName",
        "programType", "Paras", "VideoStd", "AudioStd", "IsAutoStd", "TsId", "ONetId", "ServiceId",
        "Vid", "Vfmt", "Acnt", "Pcr", "Scnt", "Free_ca", "Scrambled", "ScanMode", "SdtVer", "SortMode",
        "MajorChannelNumber", "MinorChannelNumber", "SourceId", "AccessControlled", "Hidden",
        "HideGuide", "Vct", "ProgramsInPat", "PatTsId", "net_id", "ts_id", "service_id"}
          = ServiceHead \cup {"Pcr", "Scnt"} \cup ServiceTail \cup ServiceEnd \cup {"ProgramName", "Paras"} \cup {"Vct"}
      BY DEF ServiceHead, ServiceTail, ServiceEnd
    <3>2. N4 = Once({"Vct"})
      BY DEF Once, Each
    <3>3. \A X, Y : Once(X \cup Y) = Once(X) \cup Once(Y)
      BY DEF Once, Each
    <3> DEFINE Q == {"ProgramName", "Paras"}
               P == {"Pcr", "Scnt"}
               R == {"Vct"}
    <3> HIDE DEF Q, P, R, N4
    <3> DEFINE X2 == ServiceHead \cup P
               X3 == X2 \cup ServiceTail
               X4 == X3 \cup ServiceEnd
               X5 == X4 \cup Q
    <3>4. Once(X5 \cup R) = Once(X5) \cup Once(R)
      BY <3>3, Zenon
    <3>5. Once(X5) = Once(X4) \cup Once(Q)
      BY <3>3, Zenon
    <3>6. Once(X4) = Once(X3) \cup Once(ServiceEnd)
      BY <3>3, Zenon
    <3>7. Once(X3) = Once(X2) \cup Once(ServiceTail)
      BY <3>3, Zenon
    <3>8. Once(X2) = Once(ServiceHead) \cup Once(P)
      BY <3>3, Zenon
    <3> HIDE DEF X2, X3, X4
    <3>9. Once(X5 \cup R) = Once(ServiceHead) \cup Once(P) \cup Once(ServiceTail) \cup Once(ServiceEnd) \cup Once(Q) \cup Once(R)
      <4> HIDE DEF X5
      <4> QED BY <3>4, <3>5, <3>6, <3>7, <3>8
    <3> QED BY <3>1, <3>2, <3>9 DEF X2, X3, X4, X5, Q, P, R, M1
  <2>5. LCNs = {"visible", "lcn", "valid"}
    BY DEF LCNs
  <2> HIDE DEF N1, N2, N3, N4
  <2> QED BY <2>1, <2>2, <2>3, <2>4, <2>5 DEF M3, M4
<1> HIDE DEF V, T, M, N, n, m
<1> QED BY <1>1, <1>6, <1>7, <1>8, <1>9, <1>14, <1>15

\* At most c fields, which are the members M.
Row(s, c, M) == s \in Seq(M) /\ Elements(s) = M /\ Len(s) <= c

LEMMA RowJoin ==
  ASSUME NEW s, NEW t, NEW c \in Nat, NEW d \in Nat, NEW M, NEW N, Row(s, c, M), Row(t, d, N)
  PROVE  Row(s \o t, c + d, M \cup N)
<1>1. s \in Seq(M) /\ t \in Seq(N) /\ Elements(s) = M /\ Elements(t) = N /\ Len(s) <= c /\ Len(t) <= d
  BY DEF Row
<1>2. s \in Seq(M \cup N) /\ t \in Seq(M \cup N) /\ Len(s) \in Nat /\ Len(t) \in Nat
  BY <1>1
<1>3. s \o t \in Seq(M \cup N) /\ Len(s \o t) = Len(s) + Len(t) /\ Elements(s \o t) = Elements(s) \cup Elements(t)
  BY <1>2, ElementsOfJoin
<1>4. Len(s \o t) <= c + d
  BY <1>1, <1>2, <1>3
<1> QED BY <1>1, <1>3, <1>4 DEF Row

\* names are the members S of an entry.
Entry(names, n, S) == names \in Seq(S) /\ Len(names) = n /\ S = {names[k] : k \in 1 .. n}

LEMMA OfHolds ==
  ASSUME NEW names, NEW n \in Nat, NEW S, Entry(names, n, S), NEW i
  PROVE  Row(Of(names, i), n, Each(S, {i}))
<1> DEFINE s == Of(names, i)
           M == Each(S, {i})
<1>1. names \in Seq(S) /\ Len(names) = n /\ S = {names[k] : k \in 1 .. n} /\ DOMAIN names = 1 .. n
  BY DEF Entry
<1>2. s = [k \in 1 .. n |-> <<names[k], i>>]
  BY <1>1 DEF Of
<1>3. \A k \in 1 .. n : <<names[k], i>> \in M
  BY <1>1 DEF Each
<1>4. s \in Seq(M) /\ Len(s) = n
  <2> HIDE DEF M
  <2>1. s \in [1 .. n -> M]
    BY <1>2, <1>3
  <2> HIDE DEF s
  <2> QED BY <2>1
<1>5. Elements(s) = M
  <2>1. ASSUME NEW x \in M PROVE x \in Elements(s)
    <3>1. PICK k \in 1 .. n : x = <<names[k], i>>
      BY <1>1 DEF Each
    <3>2. s[k] = x
      BY <1>2, <3>1
    <3> QED BY <1>4, <3>2 DEF Elements
  <2>2. ASSUME NEW x \in Elements(s) PROVE x \in M
    BY <1>4 DEF Elements
  <2> QED BY <2>1, <2>2
<1> QED BY <1>4, <1>5 DEF Row

LEMMA NamedHolds ==
  ASSUME NEW names, NEW n \in Nat, NEW S, Entry(names, n, S)
  PROVE  Row(Named(names), n, Once(S))
<1>1. Named(names) = Of(names, 0)
  BY DEF Named, Of
<1>2. Row(Of(names, 0), n, Each(S, {0}))
  BY OfHolds
<1> QED BY <1>1, <1>2 DEF Once

LEMMA BytesHold ==
  ASSUME NEW name, NEW i \in Nat, NEW length \in Nat
  PROVE  Row(Bytes(name, i, length), length, Each({name}, {64 * i + k : k \in 0 .. (length - 1)}))
<1> DEFINE s == Bytes(name, i, length)
           M == Each({name}, {64 * i + k : k \in 0 .. (length - 1)})
<1>1. s = [k \in 1 .. length |-> <<name, 64 * i + k - 1>>]
  BY DEF Bytes
<1>2. ASSUME NEW k \in 1 .. length PROVE <<name, 64 * i + k - 1>> \in M
  <2>1. k - 1 \in 0 .. (length - 1) /\ 64 * i + k - 1 = 64 * i + (k - 1)
    OBVIOUS
  <2> QED BY <2>1 DEF Each
<1>3. s \in Seq(M) /\ Len(s) = length
  <2> HIDE DEF M
  <2>1. s \in [1 .. length -> M]
    BY <1>1, <1>2
  <2> HIDE DEF s
  <2> QED BY <2>1
<1>4. ASSUME NEW x \in M PROVE x \in Elements(s)
  <2>0. PICK z \in {64 * i + k : k \in 0 .. (length - 1)} : x = <<name, z>>
    <3> DEFINE Z == {64 * i + k : k \in 0 .. (length - 1)}
    <3>1. x \in Each({name}, Z)
      OBVIOUS
    <3> HIDE DEF Z
    <3>2. \E z \in Z : x = <<name, z>>
      BY <3>1 DEF Each
    <3> QED BY <3>2 DEF Z
  <2>1. PICK k \in 0 .. (length - 1) : x = <<name, 64 * i + k>>
    BY <2>0
  <2>2. k + 1 \in 1 .. length /\ 64 * i + (k + 1) - 1 = 64 * i + k
    OBVIOUS
  <2>3. s[k + 1] = x
    BY <1>1, <2>1, <2>2
  <2> HIDE DEF s, M
  <2> QED BY <1>3, <2>2, <2>3 DEF Elements
<1>5. Elements(s) \subseteq M
  <2> HIDE DEF s, M
  <2> QED BY <1>3 DEF Elements
<1> HIDE DEF s, M
<1>6. Elements(s) = M
  BY <1>4, <1>5
<1>7. Row(s, length, M)
  BY <1>3, <1>6 DEF Row
<1> QED BY <1>7 DEF s, M

LEMMA EntriesHold ==
  ASSUME NEW names, NEW n \in Nat, NEW S, Entry(names, n, S), NEW count \in Nat
  PROVE  Row(Entries(count, names), count * n, Each(S, 0 .. (count - 1)))
<1> DEFINE ss == [i \in 1 .. count |-> Of(names, i - 1)]
           M == Each(S, 0 .. (count - 1))
           s == FlattenSeq(ss)
<1>1. Entries(count, names) = s
  BY DEF Entries
<1>2. ASSUME NEW i \in 1 .. count
      PROVE  ss[i] \in Seq(M) /\ Elements(ss[i]) = Each(S, {i - 1}) /\ Len(ss[i]) <= n
  <2>1. Row(Of(names, i - 1), n, Each(S, {i - 1}))
    BY OfHolds
  <2>2. Each(S, {i - 1}) \subseteq M
    <3>1. i - 1 \in 0 .. (count - 1)
      OBVIOUS
    <3> QED BY <3>1 DEF Each
  <2>3. ss[i] = Of(names, i - 1)
    OBVIOUS
  <2> HIDE DEF ss, M
  <2>4. ss[i] \in Seq(Each(S, {i - 1})) /\ Elements(ss[i]) = Each(S, {i - 1}) /\ Len(ss[i]) <= n
    BY <2>1, <2>3 DEF Row
  <2> QED BY <2>2, <2>4
<1>3. ss \in Seq(Seq(M)) /\ Len(ss) = count
  <2>1. \A i \in 1 .. count : ss[i] \in Seq(M)
    BY <1>2
  <2>2. DOMAIN ss = 1 .. count /\ ss = [i \in 1 .. count |-> ss[i]]
    OBVIOUS
  <2> HIDE DEF ss, M
  <2> QED BY <2>1, <2>2
<1> HIDE DEF ss
<1>4. s \in Seq(M) /\ Elements(s) = UNION {Elements(ss[i]) : i \in 1 .. Len(ss)}
  BY <1>3, FlattenHolds
<1>5. Len(s) <= count * n
  <2>1. \A i \in 1 .. Len(ss) : Len(ss[i]) <= n
    BY <1>2, <1>3
  <2>2. Len(s) <= Len(ss) * n
    BY <1>3, <2>1, FlattenLength
  <2> QED BY <1>3, <2>2
<1>6. UNION {Elements(ss[i]) : i \in 1 .. count} = M
  <2>1. ASSUME NEW x \in M PROVE \E i \in 1 .. count : x \in Elements(ss[i])
    <3>1. PICK y \in S, j \in 0 .. (count - 1) : x = <<y, j>>
      BY DEF Each
    <3>2. j + 1 \in 1 .. count /\ (j + 1) - 1 = j
      OBVIOUS
    <3>3. x \in Each(S, {j})
      BY <3>1 DEF Each
    <3> HIDE DEF M
    <3> QED BY <1>2, <3>2, <3>3
  <2>2. ASSUME NEW i \in 1 .. count PROVE Elements(ss[i]) \subseteq M
    <3>1. i - 1 \in 0 .. (count - 1)
      OBVIOUS
    <3>2. Elements(ss[i]) = Each(S, {i - 1})
      BY <1>2
    <3> QED BY <3>1, <3>2 DEF Each
  <2> HIDE DEF M
  <2> QED BY <2>1, <2>2
<1> HIDE DEF s, M
<1>7. Row(s, count * n, M)
  BY <1>3, <1>4, <1>5, <1>6 DEF Row
<1> QED BY <1>1, <1>7 DEF M

LEMMA BlocksHold ==
  ASSUME NEW names, NEW n \in Nat, NEW S, Entry(names, n, S), NEW name, NEW lengths \in Seq(0 .. 64)
  PROVE  Row(Blocks(lengths, names, name), Len(lengths) * (n + 64),
             Each(S, 0 .. (Len(lengths) - 1)) \cup BytesOf(lengths, name))
<1> DEFINE count == Len(lengths)
           B(i) == Each({name}, {64 * i + k : k \in 0 .. (lengths[i + 1] - 1)})
           ss == [i \in DOMAIN lengths |-> Of(names, i - 1) \o Bytes(name, i - 1, lengths[i])]
           M1 == Each(S, 0 .. (count - 1))
           M2 == UNION {B(i) : i \in 0 .. (count - 1)}
           M == M1 \cup M2
           s == FlattenSeq(ss)
<1>1. Blocks(lengths, names, name) = s /\ BytesOf(lengths, name) = M2
  BY DEF Blocks, BytesOf
<1>2. count \in Nat /\ DOMAIN lengths = 1 .. count /\ \A i \in 1 .. count : lengths[i] \in 0 .. 64
  <2>1. count \in Nat /\ DOMAIN lengths = 1 .. count
    BY LenProperties
  <2>2. \A i \in 1 .. count : lengths[i] \in 0 .. 64
    BY ElementOfSeq
  <2> QED BY <2>1, <2>2
<1>3. ASSUME NEW i \in 1 .. count
      PROVE  ss[i] \in Seq(M) /\ Elements(ss[i]) = Each(S, {i - 1}) \cup B(i - 1) /\ Len(ss[i]) <= n + 64
  <2>1. i - 1 \in Nat /\ i - 1 \in 0 .. (count - 1) /\ (i - 1) + 1 = i /\ lengths[i] \in 0 .. 64 /\ lengths[i] \in Nat
        /\ lengths[i] <= 64
    <3> HIDE DEF count
    <3>1. lengths[i] \in 0 .. 64
      BY <1>2
    <3> HIDE DEF B, ss, M1, M2, M, s
    <3>2. i - 1 \in Nat /\ i - 1 \in 0 .. (count - 1) /\ (i - 1) + 1 = i
      BY <1>2
    <3>3. \A x \in 0 .. 64 : x \in Nat /\ x <= 64
      OBVIOUS
    <3> QED BY <3>1, <3>2, <3>3
  <2> DEFINE P == Each(S, {i - 1})
             Q == B(i - 1)
             s1 == Of(names, i - 1)
             s2 == Bytes(name, i - 1, lengths[i])
  <2>2. Row(s1, n, P)
    BY OfHolds
  <2>3. Row(s2, lengths[i], Q)
    <3>1. Row(s2, lengths[i], Each({name}, {64 * (i - 1) + k : k \in 0 .. (lengths[i] - 1)}))
      BY <2>1, BytesHold
    <3>2. lengths[(i - 1) + 1] = lengths[i]
      BY <2>1
    <3> QED BY <3>1, <3>2
  <2>4. P \subseteq M1
    BY <2>1 DEF Each
  <2>5. Q \subseteq M2
    BY <2>1
  <2>6. ss[i] = s1 \o s2
    BY <1>2
  <2> HIDE DEF P, Q, s1, s2, ss, B, M1, M2, count
  <2>7. Row(ss[i], n + lengths[i], P \cup Q)
    BY <2>1, <2>2, <2>3, <2>6, RowJoin
  <2>8. ss[i] \in Seq(P \cup Q) /\ Elements(ss[i]) = P \cup Q /\ Len(ss[i]) <= n + lengths[i]
    BY <2>7 DEF Row
  <2>9. P \cup Q \subseteq M
    BY <2>4, <2>5
  <2>10. ss[i] \in Seq(M)
    BY <2>8, <2>9
  <2>11. Len(ss[i]) <= n + 64
    <3>1. Len(ss[i]) \in Nat
      BY <2>8
    <3> QED BY <2>1, <2>8, <3>1
  <2> QED BY <2>8, <2>10, <2>11 DEF P, Q
<1>4. ss \in Seq(Seq(M)) /\ Len(ss) = count
  <2>1. \A i \in 1 .. count : ss[i] \in Seq(M)
    BY <1>3
  <2>2. ss = [i \in 1 .. count |-> ss[i]]
    BY <1>2
  <2> HIDE DEF ss, M, count
  <2>3. ss \in [1 .. count -> Seq(M)]
    BY <2>1, <2>2
  <2> QED BY <1>2, <2>3
<1> HIDE DEF ss, B, M1, M2, count
<1>5. s \in Seq(M) /\ Elements(s) = UNION {Elements(ss[i]) : i \in 1 .. Len(ss)}
  BY <1>4, FlattenHolds
<1>6. Len(s) <= count * (n + 64)
  <2>1. \A i \in 1 .. Len(ss) : Len(ss[i]) <= n + 64
    BY <1>3, <1>4
  <2>2. n + 64 \in Nat
    OBVIOUS
  <2>3. Len(s) <= Len(ss) * (n + 64)
    <3> DEFINE w == n + 64
    <3> HIDE DEF w, s
    <3>1. w \in Nat /\ \A i \in 1 .. Len(ss) : Len(ss[i]) <= w
      BY <2>1, <2>2 DEF w
    <3>2. Len(s) <= Len(ss) * w
      BY <1>4, <3>1, FlattenLength DEF s
    <3> QED BY <3>2 DEF w
  <2> QED BY <1>4, <2>3
<1>7. UNION {Elements(ss[i]) : i \in 1 .. count} = M
  <2>1. ASSUME NEW x \in M PROVE \E i \in 1 .. count : x \in Elements(ss[i])
    <3>1. CASE x \in M1
      <4>1. PICK y \in S, j \in 0 .. (count - 1) : x = <<y, j>>
        BY <3>1 DEF Each, M1
      <4>2. j + 1 \in 1 .. count /\ (j + 1) - 1 = j
        BY <1>2
      <4>3. x \in Each(S, {j})
        BY <4>1 DEF Each
      <4> QED BY <1>3, <4>2, <4>3
    <3>2. CASE x \in M2
      <4>1. PICK j \in 0 .. (count - 1) : x \in B(j)
        BY <3>2 DEF M2
      <4>2. j + 1 \in 1 .. count /\ (j + 1) - 1 = j
        BY <1>2
      <4> QED BY <1>3, <4>1, <4>2
    <3> QED BY <3>1, <3>2
  <2>2. ASSUME NEW i \in 1 .. count PROVE Elements(ss[i]) \subseteq M
    <3>1. i - 1 \in 0 .. (count - 1)
      BY <1>2
    <3>2. Elements(ss[i]) = Each(S, {i - 1}) \cup B(i - 1)
      BY <1>3
    <3>3. Each(S, {i - 1}) \subseteq M1
      BY <3>1 DEF Each, M1
    <3>4. B(i - 1) \subseteq M2
      BY <3>1 DEF M2
    <3> QED BY <3>2, <3>3, <3>4
  <2> HIDE DEF M
  <2> QED BY <2>1, <2>2
<1> HIDE DEF s, M
<1>8. Row(s, count * (n + 64), M)
  BY <1>4, <1>5, <1>6, <1>7 DEF Row
<1> QED BY <1>1, <1>8 DEF M, M1, count

\* The members of the parts of an alert.
HeadMembers ==
  {"eas_section_count", "table_id", "extension", "version", "current_next", "sequence_num",
   "protocol_version", "eas_event_id", "eas_orig_code0", "eas_orig_code1", "eas_orig_code2",
   "eas_event_code_len"}
DetailsMembers ==
  {"alert_message_time_remaining", "event_start_time", "event_duration", "alert_priority",
   "details_OOB_source_ID", "details_major_channel_number", "details_minor_channel_number",
   "audio_OOB_source_ID", "location_count"}
LocationMembers ==
  {"i_state_code", "i_country_subdiv", "i_country_code"}
ExceptionMembers ==
  {"i_in_band_refer", "i_exception_major_channel_number", "i_exception_minor_channel_number",
   "exception_OOB_source_ID"}
TextMembers ==
  {"lang0", "lang1", "lang2", "i_type", "i_compression_type", "i_mode", "i_number_bytes"}

LEMMA HeadEntry == Entry(EasHead, 12, HeadMembers)
<1>1. Len(EasHead) = 12
  BY DEF EasHead
<1>2. EasHead \in Seq(HeadMembers)
  BY DEF EasHead, HeadMembers
<1>3. HeadMembers = {EasHead[k] : k \in 1 .. 12}
  BY DEF EasHead, HeadMembers
<1> QED BY <1>1, <1>2, <1>3 DEF Entry

LEMMA DetailsEntry == Entry(EasDetails, 9, DetailsMembers)
<1>1. Len(EasDetails) = 9
  BY DEF EasDetails
<1>2. EasDetails \in Seq(DetailsMembers)
  BY DEF EasDetails, DetailsMembers
<1>3. DetailsMembers = {EasDetails[k] : k \in 1 .. 9}
  BY DEF EasDetails, DetailsMembers
<1> QED BY <1>1, <1>2, <1>3 DEF Entry

LEMMA LocationEntry == Entry(EasLocation, 3, LocationMembers)
<1>1. Len(EasLocation) = 3
  BY DEF EasLocation
<1>2. EasLocation \in Seq(LocationMembers)
  BY DEF EasLocation, LocationMembers
<1>3. LocationMembers = {EasLocation[k] : k \in 1 .. 3}
  BY DEF EasLocation, LocationMembers
<1> QED BY <1>1, <1>2, <1>3 DEF Entry

LEMMA ExceptionEntry == Entry(EasException, 4, ExceptionMembers)
<1>1. Len(EasException) = 4
  BY DEF EasException
<1>2. EasException \in Seq(ExceptionMembers)
  BY DEF EasException, ExceptionMembers
<1>3. ExceptionMembers = {EasException[k] : k \in 1 .. 4}
  BY DEF EasException, ExceptionMembers
<1> QED BY <1>1, <1>2, <1>3 DEF Entry

LEMMA TextEntry == Entry(EasText, 7, TextMembers)
<1>1. Len(EasText) = 7
  BY DEF EasText
<1>2. EasText \in Seq(TextMembers)
  BY DEF EasText, TextMembers
<1>3. TextMembers = {EasText[k] : k \in 1 .. 7}
  BY DEF EasText, TextMembers
<1> QED BY <1>1, <1>2, <1>3 DEF Entry

LEMMA SingleEntry == ASSUME NEW x PROVE Entry(<<x>>, 1, {x})
BY DEF Entry

LEMMA PairEntry == ASSUME NEW x, NEW y PROVE Entry(<<x, y>>, 2, {x, y})
<1>1. {x, y} = {<<x, y>>[k] : k \in 1 .. 2}
  OBVIOUS
<1> QED BY <1>1 DEF Entry

LEMMA AlertHolds ==
  ASSUME NEW n \in Alert
  PROVE  Row(EasFields(n), 810, AlertMembers(n))
<1>1. /\ n.codes \in 0 .. 64 /\ n.locations \in 0 .. 64 /\ n.exceptions \in 0 .. 64
      /\ n.texts \in Seq(0 .. 64) /\ Len(n.texts) \in 0 .. 2
      /\ n.descriptors \in Seq(0 .. 64) /\ Len(n.descriptors) \in 0 .. 2
  <2>1. /\ n.codes \in EasCounts /\ n.locations \in EasCounts /\ n.exceptions \in EasCounts
        /\ n.texts \in Lengths /\ n.descriptors \in Lengths
    BY DEF Alert
  <2>2. EasCounts \subseteq 0 .. 64
    BY ParcelAssumption
  <2>3. ASSUME NEW lengths \in Lengths PROVE lengths \in Seq(0 .. 64) /\ Len(lengths) \in 0 .. 2
    <3>1. PICK k \in 0 .. 2 : lengths \in [1 .. k -> EasCounts \ {0}]
      BY DEF Lengths
    <3>2. lengths \in [1 .. k -> 0 .. 64]
      BY <2>2, <3>1
    <3> DEFINE U == 0 .. 64
    <3> HIDE DEF U
    <3>3. lengths \in [1 .. k -> U] /\ k \in Nat
      BY <3>2 DEF U
    <3>4. lengths \in Seq(U) /\ Len(lengths) = k
      BY <3>3
    <3> QED BY <3>4 DEF U
  <2> QED BY <2>1, <2>2, <2>3
<1>0. /\ n.codes \in Nat /\ n.codes <= 64 /\ n.locations \in Nat /\ n.locations <= 64
      /\ n.exceptions \in Nat /\ n.exceptions <= 64
      /\ Len(n.texts) \in Nat /\ Len(n.texts) <= 2 /\ Len(n.descriptors) \in Nat /\ Len(n.descriptors) <= 2
  <2>1. \A x \in 0 .. 64 : x \in Nat /\ x <= 64
    OBVIOUS
  <2>2. \A x \in 0 .. 2 : x \in Nat /\ x <= 2
    OBVIOUS
  <2> QED BY <1>1, <2>1, <2>2
<1> DEFINE A1 == Named(EasHead)
           A2 == Entries(n.codes, <<"eas_event_code">>)
           A3 == Named(EasDetails)
           A4 == Entries(n.locations, EasLocation)
           A5 == Named(<<"exception_count">>)
           A6 == Entries(n.exceptions, EasException)
           A7 == Named(<<"multi_text_count">>)
           A8 == Blocks(n.texts, EasText, "compressed_str")
           A9 == Named(<<"descriptor_text_count">>)
           A10 == Blocks(n.descriptors, <<"i_tag", "i_length">>, "p_data")
           M1 == Once(HeadMembers)
           M2 == Each({"eas_event_code"}, 0 .. (n.codes - 1))
           M3 == Once(DetailsMembers)
           M4 == Each(LocationMembers, 0 .. (n.locations - 1))
           M5 == Once({"exception_count"})
           M6 == Each(ExceptionMembers, 0 .. (n.exceptions - 1))
           M7 == Once({"multi_text_count"})
           M8 == Each(TextMembers, 0 .. (Len(n.texts) - 1)) \cup BytesOf(n.texts, "compressed_str")
           M9 == Once({"descriptor_text_count"})
           M10 == Each({"i_tag", "i_length"}, 0 .. (Len(n.descriptors) - 1)) \cup BytesOf(n.descriptors, "p_data")
<1>2. EasFields(n) = A1 \o A2 \o A3 \o A4 \o A5 \o A6 \o A7 \o A8 \o A9 \o A10
  BY DEF EasFields
<1>3. Row(A1, 12, M1) /\ Row(A3, 9, M3)
  BY HeadEntry, DetailsEntry, NamedHolds
<1>4. Row(A5, 1, M5) /\ Row(A7, 1, M7) /\ Row(A9, 1, M9)
  BY SingleEntry, NamedHolds
<1>5. \A s, c, d, M : Row(s, c, M) /\ c \in Int /\ d \in Int /\ c <= d => Row(s, d, M)
  <2> SUFFICES ASSUME NEW s, NEW c \in Int, NEW d \in Int, NEW M, Row(s, c, M), c <= d PROVE Row(s, d, M)
    OBVIOUS
  <2>1. s \in Seq(M) /\ Elements(s) = M /\ Len(s) <= c /\ Len(s) \in Int
    BY DEF Row
  <2>2. Len(s) <= d
    BY <2>1
  <2> QED BY <2>1, <2>2 DEF Row
<1>6. Row(A2, 64, M2)
  <2>1. Row(A2, n.codes * 1, M2)
    <3>1. n.codes \in Nat /\ 1 \in Nat
      BY <1>0
    <3> QED BY <3>1, SingleEntry, EntriesHold
  <2>2. n.codes * 1 \in Int /\ 64 \in Int /\ n.codes * 1 <= 64
    BY <1>0
  <2> QED BY <1>5, <2>1, <2>2
<1>7. Row(A4, 192, M4)
  <2>1. Row(A4, n.locations * 3, M4)
    <3>1. n.locations \in Nat /\ 3 \in Nat
      BY <1>0
    <3> QED BY <3>1, LocationEntry, EntriesHold
  <2>2. n.locations * 3 \in Int /\ 192 \in Int /\ n.locations * 3 <= 192
    BY <1>0
  <2> QED BY <1>5, <2>1, <2>2
<1>8. Row(A6, 256, M6)
  <2>1. Row(A6, n.exceptions * 4, M6)
    <3>1. n.exceptions \in Nat /\ 4 \in Nat
      BY <1>0
    <3> QED BY <3>1, ExceptionEntry, EntriesHold
  <2>2. n.exceptions * 4 \in Int /\ 256 \in Int /\ n.exceptions * 4 <= 256
    BY <1>0
  <2> QED BY <1>5, <2>1, <2>2
<1>9. Row(A8, 142, M8)
  <2>1. Row(A8, Len(n.texts) * (7 + 64), M8)
    <3>1. n.texts \in Seq(0 .. 64) /\ 7 \in Nat
      BY <1>1
    <3> QED BY <3>1, TextEntry, BlocksHold
  <2>2. Len(n.texts) * (7 + 64) \in Int /\ 142 \in Int /\ Len(n.texts) * (7 + 64) <= 142
    BY <1>0
  <2> QED BY <1>5, <2>1, <2>2
<1>10. Row(A10, 132, M10)
  <2>1. Row(A10, Len(n.descriptors) * (2 + 64), M10)
    <3>1. n.descriptors \in Seq(0 .. 64) /\ 2 \in Nat
      BY <1>1
    <3> QED BY <3>1, PairEntry, BlocksHold
  <2>2. Len(n.descriptors) * (2 + 64) \in Int /\ 132 \in Int /\ Len(n.descriptors) * (2 + 64) <= 132
    BY <1>0
  <2> QED BY <1>5, <2>1, <2>2
<1>11. AlertMembers(n) = M1 \cup M2 \cup M3 \cup M4 \cup M5 \cup M6 \cup M7 \cup M8 \cup M9 \cup M10
  <2> DEFINE Q == HeadMembers \cup DetailsMembers
                    \cup {"exception_count"} \cup {"multi_text_count"} \cup {"descriptor_text_count"}
  <2>1. AlertMembers(n) = Once(Q) \cup M2 \cup M4 \cup M6 \cup M8 \cup M10
    <3>1. Q = {"eas_section_count", "table_id", "extension", "version", "current_next", "sequence_num",
              "protocol_version", "eas_event_id", "eas_orig_code0", "eas_orig_code1", "eas_orig_code2",
              "eas_event_code_len", "alert_message_time_remaining", "event_start_time", "event_duration",
              "alert_priority", "details_OOB_source_ID", "details_major_channel_number",
              "details_minor_channel_number", "audio_OOB_source_ID", "location_count", "exception_count",
              "multi_text_count", "descriptor_text_count"}
      BY DEF HeadMembers, DetailsMembers
    <3> DEFINE T1 == Each(TextMembers, 0 .. (Len(n.texts) - 1))
               T2 == BytesOf(n.texts, "compressed_str")
               T3 == Each({"i_tag", "i_length"}, 0 .. (Len(n.descriptors) - 1))
               T4 == BytesOf(n.descriptors, "p_data")
    <3> HIDE DEF Q
    <3>2. AlertMembers(n)
            = Once({"eas_section_count", "table_id", "extension", "version", "current_next", "sequence_num",
              "protocol_version", "eas_event_id", "eas_orig_code0", "eas_orig_code1", "eas_orig_code2",
              "eas_event_code_len", "alert_message_time_remaining", "event_start_time", "event_duration",
              "alert_priority", "details_OOB_source_ID", "details_major_channel_number",
              "details_minor_channel_number", "audio_OOB_source_ID", "location_count", "exception_count",
              "multi_text_count", "descriptor_text_count"})
                \cup M2 \cup Each({"i_state_code", "i_country_subdiv", "i_country_code"}, 0 .. (n.locations - 1))
                \cup Each({"i_in_band_refer", "i_exception_major_channel_number",
                           "i_exception_minor_channel_number", "exception_OOB_source_ID"}, 0 .. (n.exceptions - 1))
                \cup Each({"lang0", "lang1", "lang2", "i_type", "i_compression_type", "i_mode", "i_number_bytes"},
                          0 .. (Len(n.texts) - 1))
                \cup T2 \cup T3 \cup T4
      BY DEF AlertMembers
    <3>3. M4 = Each({"i_state_code", "i_country_subdiv", "i_country_code"}, 0 .. (n.locations - 1))
      BY DEF LocationMembers
    <3>4. M6 = Each({"i_in_band_refer", "i_exception_major_channel_number",
                     "i_exception_minor_channel_number", "exception_OOB_source_ID"}, 0 .. (n.exceptions - 1))
      BY DEF ExceptionMembers
    <3>5. T1 = Each({"lang0", "lang1", "lang2", "i_type", "i_compression_type", "i_mode", "i_number_bytes"},
                    0 .. (Len(n.texts) - 1))
      BY DEF TextMembers
    <3> HIDE DEF M2, M4, M6, T1, T2, T3, T4
    <3> QED BY <3>1, <3>2, <3>3, <3>4, <3>5 DEF T1, T2, T3, T4
  <2>2. \A X, Y : Once(X \cup Y) = Once(X) \cup Once(Y)
    BY DEF Once, Each
  <2> DEFINE Q2 == HeadMembers \cup DetailsMembers
             Q3 == Q2 \cup {"exception_count"}
             Q4 == Q3 \cup {"multi_text_count"}
  <2>3. Once(Q) = Once(Q4) \cup M9
    BY <2>2, Zenon
  <2>4. Once(Q4) = Once(Q3) \cup M7
    BY <2>2, Zenon
  <2>5. Once(Q3) = Once(Q2) \cup M5
    BY <2>2, Zenon
  <2>6. Once(Q2) = M1 \cup M3
    BY <2>2, Zenon
  <2> HIDE DEF M1, M2, M3, M4, M5, M6, M7, M8, M9, M10, Q, Q2, Q3, Q4
  <2> QED BY <2>1, <2>3, <2>4, <2>5, <2>6
<1> HIDE DEF A1, A2, A3, A4, A5, A6, A7, A8, A9, A10, M1, M2, M3, M4, M5, M6, M7, M8, M9, M10
<1> DEFINE B2 == A1 \o A2
           N2 == M1 \cup M2
           B3 == B2 \o A3
           N3 == N2 \cup M3
           B4 == B3 \o A4
           N4 == N3 \cup M4
           B5 == B4 \o A5
           N5 == N4 \cup M5
           B6 == B5 \o A6
           N6 == N5 \cup M6
           B7 == B6 \o A7
           N7 == N6 \cup M7
           B8 == B7 \o A8
           N8 == N7 \cup M8
           B9 == B8 \o A9
           N9 == N8 \cup M9
           B10 == B9 \o A10
           N10 == N9 \cup M10
<1>12. Row(B2, 76, N2)
  <2>1. 12 \in Nat /\ 64 \in Nat /\ 12 + 64 = 76
    OBVIOUS
  <2>2. Row(A1 \o A2, 12 + 64, M1 \cup M2)
    <3> QED BY <1>6, <1>3, <2>1, RowJoin
  <2> QED BY <2>1, <2>2
<1> HIDE DEF B2, N2
<1>13. Row(B3, 85, N3)
  <2>1. 76 \in Nat /\ 9 \in Nat /\ 76 + 9 = 85
    OBVIOUS
  <2>2. Row(B2 \o A3, 76 + 9, N2 \cup M3)
    <3> QED BY <1>3, <1>12, <2>1, RowJoin
  <2> QED BY <2>1, <2>2
<1> HIDE DEF B3, N3
<1>14. Row(B4, 277, N4)
  <2>1. 85 \in Nat /\ 192 \in Nat /\ 85 + 192 = 277
    OBVIOUS
  <2>2. Row(B3 \o A4, 85 + 192, N3 \cup M4)
    <3> QED BY <1>7, <1>13, <2>1, RowJoin
  <2> QED BY <2>1, <2>2
<1> HIDE DEF B4, N4
<1>15. Row(B5, 278, N5)
  <2>1. 277 \in Nat /\ 1 \in Nat /\ 277 + 1 = 278
    OBVIOUS
  <2>2. Row(B4 \o A5, 277 + 1, N4 \cup M5)
    <3> QED BY <1>4, <1>14, <2>1, RowJoin
  <2> QED BY <2>1, <2>2
<1> HIDE DEF B5, N5
<1>16. Row(B6, 534, N6)
  <2>1. 278 \in Nat /\ 256 \in Nat /\ 278 + 256 = 534
    OBVIOUS
  <2>2. Row(B5 \o A6, 278 + 256, N5 \cup M6)
    <3> QED BY <1>8, <1>15, <2>1, RowJoin
  <2> QED BY <2>1, <2>2
<1> HIDE DEF B6, N6
<1>17. Row(B7, 535, N7)
  <2>1. 534 \in Nat /\ 1 \in Nat /\ 534 + 1 = 535
    OBVIOUS
  <2>2. Row(B6 \o A7, 534 + 1, N6 \cup M7)
    <3> QED BY <1>4, <1>16, <2>1, RowJoin
  <2> QED BY <2>1, <2>2
<1> HIDE DEF B7, N7
<1>18. Row(B8, 677, N8)
  <2>1. 535 \in Nat /\ 142 \in Nat /\ 535 + 142 = 677
    OBVIOUS
  <2>2. Row(B7 \o A8, 535 + 142, N7 \cup M8)
    <3> QED BY <1>9, <1>17, <2>1, RowJoin
  <2> QED BY <2>1, <2>2
<1> HIDE DEF B8, N8
<1>19. Row(B9, 678, N9)
  <2>1. 677 \in Nat /\ 1 \in Nat /\ 677 + 1 = 678
    OBVIOUS
  <2>2. Row(B8 \o A9, 677 + 1, N8 \cup M9)
    <3> QED BY <1>4, <1>18, <2>1, RowJoin
  <2> QED BY <2>1, <2>2
<1> HIDE DEF B9, N9
<1>20. Row(B10, 810, N10)
  <2>1. 678 \in Nat /\ 132 \in Nat /\ 678 + 132 = 810
    OBVIOUS
  <2>2. Row(B9 \o A10, 678 + 132, N9 \cup M10)
    <3> QED BY <1>10, <1>19, <2>1, RowJoin
  <2> QED BY <2>1, <2>2
<1> QED BY <1>2, <1>11, <1>20 DEF B2, N2, B3, N3, B4, N4, B5, N5, B6, N6, B7, N7, B8, N8, B9, N9

LEMMA SequenceHolds ==
  ASSUME NEW M, NEW s \in Seq(M)
  PROVE  Fills({<<k - 1, s[k]>> : k \in DOMAIN s}, 0, Len(s), Elements(s))
<1> DEFINE n == Len(s)
           W == {<<k - 1, s[k]>> : k \in DOMAIN s}
<1>1. n \in Nat /\ DOMAIN s = 1 .. n
  BY LenProperties
<1>2. Carried(W) = Elements(s)
  <2>1. ASSUME NEW w \in W PROVE w[2] \in Elements(s)
    BY <1>1 DEF Elements
  <2>2. ASSUME NEW k \in 1 .. n PROVE s[k] \in Carried(W)
    <3> DEFINE w == <<k - 1, s[k]>>
    <3>1. w \in W /\ w[2] = s[k]
      BY <1>1
    <3> QED BY <3>1 DEF Carried
  <2> QED BY <2>1, <2>2 DEF Carried, Elements
<1> HIDE DEF n
<1>3. \A w \in W : w[1] \in 0 .. (0 + n - 1)
  <2> TAKE w \in W
  <2>1. PICK k \in 1 .. n : w = <<k - 1, s[k]>>
    BY <1>1
  <2>2. w[1] = k - 1
    BY <2>1
  <2> QED BY <1>1, <2>2
<1>4. \A i \in 0 .. (0 + n - 1) : \E w \in W : w[1] = i
  <2> TAKE i \in 0 .. (0 + n - 1)
  <2>1. i + 1 \in 1 .. n /\ (i + 1) - 1 = i
    BY <1>1
  <2>2. <<(i + 1) - 1, s[i + 1]>> \in W
    BY <1>1, <2>1
  <2> QED BY <2>1, <2>2
<1>5. ASSUME NEW v \in W, NEW w \in W, v[1] = w[1] PROVE v = w
  <2>1. PICK k \in 1 .. n : v = <<k - 1, s[k]>>
    BY <1>1
  <2>2. PICK l \in 1 .. n : w = <<l - 1, s[l]>>
    BY <1>1
  <2>3. k - 1 = l - 1
    BY <1>5, <2>1, <2>2
  <2>4. k = l
    BY <2>3
  <2> QED BY <2>1, <2>2, <2>4
<1> HIDE DEF W
<1>6. Covers(W, 0, n)
  BY <1>3, <1>4, <1>5 DEF Covers
<1> QED BY <1>2, <1>6 DEF Fills, W, n

\* The parcel carries the event: the slots of its numbers and of its texts are filled once each.
Carries(p, e) ==
  \E u, v \in Nat : \E M, N :
    /\ Fills(p.ints.writes, 0, u, M) /\ Fills(p.texts.writes, 0, v, N) /\ M \cup N = Members(e)
    /\ e.kind = "eas" => u <= p.ints.size
    /\ e.kind # "eas" => u = p.ints.size /\ v = p.texts.size

LEMMA NothingHolds == Fills({}, 0, 0, {})
BY DEF Fills, Covers, Carried

LEMMA PlainCarries ==
  ASSUME NEW p, NEW e, NEW names, NEW n \in Nat, NEW S, Entry(names, n, S), e.kind # "eas",
         p = PlainParcel(<<n, names>>, NoTexts), Members(e) = Once(S)
  PROVE  Carries(p, e)
<1>1. p.ints.writes = Scalars(0, names) /\ p.ints.size = n /\ p.texts.writes = {} /\ p.texts.size = 0
  BY DEF PlainParcel, Vector, NoTexts
<1>2. Fills(p.ints.writes, 0, n, Once(S))
  <2>1. names \in Seq(S) /\ n = Len(names) /\ S = {names[k] : k \in 1 .. n} /\ 0 \in Nat
    BY DEF Entry
  <2> QED BY <1>1, <2>1, ScalarsHold
<1>3. Fills(p.texts.writes, 0, 0, {})
  BY <1>1, NothingHolds
<1>4. Once(S) \cup {} = Members(e) /\ 0 \in Nat
  OBVIOUS
<1> QED BY <1>1, <1>2, <1>3, <1>4 DEF Carries

LEMMA SignalKinds == DOMAIN SignalSlots = {"epg", "sourceSwitch", "avPlayback", "signal", "subtitle", "adc", "vga", "sourceConnect"}
BY DEF SignalSlots

LEMMA DeviceKinds == DOMAIN DeviceSlots = {"fbc", "headset", "frameStable", "frontend", "recorder", "rrt", "audioCb"}
BY DEF DeviceSlots

LEMMA ScannerCarries ==
  ASSUME NEW e, e.kind = "scanner", e.n.audios \in Nat, e.n.subtitles \in Nat
  PROVE  Carries(ParcelOf(e), e)
<1> DEFINE a == e.n.audios
           s == e.n.subtitles
           p == ScannerParcel(a, s)
<1>1. ParcelOf(e) = p
  BY SignalKinds DEF ParcelOf
<1>2. Members(e) = ServiceMembers(a, s)
  BY DEF Members
<1>0. a \in Nat /\ s \in Nat
  OBVIOUS
<1> HIDE DEF p, a, s
<1>3. PICK M, N : /\ Fills(p.ints.writes, 0, p.ints.size, M) /\ Fills(p.texts.writes, 0, p.texts.size, N)
                  /\ p.ints.size \in Nat /\ p.texts.size \in Nat /\ M \cup N = ServiceMembers(a, s)
  BY <1>0, ScannerHolds, Zenon DEF p
<1> QED BY <1>1, <1>2, <1>3 DEF Carries

LEMMA AlertCarries ==
  ASSUME NEW e, e.kind = "eas", e.n \in Alert
  PROVE  Carries(ParcelOf(e), e)
<1> DEFINE p == EasParcel(e.n)
           s == EasFields(e.n)
           M == AlertMembers(e.n)
<1>1. ParcelOf(e) = p
  BY SignalKinds DEF ParcelOf
<1>2. Members(e) = M
  BY DEF Members
<1>3. p.ints.writes = {<<k - 1, s[k]>> : k \in DOMAIN s} /\ p.ints.size = 1024 /\ p.texts.writes = {}
  BY DEF EasParcel, Vector, NoTexts
<1>4. s \in Seq(M) /\ Elements(s) = M /\ Len(s) <= 810
  BY AlertHolds DEF Row
<1> HIDE DEF p, s, M
<1>5. Fills(p.ints.writes, 0, Len(s), M)
  BY <1>3, <1>4, SequenceHolds
<1>6. Fills(p.texts.writes, 0, 0, {})
  BY <1>3, NothingHolds
<1>7. Len(s) \in Nat /\ 0 \in Nat /\ Len(s) <= p.ints.size /\ M \cup {} = M
  <2>1. Len(s) \in Nat
    BY <1>4, LenProperties
  <2> QED BY <1>3, <1>4, <2>1
<1> QED BY <1>1, <1>2, <1>5, <1>6, <1>7 DEF Carries

LEMMA DataCarries ==
  ASSUME NEW e, e.kind \in {"cec", "serial"}, e.n \in Nat
  PROVE  Carries(ParcelOf(e), e)
<1> DEFINE p == DataParcel(e.kind, e.n)
           head == IF e.kind = "cec" THEN <<"DataCount">> ELSE <<"DevId", "DataCount">>
           S == IF e.kind = "cec" THEN {"DataCount"} ELSE {"DevId", "DataCount"}
           l == Len(head)
           A == Each({"DataBuf"}, 0 .. (e.n - 1))
<1>1. ParcelOf(e) = p
  BY SignalKinds DEF ParcelOf
<1>2. Members(e) = Once(S) \cup A
  <2>1. Members(e) = Once(SignalMembers(e.kind) \cup DeviceMembers(e.kind)) \cup A
    BY DEF Members
  <2>2. SignalMembers(e.kind) \cup DeviceMembers(e.kind) = S
    BY DEF SignalMembers, DeviceMembers
  <2> QED BY <2>1, <2>2
<1>3. p.ints.writes = Scalars(0, head) \cup Array(l, e.n, "DataBuf") /\ p.ints.size = e.n + l
      /\ p.texts.writes = {} /\ p.texts.size = 0
  BY DEF DataParcel, Vector, NoTexts
<1>4. head \in Seq(S) /\ l \in Nat /\ S = {head[k] : k \in 1 .. l}
  <2>1. CASE e.kind = "cec"
    <3>1. head = <<"DataCount">> /\ S = {"DataCount"}
      BY <2>1
    <3> HIDE DEF head, S
    <3> QED BY <3>1
  <2>2. CASE e.kind # "cec"
    <3>1. head = <<"DevId", "DataCount">> /\ S = {"DevId", "DataCount"}
      BY <2>2
    <3> HIDE DEF head, S
    <3>2. l = 2
      BY <3>1
    <3> HIDE DEF l
    <3> QED BY <3>1, <3>2
  <2> QED BY <2>1, <2>2
<1> HIDE DEF p, head, S
<1>5. Fills(Scalars(0, head), 0, l, Once(S))
  BY <1>4, ScalarsHold
<1> HIDE DEF l
<1>6. Fills(Array(l, e.n, "DataBuf"), l, e.n, A)
  BY <1>4, ArrayHolds
<1>7. e.n + l \in Nat /\ l = 0 + l /\ e.n + l = l + e.n /\ 0 \in Nat
  BY <1>4
<1> HIDE DEF A
<1>8. Fills(Scalars(0, head) \cup Array(l, e.n, "DataBuf"), 0, e.n + l, Once(S) \cup A)
  BY <1>4, <1>5, <1>6, <1>7, Join
<1>9. Fills(p.texts.writes, 0, 0, {}) /\ Members(e) \cup {} = Members(e)
  BY <1>3, NothingHolds
<1> QED BY <1>1, <1>2, <1>3, <1>7, <1>8, <1>9 DEF Carries

LEMMA RecorderCarries ==
  ASSUME NEW e, e.kind = "recorder"
  PROVE  Carries(ParcelOf(e), e)
<1> DEFINE p == PlainParcel(<<2, <<"Status", "Error">>>>, Texts(1, <<"Id">>))
<1>1. ParcelOf(e) = p
  BY DEF ParcelOf, SignalSlots, DeviceSlots
<1>2. Members(e) = Once({"Status", "Error"}) \cup Once({"Id"})
  <2>1. SignalMembers(e.kind) \cup DeviceMembers(e.kind) = {"Id", "Status", "Error"}
    BY DEF SignalMembers, DeviceMembers
  <2>2. 0 .. -1 = {}
    OBVIOUS
  <2>3. Members(e) = Once({"Id", "Status", "Error"}) \cup Each({"DataBuf"}, 0 .. -1)
    BY <2>1 DEF Members
  <2> QED BY <2>2, <2>3 DEF Once, Each
<1>3. p.ints.writes = Scalars(0, <<"Status", "Error">>) /\ p.ints.size = 2
      /\ p.texts.writes = Scalars(0, <<"Id">>) /\ p.texts.size = 1
  BY DEF PlainParcel, Vector, Texts
<1> HIDE DEF p
<1>4. Fills(p.ints.writes, 0, 2, Once({"Status", "Error"}))
  <2>1. Entry(<<"Status", "Error">>, 2, {"Status", "Error"})
    BY PairEntry
  <2> QED BY <1>3, <2>1, ScalarsHold DEF Entry
<1>5. Fills(p.texts.writes, 0, 1, Once({"Id"}))
  <2>1. Entry(<<"Id">>, 1, {"Id"})
    BY SingleEntry
  <2> QED BY <1>3, <2>1, ScalarsHold DEF Entry
<1> QED BY <1>1, <1>2, <1>3, <1>4, <1>5 DEF Carries

LEMMA PlainKindCarries ==
  ASSUME NEW e, NEW names, NEW n \in Nat, NEW S, Entry(names, n, S),
         e.kind \notin {"scanner", "eas", "cec", "serial", "recorder"},
         IF e.kind \in DOMAIN SignalSlots THEN SignalSlots[e.kind] = <<n, names>>
                                         ELSE DeviceSlots[e.kind] = <<n, names>>,
         SignalMembers(e.kind) \cup DeviceMembers(e.kind) = S
  PROVE  Carries(ParcelOf(e), e)
<1>1. ParcelOf(e) = PlainParcel(<<n, names>>, NoTexts)
  BY DEF ParcelOf
<1>2. Members(e) = Once(S)
  <2>1. Members(e) = Once(SignalMembers(e.kind) \cup DeviceMembers(e.kind)) \cup Each({"DataBuf"}, 0 .. -1)
    BY DEF Members
  <2>2. 0 .. -1 = {}
    OBVIOUS
  <2> QED BY <2>1, <2>2 DEF Each
<1> QED BY <1>1, <1>2, PlainCarries

LEMMA PlainKinds ==
  ASSUME NEW e, e.kind \in DOMAIN SignalSlots \cup DOMAIN DeviceSlots
  PROVE  Carries(ParcelOf(e), e)
<1>1. CASE e.kind = "epg"
  <2> DEFINE names == <<"type", "time", "programID", "channelID">>
             S == {"type", "time", "programID", "channelID"}
  <2>1. Entry(names, 4, S)
    <3>1. S = {names[k] : k \in 1 .. 4}
      OBVIOUS
    <3> QED BY <3>1 DEF Entry
  <2>2. SignalMembers(e.kind) \cup DeviceMembers(e.kind) = S
    BY <1>1 DEF SignalMembers, DeviceMembers
  <2>3. SignalSlots[e.kind] = <<4, names>>
    BY <1>1 DEF SignalSlots
  <2>4. e.kind \in DOMAIN SignalSlots
    BY <1>1, SignalKinds
  <2>5. e.kind \notin {"scanner", "eas", "cec", "serial", "recorder"} /\ 4 \in Nat
    BY <1>1
  <2> HIDE DEF names, S
  <2> QED BY <2>1, <2>2, <2>3, <2>4, <2>5, PlainKindCarries
<1>2. CASE e.kind = "sourceSwitch"
  <2> DEFINE names == <<"DestSourceInput", "DestSourcePortNum">>
             S == {"DestSourceInput", "DestSourcePortNum"}
  <2>1. Entry(names, 2, S)
    BY PairEntry
  <2>2. SignalMembers(e.kind) \cup DeviceMembers(e.kind) = S
    BY <1>2 DEF SignalMembers, DeviceMembers
  <2>3. SignalSlots[e.kind] = <<2, names>>
    BY <1>2 DEF SignalSlots
  <2>4. e.kind \in DOMAIN SignalSlots
    BY <1>2, SignalKinds
  <2>5. e.kind \notin {"scanner", "eas", "cec", "serial", "recorder"} /\ 2 \in Nat
    BY <1>2
  <2> HIDE DEF names, S
  <2> QED BY <2>1, <2>2, <2>3, <2>4, <2>5, PlainKindCarries
<1>3. CASE e.kind = "avPlayback"
  <2> DEFINE names == <<"MsgType", "ProgramId">>
             S == {"MsgType", "ProgramId"}
  <2>1. Entry(names, 2, S)
    BY PairEntry
  <2>2. SignalMembers(e.kind) \cup DeviceMembers(e.kind) = S
    BY <1>3 DEF SignalMembers, DeviceMembers
  <2>3. SignalSlots[e.kind] = <<2, names>>
    BY <1>3 DEF SignalSlots
  <2>4. e.kind \in DOMAIN SignalSlots
    BY <1>3, SignalKinds
  <2>5. e.kind \notin {"scanner", "eas", "cec", "serial", "recorder"} /\ 2 \in Nat
    BY <1>3
  <2> HIDE DEF names, S
  <2> QED BY <2>1, <2>2, <2>3, <2>4, <2>5, PlainKindCarries
<1>4. CASE e.kind = "signal"
  <2> DEFINE names == <<"Trans_fmt", "Fmt", "Status", "Reserved">>
             S == {"Trans_fmt", "Fmt", "Status", "Reserved"}
  <2>1. Entry(names, 4, S)
    <3>1. S = {names[k] : k \in 1 .. 4}
      OBVIOUS
    <3> QED BY <3>1 DEF Entry
  <2>2. SignalMembers(e.kind) \cup DeviceMembers(e.kind) = S
    BY <1>4 DEF SignalMembers, DeviceMembers
  <2>3. SignalSlots[e.kind] = <<4, names>>
    BY <1>4 DEF SignalSlots
  <2>4. e.kind \in DOMAIN SignalSlots
    BY <1>4, SignalKinds
  <2>5. e.kind \notin {"scanner", "eas", "cec", "serial", "recorder"} /\ 4 \in Nat
    BY <1>4
  <2> HIDE DEF names, S
  <2> QED BY <2>1, <2>2, <2>3, <2>4, <2>5, PlainKindCarries
<1>5. CASE e.kind = "subtitle"
  <2> DEFINE names == <<"pic_width", "pic_height">>
             S == {"pic_width", "pic_height"}
  <2>1. Entry(names, 2, S)
    BY PairEntry
  <2>2. SignalMembers(e.kind) \cup DeviceMembers(e.kind) = S
    BY <1>5 DEF SignalMembers, DeviceMembers
  <2>3. SignalSlots[e.kind] = <<2, names>>
    BY <1>5 DEF SignalSlots
  <2>4. e.kind \in DOMAIN SignalSlots
    BY <1>5, SignalKinds
  <2>5. e.kind \notin {"scanner", "eas", "cec", "serial", "recorder"} /\ 2 \in Nat
    BY <1>5
  <2> HIDE DEF names, S
  <2> QED BY <2>1, <2>2, <2>3, <2>4, <2>5, PlainKindCarries
<1>6. CASE e.kind = "adc"
  <2> DEFINE names == <<"State">>
             S == {"State"}
  <2>1. Entry(names, 1, S)
    BY SingleEntry
  <2>2. SignalMembers(e.kind) \cup DeviceMembers(e.kind) = S
    BY <1>6 DEF SignalMembers, DeviceMembers
  <2>3. SignalSlots[e.kind] = <<1, names>>
    BY <1>6 DEF SignalSlots
  <2>4. e.kind \in DOMAIN SignalSlots
    BY <1>6, SignalKinds
  <2>5. e.kind \notin {"scanner", "eas", "cec", "serial", "recorder"} /\ 1 \in Nat
    BY <1>6
  <2> HIDE DEF names, S
  <2> QED BY <2>1, <2>2, <2>3, <2>4, <2>5, PlainKindCarries
<1>7. CASE e.kind = "vga"
  <2> DEFINE names == <<"State">>
             S == {"State"}
  <2>1. Entry(names, 1, S)
    BY SingleEntry
  <2>2. SignalMembers(e.kind) \cup DeviceMembers(e.kind) = S
    BY <1>7 DEF SignalMembers, DeviceMembers
  <2>3. SignalSlots[e.kind] = <<1, names>>
    BY <1>7 DEF SignalSlots
  <2>4. e.kind \in DOMAIN SignalSlots
    BY <1>7, SignalKinds
  <2>5. e.kind \notin {"scanner", "eas", "cec", "serial", "recorder"} /\ 1 \in Nat
    BY <1>7
  <2> HIDE DEF names, S
  <2> QED BY <2>1, <2>2, <2>3, <2>4, <2>5, PlainKindCarries
<1>8. CASE e.kind = "sourceConnect"
  <2> DEFINE names == <<"SourceInput", "connectionState">>
             S == {"SourceInput", "connectionState"}
  <2>1. Entry(names, 2, S)
    BY PairEntry
  <2>2. SignalMembers(e.kind) \cup DeviceMembers(e.kind) = S
    BY <1>8 DEF SignalMembers, DeviceMembers
  <2>3. SignalSlots[e.kind] = <<2, names>>
    BY <1>8 DEF SignalSlots
  <2>4. e.kind \in DOMAIN SignalSlots
    BY <1>8, SignalKinds
  <2>5. e.kind \notin {"scanner", "eas", "cec", "serial", "recorder"} /\ 2 \in Nat
    BY <1>8
  <2> HIDE DEF names, S
  <2> QED BY <2>1, <2>2, <2>3, <2>4, <2>5, PlainKindCarries
<1>9. CASE e.kind = "fbc"
  <2> DEFINE names == <<"State", "param">>
             S == {"State", "param"}
  <2>1. Entry(names, 2, S)
    BY PairEntry
  <2>2. SignalMembers(e.kind) \cup DeviceMembers(e.kind) = S
    BY <1>9 DEF SignalMembers, DeviceMembers
  <2>3. DeviceSlots[e.kind] = <<2, names>>
    BY <1>9 DEF DeviceSlots
  <2>4. e.kind \notin DOMAIN SignalSlots
    BY <1>9, SignalKinds
  <2>5. e.kind \notin {"scanner", "eas", "cec", "serial", "recorder"} /\ 2 \in Nat
    BY <1>9
  <2> HIDE DEF names, S
  <2> QED BY <2>1, <2>2, <2>3, <2>4, <2>5, PlainKindCarries
<1>10. CASE e.kind = "headset"
  <2> DEFINE names == <<"state", "para">>
             S == {"state", "para"}
  <2>1. Entry(names, 2, S)
    BY PairEntry
  <2>2. SignalMembers(e.kind) \cup DeviceMembers(e.kind) = S
    BY <1>10 DEF SignalMembers, DeviceMembers
  <2>3. DeviceSlots[e.kind] = <<2, names>>
    BY <1>10 DEF DeviceSlots
  <2>4. e.kind \notin DOMAIN SignalSlots
    BY <1>10, SignalKinds
  <2>5. e.kind \notin {"scanner", "eas", "cec", "serial", "recorder"} /\ 2 \in Nat
    BY <1>10
  <2> HIDE DEF names, S
  <2> QED BY <2>1, <2>2, <2>3, <2>4, <2>5, PlainKindCarries
<1>11. CASE e.kind = "frameStable"
  <2> DEFINE names == <<"CurScanningFreq">>
             S == {"CurScanningFreq"}
  <2>1. Entry(names, 1, S)
    BY SingleEntry
  <2>2. SignalMembers(e.kind) \cup DeviceMembers(e.kind) = S
    BY <1>11 DEF SignalMembers, DeviceMembers
  <2>3. DeviceSlots[e.kind] = <<1, names>>
    BY <1>11 DEF DeviceSlots
  <2>4. e.kind \notin DOMAIN SignalSlots
    BY <1>11, SignalKinds
  <2>5. e.kind \notin {"scanner", "eas", "cec", "serial", "recorder"} /\ 1 \in Nat
    BY <1>11
  <2> HIDE DEF names, S
  <2> QED BY <2>1, <2>2, <2>3, <2>4, <2>5, PlainKindCarries
<1>12. CASE e.kind = "frontend"
  <2> DEFINE names == <<"Status", "Frequency", "Param1", "Param2", "Param3", "Param4", "Param5", "Param6", "Param7", "Param8">>
             S == {"Status", "Frequency", "Param1", "Param2", "Param3", "Param4", "Param5", "Param6", "Param7", "Param8"}
  <2>1. Entry(names, 10, S)
    <3>1. S = {names[k] : k \in 1 .. 10}
      OBVIOUS
    <3> QED BY <3>1 DEF Entry
  <2>2. SignalMembers(e.kind) \cup DeviceMembers(e.kind) = S
    BY <1>12 DEF SignalMembers, DeviceMembers
  <2>3. DeviceSlots[e.kind] = <<10, names>>
    BY <1>12 DEF DeviceSlots
  <2>4. e.kind \notin DOMAIN SignalSlots
    BY <1>12, SignalKinds
  <2>5. e.kind \notin {"scanner", "eas", "cec", "serial", "recorder"} /\ 10 \in Nat
    BY <1>12
  <2> HIDE DEF names, S
  <2> QED BY <2>1, <2>2, <2>3, <2>4, <2>5, PlainKindCarries
<1>13. CASE e.kind = "rrt"
  <2> DEFINE names == <<"satus">>
             S == {"satus"}
  <2>1. Entry(names, 1, S)
    BY SingleEntry
  <2>2. SignalMembers(e.kind) \cup DeviceMembers(e.kind) = S
    BY <1>13 DEF SignalMembers, DeviceMembers
  <2>3. DeviceSlots[e.kind] = <<1, names>>
    BY <1>13 DEF DeviceSlots
  <2>4. e.kind \notin DOMAIN SignalSlots
    BY <1>13, SignalKinds
  <2>5. e.kind \notin {"scanner", "eas", "cec", "serial", "recorder"} /\ 1 \in Nat
    BY <1>13
  <2> HIDE DEF names, S
  <2> QED BY <2>1, <2>2, <2>3, <2>4, <2>5, PlainKindCarries
<1>14. CASE e.kind = "audioCb"
  <2> DEFINE names == <<"cmd", "param1", "param2">>
             S == {"cmd", "param1", "param2"}
  <2>1. Entry(names, 3, S)
    <3>1. S = {names[k] : k \in 1 .. 3}
      OBVIOUS
    <3> QED BY <3>1 DEF Entry
  <2>2. SignalMembers(e.kind) \cup DeviceMembers(e.kind) = S
    BY <1>14 DEF SignalMembers, DeviceMembers
  <2>3. DeviceSlots[e.kind] = <<3, names>>
    BY <1>14 DEF DeviceSlots
  <2>4. e.kind \notin DOMAIN SignalSlots
    BY <1>14, SignalKinds
  <2>5. e.kind \notin {"scanner", "eas", "cec", "serial", "recorder"} /\ 3 \in Nat
    BY <1>14
  <2> HIDE DEF names, S
  <2> QED BY <2>1, <2>2, <2>3, <2>4, <2>5, PlainKindCarries
<1>15. CASE e.kind = "recorder"
  BY <1>15, RecorderCarries
<1> QED BY <1>1, <1>2, <1>3, <1>4, <1>5, <1>6, <1>7, <1>8, <1>9, <1>10, <1>11, <1>12, <1>13, <1>14, <1>15, SignalKinds, DeviceKinds

LEMMA EveryEventCarried == ASSUME NEW e \in ParcelEvents PROVE Carries(ParcelOf(e), e)
<1>1. CASE e \in [kind : {"scanner"}, n : Streams]
  <2>1. e.kind = "scanner" /\ e.n.audios \in 0 .. MaxTracks /\ e.n.subtitles \in 0 .. MaxTracks
    BY <1>1 DEF Streams
  <2>2. \A x \in 0 .. MaxTracks : x \in Nat
    OBVIOUS
  <2> QED BY <2>1, <2>2, ScannerCarries
<1>2. CASE e \in [kind : {"eas"}, n : Alert]
  BY <1>2, AlertCarries
<1>3. CASE e \in [kind : {"cec", "serial"}, n : DataLengths]
  <2>1. e.kind \in {"cec", "serial"} /\ e.n \in Nat
    BY <1>3, ParcelAssumption
  <2> QED BY <2>1, DataCarries
<1>4. CASE e \in [kind : DOMAIN SignalSlots \cup DOMAIN DeviceSlots, n : {0}]
  BY <1>4, PlainKinds
<1> QED BY <1>1, <1>2, <1>3, <1>4 DEF ParcelEvents

LEMMA NothingCarried == Carries(NoParcel, NoEvent)
<1>1. NoEvent.kind = "none" /\ Members(NoEvent) = {}
  <2>1. SignalMembers("none") = {} /\ DeviceMembers("none") = {}
    BY DEF SignalMembers, DeviceMembers
  <2>2. 0 .. -1 = {}
    OBVIOUS
  <2>3. NoEvent.kind = "none"
    BY DEF NoEvent
  <2>4. Members(NoEvent) = Once({} \cup {}) \cup Each({"DataBuf"}, 0 .. -1)
    BY <2>1, <2>3 DEF Members
  <2> QED BY <2>2, <2>3, <2>4 DEF Once, Each
<1>2. NoParcel.ints.writes = {} /\ NoParcel.ints.size = 0 /\ NoParcel.texts.writes = {} /\ NoParcel.texts.size = 0
  BY DEF NoParcel, Vector, NoTexts
<1> QED BY <1>1, <1>2, NothingHolds DEF Carries

LEMMA CarriesMeans == ASSUME Carries(parcel, event) PROVE CarriesWholeEvent
<1> DEFINE V == parcel.ints.writes
           W == parcel.texts.writes
<1>0. PICK u \in Nat, v \in Nat : \E M, N :
        /\ Fills(V, 0, u, M) /\ Fills(W, 0, v, N) /\ M \cup N = Members(event)
        /\ event.kind = "eas" => u <= parcel.ints.size
        /\ event.kind # "eas" => u = parcel.ints.size /\ v = parcel.texts.size
  BY DEF Carries
<1>1. PICK M, N :
        /\ Fills(V, 0, u, M) /\ Fills(W, 0, v, N) /\ M \cup N = Members(event)
        /\ event.kind = "eas" => u <= parcel.ints.size
        /\ event.kind # "eas" => u = parcel.ints.size /\ v = parcel.texts.size
  BY <1>0
<1>2. {w[1] : w \in V} = 0 .. (Cardinality(V) - 1) /\ Cardinality(V) = u
  BY <1>1, CoversCount DEF Fills
<1>3. {w[1] : w \in W} = 0 .. (Cardinality(W) - 1) /\ Cardinality(W) = v
  BY <1>1, CoversCount DEF Fills
<1>4. EachSlotOnce(parcel.ints)
  <2> HIDE DEF W
  <2> QED BY <1>1, <1>2 DEF EachSlotOnce
<1>5. event.kind # "eas" => EachSlotOnce(parcel.texts)
  <2> HIDE DEF V
  <2> QED BY <1>1, <1>3 DEF EachSlotOnce
<1>6. {w[2] : w \in V \cup W} = Members(event)
  <2>1. {w[2] : w \in V} = M /\ {w[2] : w \in W} = N
    BY <1>1 DEF Fills, Carried
  <2>2. {w[2] : w \in V \cup W} = {w[2] : w \in V} \cup {w[2] : w \in W}
    OBVIOUS
  <2> QED BY <1>1, <2>1, <2>2
<1> QED BY <1>4, <1>5, <1>6 DEF CarriesWholeEvent

\* The parcel is the event's own, or there is neither.
ParcelOfEvent ==
  \/ event = NoEvent /\ parcel = NoParcel
  \/ event \in ParcelEvents /\ parcel = ParcelOf(event)

\* Every parcel onTvEvent sends carries the whole event, whatever the counts of its streams and arrays:
\* its slots are used once each, none lies outside the vector, and no member is left out.
THEOREM WholeEventCarried == ParcelSpec => []CarriesWholeEvent
<1>1. ParcelInit => ParcelOfEvent
  BY DEF ParcelInit, ParcelOfEvent
<1>2. ParcelOfEvent /\ [ParcelNext]_parcelVars => ParcelOfEvent'
  <2> SUFFICES ASSUME ParcelOfEvent, [ParcelNext]_parcelVars PROVE ParcelOfEvent'
    OBVIOUS
  <2>1. CASE OnTvEvent
    <3>1. PICK e \in ParcelEvents : event' = e /\ parcel' = ParcelOf(e)
      BY <2>1 DEF OnTvEvent
    <3> QED BY <3>1 DEF ParcelOfEvent
  <2>2. CASE Told
    BY <2>2 DEF Told, ParcelOfEvent
  <2>3. CASE UNCHANGED parcelVars
    <3>1. event' = event /\ parcel' = parcel
      BY <2>3 DEF parcelVars
    <3> QED BY <3>1 DEF ParcelOfEvent
  <2> QED BY <2>1, <2>2, <2>3 DEF ParcelNext
<1>3. ParcelOfEvent => CarriesWholeEvent
  <2>1. CASE event = NoEvent /\ parcel = NoParcel
    BY <2>1, NothingCarried, CarriesMeans
  <2>2. CASE event \in ParcelEvents /\ parcel = ParcelOf(event)
    BY <2>2, EveryEventCarried, CarriesMeans
  <2> QED BY <2>1, <2>2 DEF ParcelOfEvent
<1> QED BY <1>1, <1>2, <1>3, PTL DEF ParcelSpec

=============================================================================
