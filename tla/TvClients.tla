------------------------------ MODULE TvClients ------------------------------
(***************************************************************************)
(* DroidTvServer (tvserver/): the HIDL service's clients.  A client gives  *)
(* a callback with setCallback and gets a slot, whose number is the cookie *)
(* of its death notice; when the client dies the notice frees the slot for *)
(* the next client.  Events come from several threads of CTv (poll thread, *)
(* message thread, binder threads) and onEvent calls every slot's client.  *)
(* One mutex protects the slots; onEvent holds it over all its calls.      *)
(*                                                                         *)
(* Left out: the connect type, of which only a bad value matters (the call *)
(* then does nothing).  notifyCallback is taken to be a one-way call: it   *)
(* reaches a live client, in the order of the calls, and is lost on a dead *)
(* one.                                                                    *)
(***************************************************************************)
EXTENDS Naturals, Sequences, FiniteSets

CONSTANTS
    Clients,        \* client processes
    Events,         \* what CTv reports, each once
    MaxCalls        \* bound: calls of setCallback

Nobody == "nobody"
ASSUME ClientsAssumption == Nobody \notin Clients
ASSUME MaxCallsAssumption == MaxCalls \in Nat

VARIABLES
    alive,      \* clients whose process runs
    calls,      \* calls of setCallback on their way, per client
    made,       \* calls made so far
    mClients,   \* the slots: slot k has the cookie k - 1
    links,      \* <<client, slot>>: death notices linked
    notices,    \* <<client, slot>>: death notices on their way
    started,    \* mListenerStarted
    sending,    \* the onEvent that holds mLock: its event, position and size
    todo,       \* events not sent yet
    heard,      \* events each client was called with
    due         \* history: the slots at the time each event was sent

vars == <<alive, calls, made, mClients, links, notices, started, sending, todo,
          heard, due>>

Locked == sending # {}
Slots == 1..Len(mClients)
Holders == {mClients[k] : k \in Slots} \ {Nobody}

TypeOK ==
    /\ alive \subseteq Clients /\ todo \subseteq Events
    /\ calls \in [Clients -> Nat] /\ made \in 0..MaxCalls
    /\ mClients \in Seq(Clients \cup {Nobody})
    /\ links \subseteq Clients \X Slots /\ notices \subseteq Clients \X Slots
    /\ started \in BOOLEAN
    /\ sending \subseteq [event : Events, i : Nat, size : 0..Len(mClients)]
    /\ heard \in [Clients -> Seq(Events)]
    /\ due \in [Events -> Seq(Clients \cup {Nobody})]

Init ==
    /\ alive = Clients
    /\ calls = [c \in Clients |-> 0] /\ made = 0
    /\ mClients = <<>> /\ links = {} /\ notices = {}
    /\ started = FALSE
    /\ sending = {} /\ todo = Events
    /\ heard = [c \in Clients |-> <<>>] /\ due = [e \in Events |-> <<>>]

-----------------------------------------------------------------------------
(* Clients *)

\* A client calls setCallback; a second time to register once more.
Call(c) ==
    /\ c \in alive /\ made < MaxCalls
    /\ calls' = [calls EXCEPT ![c] = @ + 1]
    /\ made' = made + 1
    /\ UNCHANGED <<alive, mClients, links, notices, started, sending, todo,
                   heard, due>>

\* A client dies, its calls perhaps still on their way, and the binder driver
\* raises the notices linked to it.
Die(c) ==
    /\ c \in alive
    /\ alive' = alive \ {c}
    /\ notices' = notices \cup {l \in links : l[1] = c}
    /\ links' = {l \in links : l[1] # c}
    /\ UNCHANGED <<calls, made, mClients, started, sending, todo, heard, due>>

-----------------------------------------------------------------------------
(* setCallback *)

FreeSlots == {k \in Slots : mClients[k] = Nobody}

\* The first free slot, or a new one.
NextSlot ==
    IF FreeSlots = {} THEN Len(mClients) + 1
    ELSE CHOOSE k \in FreeSlots : \A j \in FreeSlots : k <= j

\* The slot is given before linkToDeath, which fails for a client that is dead
\* already; the failure is only logged.
SetCallback(c) ==
    /\ calls[c] > 0 /\ ~Locked
    /\ LET k == NextSlot IN
       /\ mClients' = IF k \in Slots THEN [mClients EXCEPT ![k] = c]
                      ELSE Append(mClients, c)
       /\ links' = links \cup (IF c \in alive THEN {<<c, k>>} ELSE {})
    /\ calls' = [calls EXCEPT ![c] = @ - 1]
    /\ started' = TRUE
    /\ UNCHANGED <<alive, made, notices, sending, todo, heard, due>>

\* Without a callback the call only starts the detection of devices.
SetNoCallback ==
    /\ ~started /\ ~Locked
    /\ started' = TRUE
    /\ UNCHANGED <<alive, calls, made, mClients, links, notices, sending, todo,
                   heard, due>>

-----------------------------------------------------------------------------
(* serviceDied and handleServiceDeath; unlinkToDeath has nothing left to do for *)
(* a client that is dead.                                                      *)

\* Mutant of ServiceDied: only unlinks.
ServiceDiedKeep(c, k) ==
    /\ <<c, k>> \in notices /\ ~Locked
    /\ notices' = notices \ {<<c, k>>}
    /\ UNCHANGED <<alive, calls, made, mClients, links, started, sending, todo,
                   heard, due>>

ServiceDied(c, k) ==
    /\ <<c, k>> \in notices /\ ~Locked
    /\ notices' = notices \ {<<c, k>>}
    /\ mClients' = [mClients EXCEPT ![k] = Nobody]
    /\ UNCHANGED <<alive, calls, made, links, started, sending, todo, heard,
                   due>>

-----------------------------------------------------------------------------
(* onEvent *)

\* Mutant of LockForEvent: works without the lock.
StartEvent(e) ==
    /\ e \in todo
    /\ sending' = sending \cup {[event |-> e, i |-> 1, size |-> Len(mClients)]}
    /\ todo' = todo \ {e}
    /\ due' = [due EXCEPT ![e] = mClients]
    /\ UNCHANGED <<alive, calls, made, mClients, links, notices, started, heard>>

\* mLock is taken and the number of slots read.
LockForEvent(e) ==
    /\ e \in todo /\ ~Locked
    /\ sending' = {[event |-> e, i |-> 1, size |-> Len(mClients)]}
    /\ todo' = todo \ {e}
    /\ due' = [due EXCEPT ![e] = mClients]
    /\ UNCHANGED <<alive, calls, made, mClients, links, notices, started, heard>>

NextNotify(m) == [m EXCEPT !.i = @ + 1]

\* notifyCallback of the next slot's client.
Notify(m) ==
    /\ m.i <= m.size
    /\ LET c == mClients[m.i] IN
       heard' = IF c \in alive
                THEN [heard EXCEPT ![c] = Append(@, m.event)] ELSE heard
    /\ sending' = (sending \ {m}) \cup {NextNotify(m)}
    /\ UNCHANGED <<alive, calls, made, mClients, links, notices, started, todo,
                   due>>

Unlock(m) ==
    /\ m.i > m.size
    /\ sending' = sending \ {m}
    /\ UNCHANGED <<alive, calls, made, mClients, links, notices, started, todo,
                   heard, due>>

-----------------------------------------------------------------------------
Server ==
    \/ \E c \in Clients : SetCallback(c)
    \/ \E c \in Clients, k \in Slots : ServiceDied(c, k)
    \/ \E m \in sending : Notify(m) \/ Unlock(m)

Next ==
    \/ \E c \in Clients : Call(c) \/ Die(c)
    \/ SetNoCallback
    \/ \E e \in Events : LockForEvent(e)
    \/ Server

Spec == Init /\ [][Next]_vars

\* The server's threads go on; nothing makes clients call or die, or CTv
\* report.  Events are finitely many, so that waiting for mLock ends.
FairSpec == Spec /\ WF_vars(Server)

-----------------------------------------------------------------------------
(* Properties *)

\* handleServiceDeath(cookie) finds the dead client in the slot: it neither
\* dereferences a null callback nor throws out a client that got the slot since.
DeathFindsSlot ==
    \A l \in links \cup notices : mClients[l[2]] = l[1]

\* Clients agree on the order of the events they both heard of, from whatever
\* threads of CTv these came.
Before(c, e, f) ==
    \E i, j \in 1..Len(heard[c]) :
       i < j /\ heard[c][i] = e /\ heard[c][j] = f
SameOrder ==
    \A c, d \in Clients : \A e, f \in Events :
       e # f /\ Before(c, e, f) => ~Before(d, f, e)

\* Once an event is sent, every client that still lives has heard it once per
\* slot it had, though clients register, die and take over slots meanwhile.
Times(s, x) == Cardinality({i \in 1..Len(s) : s[i] = x})
HeardByAll ==
    ~Locked => \A e \in Events \ todo : \A c \in alive :
                  Times(heard[c], e) = Times(due[e], c)

\* The list of clients serves whoever goes through it: an event finds all who live, in one order,
\* and the notice of a death the slot of the dead.
ClientsServed == HeardByAll /\ SameOrder /\ DeathFindsSlot

\* A death notice frees the slot it was linked for.
LinkedSlotFreed ==
    \A c \in Clients : \A k \in 1..MaxCalls :
       <<c, k>> \in notices ~> k \in FreeSlots

\* "Handle the case where the callback registered for the given type dies": a
\* dead client's slot is free in the end.
DeathHandled == \A c \in Clients : c \notin alive ~> c \notin Holders
=============================================================================
