----------------------------- MODULE DevicesPoll -----------------------------
(***************************************************************************)
(* CDevicesPollStatusDetect (libtv/tvin): the thread that reports cables   *)
(* being plugged in and out.  The drivers raise edge-triggered epoll       *)
(* events; for each the thread reads the device file, compares it with the *)
(* levels it remembers (m_hdmi_status, m_avin_status), reports what has    *)
(* changed and remembers what it has read.  Binder threads that answer     *)
(* GetSourceConnectStatus read the same files and overwrite the remembered *)
(* levels, without a lock.                                                 *)
(*                                                                         *)
(* Left out: the status AVIN_STATUS_UNKNOW, devices whose file cannot be   *)
(* read, and the table that maps HDMI ports to source inputs.              *)
(***************************************************************************)
EXTENDS Naturals

CONSTANTS
    NHdmi,     \* HDMI ports of the chip, four in the code
    Callers,   \* binder threads
    Queries,   \* what clients ask for, among Askable
    Moving     \* bound: the sockets whose level changes

Askable == {"hdmi", "av1", "av2"}

ASSUME NHdmiAssumption == NHdmi \in Nat \ {0}
ASSUME QueriesAssumption == Queries \subseteq Askable

Files == {"hdmi", "avin", "vdin"}
Size == [f \in Files |-> IF f = "hdmi" THEN NHdmi
                         ELSE IF f = "avin" THEN 2 ELSE 1]
Sockets == UNION {{f} \X (1..Size[f]) : f \in Files}
Levels == [Sockets -> BOOLEAN]

ASSUME MovingAssumption == Moving \subseteq Sockets

VARIABLES
    wire,     \* the level of each socket, as the drivers know it
    ready,    \* files with an edge that epoll_wait has not returned yet
    cache,    \* m_hdmi_status and m_avin_status
    told,     \* the level that was reported last
    poll,     \* the poll thread
    caller    \* the binder threads

pollVars == <<wire, ready, cache, told, poll, caller>>

PollPcs == {"off", "init_hdmi", "init_avin", "wait", "take", "read",
            "compare", "store"}
Poll == [pc : PollPcs, batch : SUBSET Files, file : Files, i : Nat,
         snap : Levels]
Caller == [pc : {"idle", "read", "store"}, ask : Askable, snap : Levels]

Out == [s \in Sockets |-> FALSE]

PollTypeOK ==
    /\ wire \in Levels /\ cache \in Levels /\ told \in Levels
    /\ ready \subseteq Files
    /\ poll \in Poll
    /\ caller \in [Callers -> Caller]

\* The constructor has opened the files, added them to the epoll set and
\* marked both AV inputs as plugged in; no vdin port is open, so there is no
\* signal yet.
PollInit ==
    /\ wire \in Levels /\ ~wire[<<"vdin", 1>>]
    /\ \A s \in Sockets \ Moving : ~wire[s]
    /\ ready \in SUBSET Files
    /\ cache = [s \in Sockets |-> s[1] = "avin"] /\ told = Out
    /\ poll = [pc |-> "off", batch |-> {}, file |-> "vdin", i |-> 1,
               snap |-> Out]
    /\ caller = [c \in Callers |-> [pc |-> "idle", ask |-> "hdmi",
                                    snap |-> Out]]

-----------------------------------------------------------------------------
(* Drivers *)

\* A level changes and the driver wakes the pollers of its file.
Plug(s) ==
    /\ wire' = [wire EXCEPT ![s] = ~@]
    /\ ready' = ready \cup {s[1]}
    /\ UNCHANGED <<cache, told, poll, caller>>

-----------------------------------------------------------------------------
(* The poll thread *)

\* The levels of the sockets of file f, from reading it; the rest unchanged.
Fill(levels, f, from) ==
    [s \in Sockets |-> IF s[1] = f THEN from[s] ELSE levels[s]]

\* startDetect, from the first setCallback of a client.
StartDetect ==
    /\ poll.pc = "off"
    /\ poll' = [poll EXCEPT !.pc = "init_hdmi"]
    /\ UNCHANGED <<wire, ready, cache, told, caller>>

\* The thread's first reads.  What it finds there counts as told: clients ask
\* when they connect.
InitRead(pc, f, next) ==
    /\ poll.pc = pc
    /\ cache' = Fill(cache, f, wire)
    /\ told' = Fill(told, f, wire)
    /\ poll' = [poll EXCEPT !.pc = next]
    /\ UNCHANGED <<wire, ready, caller>>

\* epoll_wait returns every file with an edge.
Wait ==
    /\ poll.pc = "wait" /\ ready # {}
    /\ poll' = [poll EXCEPT !.pc = "take", !.batch = ready]
    /\ ready' = {}
    /\ UNCHANGED <<wire, cache, told, caller>>

\* The next of the returned events, or back to epoll_wait.
Take ==
    /\ poll.pc = "take"
    /\ \/ /\ poll.batch = {}
          /\ poll' = [poll EXCEPT !.pc = "wait"]
       \/ \E f \in poll.batch :
             poll' = [poll EXCEPT !.pc = "read", !.batch = @ \ {f}, !.file = f]
    /\ UNCHANGED <<wire, ready, cache, told, caller>>

\* readFile; for vdin, CTv::onVdinSignalChange looks at the signal itself.
Read ==
    /\ poll.pc = "read"
    /\ IF poll.file = "vdin"
       THEN /\ told' = Fill(told, "vdin", wire)
            /\ poll' = [poll EXCEPT !.pc = "take"]
       ELSE /\ poll' = [poll EXCEPT !.pc = "compare", !.i = 1,
                                    !.snap = Fill(Out, poll.file, wire)]
            /\ UNCHANGED told
    /\ UNCHANGED <<wire, ready, cache, caller>>

Socket == <<poll.file, poll.i>>
LastSocket == poll.i = Size[poll.file]

\* onSourceConnect if the level is not the remembered one.  The AV loop then
\* remembers this input, the HDMI loop goes on to the next port.
Compare ==
    /\ poll.pc = "compare"
    /\ told' = [told EXCEPT ![Socket] =
                   IF poll.snap[Socket] # cache[Socket]
                   THEN poll.snap[Socket] ELSE @]
    /\ poll' = IF poll.file = "hdmi" /\ ~LastSocket
               THEN [poll EXCEPT !.i = @ + 1]
               ELSE [poll EXCEPT !.pc = "store"]
    /\ UNCHANGED <<wire, ready, cache, caller>>

NextSocket == IF LastSocket THEN [poll EXCEPT !.pc = "take", !.snap = Out]
              ELSE [poll EXCEPT !.pc = "compare", !.i = @ + 1]

\* Mutant of Store: reads the file again instead of keeping what was compared.
StoreReread ==
    /\ poll.pc = "store"
    /\ cache' = IF poll.file = "hdmi" THEN Fill(cache, "hdmi", wire)
                ELSE [cache EXCEPT ![Socket] = wire[Socket]]
    /\ poll' = NextSocket
    /\ UNCHANGED <<wire, ready, told, caller>>

\* m_avin_status[i] = status[i], or m_hdmi_status = hdmi_status.
Store ==
    /\ poll.pc = "store"
    /\ cache' = IF poll.file = "hdmi" THEN Fill(cache, "hdmi", poll.snap)
                ELSE [cache EXCEPT ![Socket] = poll.snap[Socket]]
    /\ poll' = NextSocket
    /\ UNCHANGED <<wire, ready, told, caller>>

PollStep ==
    \/ InitRead("init_hdmi", "hdmi", "init_avin")
    \/ InitRead("init_avin", "avin", "wait")
    \/ Wait \/ Take \/ Read \/ Compare \/ Store

-----------------------------------------------------------------------------
(* GetSourceConnectStatus on a binder thread *)

Ask(c) ==
    /\ caller[c].pc = "idle"
    /\ \E q \in Queries :
          caller' = [caller EXCEPT ![c].pc = "read", ![c].ask = q]
    /\ UNCHANGED <<wire, ready, cache, told, poll>>

FileOf(q) == IF q = "hdmi" THEN "hdmi" ELSE "avin"

AskRead(c) ==
    /\ caller[c].pc = "read"
    /\ caller' = [caller EXCEPT ![c].pc = "store",
                      ![c].snap = Fill(Out, FileOf(caller[c].ask), wire)]
    /\ UNCHANGED <<wire, ready, cache, told, poll>>

\* Mutant of Remembered: the AV loop stores before it tests the source.
RememberedFirst(q, s) ==
    \/ q = "hdmi" /\ s[1] = "hdmi"
    \/ q \in {"av1", "av2"} /\ s[1] = "avin"

\* What the question about q remembers: all HDMI ports; for AV2 the level of
\* AV1, which the loop passes on its way; nothing for AV1, found at once.
Remembered(q, s) ==
    \/ q = "hdmi" /\ s[1] = "hdmi"
    \/ q = "av2" /\ s = <<"avin", 1>>

AskStore(c) ==
    /\ caller[c].pc = "store"
    /\ cache' = [s \in Sockets |-> IF Remembered(caller[c].ask, s)
                                   THEN caller[c].snap[s] ELSE cache[s]]
    /\ caller' = [caller EXCEPT ![c].pc = "idle", ![c].snap = Out]
    /\ UNCHANGED <<wire, ready, told, poll>>

GetSourceConnectStatus(c) == Ask(c) \/ AskRead(c) \/ AskStore(c)

-----------------------------------------------------------------------------
PollNext ==
    \/ \E s \in Moving : Plug(s)
    \/ StartDetect \/ PollStep
    \/ \E c \in Callers : GetSourceConnectStatus(c)

PollSpec == PollInit /\ [][PollNext]_pollVars

\* The thread runs; nothing makes clients connect, ask, or plug cables.
PollFairSpec == PollSpec /\ WF_pollVars(PollStep)

-----------------------------------------------------------------------------
(* Properties.  A question may swallow the report of a change it sees first, *)
(* so they are about the sockets whose levels no question overwrites.        *)

Disturbed == {s \in Sockets : \/ s[1] = "hdmi" /\ "hdmi" \in Queries
                              \/ s = <<"avin", 1>> /\ "av2" \in Queries}
Undisturbed == Sockets \ Disturbed

\* When the thread sleeps and no edge is pending, every cable's level has been
\* reported, whatever changed while the thread was reading and comparing.
Asleep == poll.pc = "wait" /\ ready = {}
NothingMissed == Asleep => \A s \in Undisturbed : told[s] = wire[s]

\* onSourceConnect is only called with news: a level other than the last one
\* reported for that input.
Reporting == poll.pc = "compare" /\ poll.snap[Socket] # cache[Socket]
NewsOnly == Reporting /\ Socket \in Undisturbed
            => poll.snap[Socket] # told[Socket]

\* A level that lasts is reported in the end, though edges come while others
\* are handled and clients never stop asking.
Lasting(s, level) == wire[s] = level /\ poll.pc # "off"
EventuallyTold ==
    \A s \in Undisturbed : \A level \in BOOLEAN :
        <>[]Lasting(s, level) => <>[](told[s] = level)
=============================================================================
