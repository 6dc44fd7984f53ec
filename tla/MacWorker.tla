----------------------------- MODULE MacWorker -----------------------------
(***************************************************************************)
(* The thread that gives the network interface the MAC address kept in the *)
(* key device (TvKeyData.cpp): CreateMacAddressStartWorkThread starts it,  *)
(* or, when it runs, leaves it the new address; two flags, each behind its *)
(* own lock, say whether it runs and whether it shall go on.               *)
(*                                                                         *)
(* The address is 0 on every call: ReadKeyData never returns the 17 bytes  *)
(* KeyData_ReadMacAddress asks for (KeyData), and its 0 is no error.  So   *)
(* the worker never finds another address than the one it has set.         *)
(* Bound: MaxWorkers threads are created.                                  *)
(***************************************************************************)
EXTENDS Integers, FiniteSets

CONSTANTS MacCallers, MaxWorkers

ASSUME MacAssumption == MaxWorkers \in Nat

NoWorker == 0   \* CC_ERR_THREAD_ID

VARIABLES
  workerId,   \* mMacAddressStartWorkThreadID
  execFlag,   \* mMacAddressStartWorkThreadExecFlag: -1, 0, 1
  turnOn,     \* mMacAddressStartWorkThreadTurnOnFlag: -1, 0, 1
  enabled,    \* the configuration enables the worker
  eth,        \* the interface: "up", "down"
  macPc,      \* what each caller does next
  workers,    \* what each thread created does next
  crossed     \* history: two calls overlapped, or a thread was given up after a minute

macVars == <<workerId, execFlag, turnOn, enabled, eth, macPc, workers, crossed>>

Threads == DOMAIN workers
NotYet == [w \in {} |-> "starts"]

MacInit ==
  /\ workerId = NoWorker /\ execFlag = -1 /\ turnOn = -1 /\ eth = "up" /\ enabled \in BOOLEAN
  /\ macPc = [c \in MacCallers |-> "idle"] /\ workers = NotYet /\ crossed = FALSE

CallerGoes(c, from, to) == macPc[c] = from /\ macPc' = [macPc EXCEPT ![c] = to]
WorkerGoes(w, from, to) == workers[w] = from /\ workers' = [workers EXCEPT ![w] = to]

(***************************************************************************)
(* CreateMacAddressStartWorkThread.                                        *)
(***************************************************************************)

\* The address is read; a worker that has said it runs is only left the address.

\* Mutant of Decides: a thread that does not run is not joined.
DecidesUnjoined(c) ==
  \/ workerId # NoWorker /\ execFlag = 1 /\ CallerGoes(c, "decides", "idle")
  \/ ~(workerId # NoWorker /\ execFlag = 1) /\ CallerGoes(c, "decides", "creates")

Decides(c) ==
  \/ workerId # NoWorker /\ execFlag = 1 /\ CallerGoes(c, "decides", "idle")
  \/ workerId # NoWorker /\ execFlag # 1 /\ CallerGoes(c, "decides", "kills")
  \/ workerId = NoWorker /\ CallerGoes(c, "decides", "creates")
Create(c) ==
  /\ crossed' = (crossed \/ \E d \in MacCallers : macPc[d] # "idle")
  /\ CallerGoes(c, "idle", "decides")
  /\ UNCHANGED <<workerId, execFlag, turnOn, enabled, eth, workers>>
Decide(c) == Decides(c) /\ UNCHANGED <<workerId, execFlag, turnOn, enabled, eth, workers, crossed>>

\* KillMacAddressStartWorkThread: up to 600 looks at the flag, 100 ms apart; the caller does not
\* look at its answer.
TurnOff(c) ==
  /\ CallerGoes(c, "kills", "waits") /\ turnOn' = 0
  /\ UNCHANGED <<workerId, execFlag, enabled, eth, workers, crossed>>
SeenEnded(c) ==
  /\ execFlag = 0 /\ CallerGoes(c, "waits", "joins")
  /\ UNCHANGED <<workerId, execFlag, turnOn, enabled, eth, workers, crossed>>
GiveUp(c) ==
  /\ execFlag # 0 /\ CallerGoes(c, "waits", "creates") /\ crossed' = TRUE
  /\ UNCHANGED <<workerId, execFlag, turnOn, enabled, eth, workers>>
Join(c) ==
  /\ workerId # NoWorker => workers[workerId] = "ended"
  /\ CallerGoes(c, "joins", "creates") /\ workerId' = NoWorker
  /\ UNCHANGED <<execFlag, turnOn, enabled, eth, workers, crossed>>

\* The address stored, the flag set, the thread created; a failure, which is positive, is not seen.
TurnOnAndCreate(c) ==
  /\ CallerGoes(c, "creates", "idle") /\ turnOn' = 1
  /\ LET w == Cardinality(Threads) + 1 IN
     \/ /\ w <= MaxWorkers
        /\ workerId' = w /\ workers' = [t \in Threads \cup {w} |-> IF t = w THEN "starts" ELSE workers[t]]
     \/ UNCHANGED <<workerId, workers>>
  /\ UNCHANGED <<execFlag, enabled, eth, crossed>>

(***************************************************************************)
(* The thread.                                                             *)
(***************************************************************************)

Starts(w) == WorkerGoes(w, "starts", IF enabled THEN "looks" ELSE "leaves") /\ execFlag' = 1 /\ UNCHANGED <<turnOn, eth>>
Looks(w) == WorkerGoes(w, "looks", IF turnOn = 1 THEN "stops" ELSE "leaves") /\ UNCHANGED <<execFlag, turnOn, eth>>
\* The DHCP client is stopped by a child process that is waited for; then the interface goes down.
Down(w) == WorkerGoes(w, "stops", "sets") /\ eth' = "down" /\ UNCHANGED <<execFlag, turnOn>>
\* The address set, the interface up; the address has not changed, and the loop is left.
Up(w) == WorkerGoes(w, "sets", "leaves") /\ eth' = "up" /\ UNCHANGED <<execFlag, turnOn>>
Leaves(w) == WorkerGoes(w, "leaves", "ended") /\ execFlag' = 0 /\ UNCHANGED <<turnOn, eth>>

MacWork(w) ==
  /\ Starts(w) \/ Looks(w) \/ Down(w) \/ Up(w) \/ Leaves(w)
  /\ UNCHANGED <<workerId, enabled, macPc, crossed>>

MacNext ==
  \/ \E c \in MacCallers : Create(c) \/ Decide(c) \/ TurnOff(c) \/ SeenEnded(c) \/ GiveUp(c) \/ Join(c) \/ TurnOnAndCreate(c)
  \/ \E w \in Threads : MacWork(w)
MacSpec == MacInit /\ [][MacNext]_macVars

(***************************************************************************)
(* Properties.                                                             *)
(***************************************************************************)

\* As long as calls do not overlap and no thread takes a minute to end, one thread at a time works on
\* the interface, and it is the one whose identifier is kept (CreateMacAddressStartWorkThread).
OneMacWorker ==
  ~crossed => \A w \in Threads : workers[w] # "ended" => w = workerId
=============================================================================
