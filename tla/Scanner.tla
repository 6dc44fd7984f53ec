------------------------------ MODULE Scanner ------------------------------
(***************************************************************************)
(* CTvScanner: one scan at a time in the ADTV library, on a thread of the  *)
(* library's that calls back for each change between analogue and digital  *)
(* reception and for each event.  Scan and stopScan are called under       *)
(* CTv::mLock; pauseScan, resumeScan and getScanStatus are not.            *)
(*                                                                         *)
(* A step is a part of a call that another thread can come between.  What  *)
(* is found and stored is in module ScanStore.                             *)
(***************************************************************************)
EXTENDS Integers, FiniteSets

CONSTANTS
  MaxScans,    (* bound: scans made in the library                         *)
  ScanKinds    (* the scans asked for                                      *)

\* ScanParas: "list" is TV_SCAN_ATVMODE_FREQ, "sweep" AUTO or MANUAL; atsc is the forced
\* standard; total is the number of streams, width that of an analogue sweep in whole MHz.
Kinds ==
  [atv : {"none", "list", "sweep"}, dtv : BOOLEAN, atsc : BOOLEAN, total : Nat \ {0}, width : Nat]
NoKind == [atv |-> "none", dtv |-> FALSE, atsc |-> FALSE, total |-> 0, width |-> 0]

ASSUME ScannerAssumption ==
  /\ MaxScans \in Nat /\ ScanKinds \subseteq Kinds
  /\ \A k \in ScanKinds : k.atv # "none" \/ k.dtv

VARIABLES
  scan,        (* the members of CTvScanner                                *)
  lib,         (* external: the library's scans by handle                  *)
  scanCall,    (* where the call under mLock is, and the scan it asks for  *)
  scanCb,      (* where FETypeHelperCB is on the library's thread          *)
  rx,          (* the receiver: tuner mode and vdin port                   *)
  query,       (* an unlocked call: the handle it will use, what it met    *)
  vbiRaced     (* history: VBI was restarted after the stop had stopped it *)

scannerVars == <<scan, lib, scanCall, scanCb, rx, query, vbiRaced>>

Handles == 1..MaxScans
Mixed(k) == k.atv # "none" /\ k.dtv
Factor(k) == IF Mixed(k) /\ k.atv # "list" THEN 50 ELSE 100
NeedVbiAssist(k) == k.atsc /\ k.atv # "none"

\* A library scan before and after its life, and one that begins.
NoScan == [state |-> "none", phase |-> "begin", at |-> 0, type |-> "none"]
Gone == [NoScan EXCEPT !.state = "gone"]
Begun == [NoScan EXCEPT !.state = "runs"]
Running == {h \in Handles : lib[h].state = "runs"}

ScannerInit ==
  /\ scan = [start |-> FALSE, handle |-> 0, kind |-> NoKind, feType |-> "none", vbi |-> FALSE,
             total |-> 0, percent |-> 0]
  /\ lib = [h \in Handles |-> NoScan]
  /\ scanCall = [at |-> "out", next |-> NoKind]
  /\ scanCb = [at |-> "out", type |-> "none"]
  /\ rx = [mode |-> "none", port |-> FALSE]
  /\ query = [handle |-> 0, met |-> "none", overlapped |-> FALSE]
  /\ vbiRaced = FALSE

(***************************************************************************)
(* Scan and stopScan.                                                      *)
(***************************************************************************)

StopVbi(s) == [s EXCEPT !.vbi = FALSE]
AfterStop == IF scanCall.next = NoKind THEN "out" ELSE "create"

\* stopScan, called by a client or first thing by Scan.
BeginStop(next) ==
  /\ scanCall.at = "out"
  /\ IF scan.start
     THEN /\ scan' = IF NeedVbiAssist(scan.kind) THEN StopVbi(scan) ELSE scan
          /\ vbiRaced' = (vbiRaced /\ ~NeedVbiAssist(scan.kind))
          /\ scanCall' = [at |-> "destroy", next |-> next]
          /\ query' = [query EXCEPT !.overlapped = @ \/ query.handle # 0]
     ELSE /\ scanCall' = [at |-> IF next = NoKind THEN "out" ELSE "create", next |-> next]
          /\ UNCHANGED <<scan, vbiRaced, query>>
  /\ UNCHANGED <<lib, scanCb, rx>>

\* AM_SCAN_Destroy waits for the library's thread.
DestroyScan ==
  /\ scanCall.at = "destroy" /\ scanCb.at = "out"
  /\ lib' = [lib EXCEPT ![scan.handle] = Gone]
  /\ scanCall' = [scanCall EXCEPT !.at = "clear"]
  /\ UNCHANGED <<scan, scanCb, rx, query, vbiRaced>>

ClearStart ==
  /\ scanCall.at = "clear"
  /\ scan' = [scan EXCEPT !.start = FALSE]
  /\ scanCall' = [scanCall EXCEPT !.at = AfterStop]
  /\ UNCHANGED <<lib, scanCb, rx, query, vbiRaced>>

\* Mutant of NewParas: the type of the scan before is kept.
NewParasKeepType(k) == [scan EXCEPT !.kind = k]

\* mCurEv.reset() clears neither mTotalChannelCount nor mPercent.
NewParas(k) == [scan EXCEPT !.kind = k, !.feType = "none"]

\* Mutant of CreateScan: a failed start leaves the library's scan and the flag.
CreateScanLeft ==
  /\ scanCall.at = "create"
  /\ \E h \in Handles :
       /\ lib[h] = NoScan /\ \A g \in Handles : g < h => lib[g] # NoScan
       /\ scan' = [NewParas(scanCall.next) EXCEPT !.handle = h]
       /\ lib' = [lib EXCEPT ![h] = Begun]
       /\ scanCall' \in {[at |-> "flag", next |-> NoKind], [at |-> "out", next |-> NoKind]}
  /\ UNCHANGED <<scanCb, rx, query, vbiRaced>>

\* Parameters refused, AM_SCAN_Create or AM_SCAN_Start failed, or the library's thread runs.
CreateScan ==
  /\ scanCall.at = "create"
  /\ \/ /\ scan' = NewParas(scanCall.next)
        /\ scanCall' = [at |-> "out", next |-> NoKind]
        /\ UNCHANGED lib
     \/ \E h \in Handles :
          /\ lib[h] = NoScan /\ \A g \in Handles : g < h => lib[g] # NoScan
          /\ scan' = [NewParas(scanCall.next) EXCEPT !.handle = h]
          /\ \/ /\ lib' = [lib EXCEPT ![h] = Gone]
                /\ scanCall' = [at |-> "out", next |-> NoKind]
             \/ /\ lib' = [lib EXCEPT ![h] = Begun]
                /\ scanCall' = [at |-> "flag", next |-> NoKind]
  /\ UNCHANGED <<scanCb, rx, query, vbiRaced>>

SetStart ==
  /\ scanCall.at = "flag"
  /\ scan' = [scan EXCEPT !.start = TRUE]
  /\ scanCall' = [scanCall EXCEPT !.at = "out"]
  /\ UNCHANGED <<lib, scanCb, rx, query, vbiRaced>>

(***************************************************************************)
(* pauseScan, resumeScan, getScanStatus: the flag is tested and the handle *)
(* used without mLock.                                                     *)
(***************************************************************************)

TestStart ==
  /\ query.handle = 0 /\ scan.start
  /\ query' = [handle |-> scan.handle, met |-> "none", overlapped |-> scanCall.at # "out"]
  /\ UNCHANGED <<scan, lib, scanCall, scanCb, rx, vbiRaced>>

UseHandle ==
  /\ query.handle # 0
  /\ query' = [query EXCEPT !.handle = 0, !.met = lib[query.handle].state]
  /\ UNCHANGED <<scan, lib, scanCall, scanCb, rx, vbiRaced>>

(***************************************************************************)
(* The library's thread.                                                   *)
(***************************************************************************)

TypesOf(k) == (IF k.atv = "none" THEN {} ELSE {"analog"}) \cup (IF k.dtv THEN {"digital"} ELSE {})
LibStep(h, l) == lib' = [lib EXCEPT ![h] = l]

\* FETypeHelperCB: nothing for the type that is on already.
FeTypeHelper(h, type) ==
  /\ h \in Running /\ scanCb.at = "out" /\ lib[h].phase = "ts" /\ type \in TypesOf(scan.kind)
  /\ LibStep(h, [lib[h] EXCEPT !.type = type])
  /\ IF type = scan.feType THEN UNCHANGED <<scan, scanCb>>
     ELSE /\ scan' = [scan EXCEPT !.feType = type]
          /\ scanCb' = [at |-> IF type = "analog" THEN "mode" ELSE "vbi", type |-> type]
  /\ UNCHANGED <<scanCall, rx, query, vbiRaced>>

\* The analogue branch opens the port, then restarts VBI, which may fail.
ToAnalog ==
  \/ /\ scanCb.at = "mode"
     /\ rx' = [mode |-> "analog", port |-> TRUE]
     /\ scanCb' = [scanCb EXCEPT !.at = "vbi"]
     /\ UNCHANGED <<scan, vbiRaced>>
  \/ /\ scanCb.at = "vbi"
     /\ IF NeedVbiAssist(scan.kind)
        THEN \E ok \in BOOLEAN : /\ scan' = [scan EXCEPT !.vbi = ok]
                                 /\ vbiRaced' = (ok /\ scanCall.at = "destroy")
        ELSE UNCHANGED <<scan, vbiRaced>>
     /\ scanCb' = [scanCb EXCEPT !.at = "out"]
     /\ UNCHANGED rx

\* The digital branch stops VBI first.
ToDigital ==
  \/ /\ scanCb.at = "vbi"
     /\ scan' = IF NeedVbiAssist(scan.kind) THEN StopVbi(scan) ELSE scan
     /\ vbiRaced' = (vbiRaced /\ ~NeedVbiAssist(scan.kind))
     /\ scanCb' = [scanCb EXCEPT !.at = "mode"]
     /\ UNCHANGED rx
  \/ /\ scanCb.at = "mode"
     /\ rx' = [mode |-> "digital", port |-> FALSE]
     /\ scanCb' = [scanCb EXCEPT !.at = "out"]
     /\ UNCHANGED <<scan, vbiRaced>>

FeTypeStep ==
  /\ IF scanCb.type = "analog" THEN ToAnalog ELSE ToDigital
  /\ UNCHANGED <<lib, scanCall, query>>

\* Outside a call back, h raises an event that turns mCurEv's numbers into s and h into l.
Event(h, phase, l, s) ==
  /\ h \in Running /\ scanCb.at = "out" /\ lib[h].phase = phase
  /\ LibStep(h, l) /\ scan' = s
  /\ UNCHANGED <<scanCall, scanCb, rx, query, vbiRaced>>

ScanBegins(h) ==
  Event(h, "begin", [lib[h] EXCEPT !.phase = "ts"], [scan EXCEPT !.percent = 0])

Capped(p, cap) == IF p >= cap THEN cap - 1 ELSE p

\* A transport stream of the type announced last.  The number of streams is kept from the first
\* scan that had any.
TsBegins(h) ==
  LET k == scan.kind
      quiet == lib[h].type = "analog" /\ ~Mixed(k) /\ k.atv # "list"
      p == IF quiet THEN 0 ELSE (lib[h].at * Factor(k)) \div k.total
  IN
  /\ lib[h].type # "none" /\ lib[h].at < k.total
  /\ Event(h, "ts", [lib[h] EXCEPT !.at = @ + 1],
           [scan EXCEPT !.percent = Capped(p, Factor(k)), !.total = IF @ = 0 THEN k.total ELSE @])

Bump(s, by) == IF s.total = 1 THEN [s EXCEPT !.percent = Capped(@ + by, 100)] ELSE s

\* The tables of an ATSC stream: MGT, VCT.
MgtDone(h) == lib[h].type = "digital" /\ lib[h].at > 0 /\ Event(h, "ts", lib[h], Bump(scan, 10))
VctDone(h) == lib[h].type = "digital" /\ lib[h].at > 0 /\ Event(h, "ts", lib[h], Bump(scan, 30))

\* What dividing by zero gives: nothing that can be used.
Crash == -1

\* The sweep reports the frequency it is at, so many MHz from its start.
AtvTuning(h, mhz) ==
  LET k == scan.kind IN
  /\ k.atv = "sweep" /\ lib[h].type = "analog" /\ mhz \in 0..k.width
  /\ Event(h, "ts", lib[h],
           [scan EXCEPT !.percent =
              IF k.width = 0 THEN Crash
              ELSE (mhz * Factor(k)) \div k.width + IF Factor(k) = 50 THEN 50 ELSE 0])

ScanEnds(h) == Event(h, "ts", [lib[h] EXCEPT !.phase = "end"], [scan EXCEPT !.percent = 100])

\* External: between scans CTv uses the receiver for something else, or closes it.
ReceiverUsed ==
  /\ scanCall.at = "out" /\ ~scan.start /\ rx.mode # "none"
  /\ rx' = [mode |-> "none", port |-> FALSE]
  /\ UNCHANGED <<scan, lib, scanCall, scanCb, query, vbiRaced>>

ScannerNext ==
  \/ \E k \in ScanKinds \cup {NoKind} : BeginStop(k)
  \/ DestroyScan \/ ClearStart \/ CreateScan \/ SetStart
  \/ TestStart \/ UseHandle
  \/ FeTypeStep
  \/ \E h \in Handles :
       \/ \E type \in {"analog", "digital"} : FeTypeHelper(h, type)
       \/ ScanBegins(h) \/ TsBegins(h) \/ MgtDone(h) \/ VctDone(h) \/ ScanEnds(h)
       \/ \E mhz \in 0..scan.kind.width : AtvTuning(h, mhz)
  \/ ReceiverUsed

ScannerSpec == ScannerInit /\ [][ScannerNext]_scannerVars

(***************************************************************************)
(* Properties.                                                             *)
(***************************************************************************)

ScannerTypeOK ==
  /\ scan.start \in BOOLEAN /\ scan.handle \in Handles \cup {0} /\ scan.kind \in ScanKinds \cup {NoKind}
  /\ scan.feType \in {"none", "analog", "digital"} /\ scan.vbi \in BOOLEAN
  /\ scan.total \in Nat /\ scan.percent \in (0..100) \cup {Crash}
  /\ \A h \in Handles : lib[h].state \in {"none", "runs", "gone"}
  /\ scanCall.at \in {"out", "destroy", "clear", "create", "flag"}
  /\ scanCb.at \in {"out", "mode", "vbi"} /\ query.handle \in Handles \cup {0}

\* The library never has two scans at once, nor one that nobody can stop: one that runs is the
\* one stopScan would destroy, and outside a call mbScanStart says whether there is one.
OneScan ==
  /\ Running \subseteq {scan.handle}
  /\ scanCall.at = "out" => (scan.start <=> Running # {})

\* Whenever the library scans a stream, the receiver is set up for its kind: for an analogue one
\* the tuner is in analogue mode and the vdin port open, for a digital one the port is closed and
\* VBI off, whatever the scan before was and whatever was used in between (FETypeHelperCB does
\* nothing when the type is the last one).  After a stop VBI is off too, but for the one case that
\* nothing excludes: the library's thread restarts it between stopVBI and AM_SCAN_Destroy.
ReceiverFollows ==
  /\ \A h \in Running :
       scanCb.at = "out" /\ lib[h].type # "none" =>
         /\ rx = [mode |-> lib[h].type, port |-> lib[h].type = "analog"]
         /\ lib[h].type = "digital" => ~scan.vbi \/ vbiRaced
  /\ scanCall.at = "out" /\ ~scan.start => ~scan.vbi \/ vbiRaced

\* A call without mLock uses a destroyed handle only if a stop came between its test and its use.
QueryMeetsScan == query.met = "gone" => query.overlapped

\* The scan's handle is good: the library has at most the scan it stands for, and whoever uses it
\* finds that scan.
ScanHandled == OneScan /\ QueryMeetsScan
=============================================================================
