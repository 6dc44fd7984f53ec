------------------------------- MODULE MCFbc -------------------------------
(***************************************************************************)
(* The panel's modules in one run: part names the one that moves while the *)
(* others rest, so that the states add up instead of multiplying.          *)
(***************************************************************************)
EXTENDS FbcLink, FbcUpgrade, FbcPanel, PanelBoot

MCOffsets == {-1024, -1, 0, 1023}

VARIABLE part

MCInit ==
  /\ LinkInit /\ UpInit /\ PanelInit /\ BootInit
  /\ part \in {"link", "upgrade", "panel", "boot"}
  /\ part # "boot" => env = [mode |-> "null", reverse |-> "null"] /\ panelKind = [output |-> 1, reverse |-> "0"]

MCNext ==
  /\ UNCHANGED part
  /\ \/ part = "link" /\ LinkNext /\ UNCHANGED <<upVars, panelVars, bootVars>>
     \/ part = "upgrade" /\ UpNext /\ UNCHANGED <<linkVars, panelVars, bootVars>>
     \/ part = "panel" /\ PanelNext /\ UNCHANGED <<linkVars, upVars, bootVars>>
     \/ part = "boot" /\ BootNext /\ UNCHANGED <<linkVars, upVars, panelVars>>

MCSpec ==
  /\ MCInit /\ [][MCNext]_<<part, linkVars, upVars, panelVars, bootVars>>
  /\ LinkFairness /\ WF_upVars(UpThread)
=============================================================================
