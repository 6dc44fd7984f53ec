----------------------------- MODULE PanelBoot -----------------------------
(***************************************************************************)
(* rebootSystemByUartPanelInfo: at its start the server compares the boot  *)
(* environment with what the panel says of itself, corrects it and reboots *)
(* when it differed.                                                       *)
(***************************************************************************)
EXTENDS Integers

VARIABLES
  env,         (* boot environment: outputmode and lcd_reverse             *)
  panelKind,   (* the panel: its output mode and whether it is reversed    *)
  cleanReboots (* reboots in a row decided on answers of the panel alone   *)

bootVars == <<env, panelKind, cleanReboots>>

\* The environment's modes by the words in them.
EnvWords ==
  [m1080p50hz |-> {"1080p"}, m1080p50hz44410bit |-> {"1080p", "44410bit"},
   m2160p50hz420 |-> {"2160p", "420"}, m2160p50hz42010bit |-> {"2160p", "420", "42010bit"},
   m2160p50hz42210bit |-> {"2160p", "42210bit"}, m2160p50hz444 |-> {"2160p", "444"},
   null |-> {}]
\* For each output mode of a panel the words looked for and the mode set when one is missing.
PanelModes ==
  <<[words |-> {"1080p"}, mode |-> "m1080p50hz"],
    [words |-> {"2160p", "420"}, mode |-> "m2160p50hz420"],
    [words |-> {"1080p", "44410bit"}, mode |-> "m1080p50hz44410bit"],
    [words |-> {"2160p", "42010bit"}, mode |-> "m2160p50hz42010bit"],
    [words |-> {"2160p", "42210bit"}, mode |-> "m2160p50hz42210bit"],
    [words |-> {"2160p", "444"}, mode |-> "m2160p50hz444"]>>

BootInit ==
  /\ env \in [mode : DOMAIN EnvWords, reverse : {"null", "0", "1"}]
  /\ panelKind \in [output : DOMAIN PanelModes, reverse : {"0", "1"}]
  /\ cleanReboots = 0

ModeDiffers(e, output) ==
  output \in DOMAIN PanelModes /\ ~(PanelModes[output].words \subseteq EnvWords[e.mode])
ReverseDiffers(e, reverse) == reverse \in {"0", "1"} /\ e.reverse # reverse

EnvAfter1080p(e, output, reverse) ==
  [mode |-> IF ModeDiffers(e, output) THEN "m1080p50hz" ELSE e.mode,
   reverse |-> IF ReverseDiffers(e, reverse) THEN reverse ELSE e.reverse]
EnvAfter(e, output, reverse) ==
  [mode |-> IF ModeDiffers(e, output) THEN PanelModes[output].mode ELSE e.mode,
   reverse |-> IF ReverseDiffers(e, reverse) THEN reverse ELSE e.reverse]

\* The panel answers what it is, or the boot goes on as without a panel.  A question for its mode
\* or direction that is not answered leaves what the stack held.
BootCheck ==
  \E output \in {panelKind.output} \cup DOMAIN PanelModes \cup {99},
     reverse \in {panelKind.reverse} \cup {"0", "1", "99"} :
    LET clean == output = panelKind.output /\ reverse = panelKind.reverse
        reboots == ModeDiffers(env, output) \/ ReverseDiffers(env, reverse)
    IN /\ env' = EnvAfter(env, output, reverse)
       /\ cleanReboots' = IF clean /\ reboots THEN cleanReboots + 1 ELSE 0
       /\ UNCHANGED panelKind

\* Another panel is connected, or somebody sets the environment.
EnvChanges ==
  /\ env' \in [mode : DOMAIN EnvWords, reverse : {"null", "0", "1"}]
  /\ panelKind' \in [output : DOMAIN PanelModes, reverse : {"0", "1"}]
  /\ cleanReboots' = 0

BootNext == BootCheck \/ EnvChanges

BootSpec == BootInit /\ [][BootNext]_bootVars

\* The set does not reboot for ever: two boots in a row whose questions the panel answered never
\* both end in a reboot, so what the first wrote satisfies every comparison of the second.
NoRebootLoop == cleanReboots <= 1
=============================================================================
