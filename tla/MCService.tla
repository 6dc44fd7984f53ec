----------------------------- MODULE MCService -----------------------------
(***************************************************************************)
(* What the service answers and keeps, in one run: the poll thread, the    *)
(* clients and their events, and the stores.  part names the module that   *)
(* moves while the others rest, so that the states add up instead of       *)
(* multiplying.                                                            *)
(***************************************************************************)
EXTENDS DevicesPoll, TvClients, KeyData, MacWorker, TvConfig

(* Cables that move: the first HDMI port and the second AV input; the     *)
(* questions about AV2 still overwrite what is remembered of AV1.          *)
MCMoving == {<<"hdmi", 1>>, <<"avin", 2>>}

(* Key, audio curve and EDIDs: in files of their own offsets, the key's    *)
(* region last and the file shorter than it; no key file; a demo board     *)
(* whose audio curve has no place.                                         *)
Place(path, offset) == [path |-> path, offset |-> offset]
Board(key, audio, edid, length, demo) ==
  [at |-> [r \in Regions |-> CASE r = "key" -> key [] r = "audio" -> audio
                               [] r = "edid3" -> Place("", 0) [] OTHER -> edid],
   length |-> [data |-> length, edid |-> 2], demo |-> demo, customerEdid |-> ~demo]
MCLayouts ==
  {Board(Place("data", 2), Place("data", 0), Place("edid", 0), 5, FALSE),
   Board(Place("", 0), Place("data", 0), Place("edid", 1), 1, FALSE),
   Board(Place("data", 0), Place("data", -1), Place("edid", 1), 0, TRUE)}
MCKeys == {<<"k1", "k2", "k3">>, <<"l1", "l2", "l3">>}

(* A file with a comment, a key before any section, a line with blanks and *)
(* a key of whose name another is a beginning; one whose last section is   *)
(* empty and in which a setting holds brackets.                            *)
Written(kind, name, value) == [kind |-> kind, name |-> name, value |-> value]
Bracketed == [Plain("b") EXCEPT !.marks = {"[", "]"}]
MCConfigValues == {[Plain("a") EXCEPT !.blanks = 1], [Plain("a") EXCEPT !.marks = {"#"}], Bracketed}
MCShipped ==
  {<<Written("comment", <<>>, NoValue), Written("key", <<"pet", "timeout">>, [Plain("c") EXCEPT !.blanks = 2]),
     Written("section", <<"SRC">>, NoValue), Written("key", <<"id">>, Plain("c"))>>,
   <<Written("section", <<"TV">>, NoValue), Written("key", <<"pet", "timeout">>, Bracketed),
     Written("section", <<"SRC">>, NoValue)>>}
MCConfigKeys == {<<"pet">>, <<"pet", "timeout">>, <<"id">>}
MCSections == {<<"TV">>, <<"SRC">>}

VARIABLE part

(* The variables of the stores.                                            *)
keptVars == <<keyVars, macVars, configVars>>

MCInit ==
  /\ part \in {"poll", "clients", "key", "mac", "config"}
  /\ PollInit /\ (part # "poll" => wire = Out /\ ready = {})
  /\ Init
  /\ KeyInit /\ (part # "key" => layout.demo /\ store["hdcp14_rx"] = <<>>)
  /\ MacInit /\ (part # "mac" => ~enabled)
  /\ ConfigInit /\ (part # "config" => Len(file) = 3)

MCNext ==
  /\ UNCHANGED part
  /\ \/ part = "poll" /\ PollNext /\ UNCHANGED <<vars, keptVars>>
     \/ part = "clients" /\ Next /\ UNCHANGED <<pollVars, keptVars>>
     \/ /\ UNCHANGED <<pollVars, vars>>
        /\ \/ part = "key" /\ KeyNext /\ UNCHANGED <<macVars, configVars>>
           \/ part = "mac" /\ MacNext /\ UNCHANGED <<keyVars, configVars>>
           \/ part = "config" /\ ConfigNext /\ UNCHANGED <<keyVars, macVars>>

MCSpec ==
  /\ MCInit /\ [][MCNext]_<<part, pollVars, vars, keptVars>>
  /\ WF_pollVars(PollStep) /\ WF_vars(Server)
=============================================================================
