------------------------------ MODULE TvConfig ------------------------------
(***************************************************************************)
(* The configuration file (tvutils/tvconfig): a list of lines in memory,   *)
(* read from the file at the start, searched from the front for each       *)
(* question, and written back whole, without a lock, after each change.    *)
(*                                                                         *)
(* A name is a sequence of words: "tvin.userpet" is <<"userpet">>, which   *)
(* <<"userpet", "timeout">> begins with.  A value is its word, where its   *)
(* blanks stand (0: it has none) and the characters in it that a reader of *)
(* the file takes for something else.  The names that are set are plain;   *)
(* a client's own key with a blank, '#', '=' or brackets is left out, and  *)
(* so is a line longer than the 511 characters of a line in memory: one    *)
(* that fits comes back whole, with at most an empty comment behind it.    *)
(* Bounds: MaxSets changes and MaxStarts restarts.                         *)
(***************************************************************************)
EXTENDS Integers, Sequences

CONSTANTS Writers, Sections, ConfigKeys, ConfigValues, Shipped, MaxSets, MaxStarts

Marks == {"#", "[", "]"}
NoWord == "none"   \* a section or a comment has no value
Value == [word : STRING \cup {NoWord}, blanks : Nat, marks : SUBSET Marks]
Plain(word) == [word |-> word, blanks |-> 0, marks |-> {}]
NoValue == Plain(NoWord)
Kinds == {"section", "key", "comment"}

VARIABLES
  lines,     \* the list: [type, kind, name, value, at: the length of the name when the line was made]
  file,      \* the file: [kind: "[name]", "name=value" or neither, name, value]
  buffer,    \* writer -> the text it is about to write
  savePc,    \* writer -> what it does next
  lastSet,   \* history: <<section, key>> -> the value set last, as it is to be read
  cut,       \* history: sections in which a value with both brackets was set since the start
  disturbed, \* history: two saves overlapped, or one was cut short
  sets, starts

configVars == <<lines, file, buffer, savePc, lastSet, cut, disturbed, sets, starts>>

(***************************************************************************)
(* Searching.                                                              *)
(***************************************************************************)

Line(kind, name, value) == [type |-> kind, kind |-> kind, name |-> name, value |-> value, at |-> Len(name)]
Text(line) == [kind |-> line.kind, name |-> line.name, value |-> line.value]

\* The first index of S, or 0.
FirstOf(S) == IF S = {} THEN 0 ELSE CHOOSE i \in S : \A j \in S : i <= j

\* getSection, getKeyLineAtSec: the names are compared up to the length of the one searched.  Of a
\* setting taken for a section the text behind its first letter is compared: it is nobody's section.
Begins(name, whole) == Len(name) <= Len(whole) /\ SubSeq(whole, 1, Len(name)) = name

SectionLine(section) ==
  FirstOf({i \in DOMAIN lines : lines[i].type = "section" /\ lines[i].kind = "section" /\ Begins(section, lines[i].name)})
KeyLine(sec, key) ==
  FirstOf({i \in DOMAIN lines :
             /\ i > sec /\ lines[i].type = "key" /\ Begins(key, lines[i].name)
             /\ \A j \in (sec + 1) .. i : lines[j].type # "section"})

\* GetString.  A line rewritten under a shorter name keeps the place where its value began.
GetString(section, key, default) ==
  LET sec == SectionLine(section)
      found == IF sec = 0 THEN 0 ELSE KeyLine(sec, key)
  IN IF found = 0 THEN default
     ELSE IF lines[found].at = Len(lines[found].name) THEN lines[found].value ELSE Plain("elsewhere")

(* The keys of which no other key, set or shipped, is a beginning, and     *)
(* that are none of another; no section is a beginning of another.         *)
ShippedKeys == UNION {{f[i].name : i \in {j \in DOMAIN f : f[j].kind = "key"}} : f \in Shipped}
NamedKeys == ConfigKeys \cup ShippedKeys
AloneKeys == {key \in ConfigKeys : \A other \in NamedKeys \ {key} : ~Begins(key, other) /\ ~Begins(other, key)}

ASSUME ConfigAssumption ==
  /\ ConfigKeys \subseteq Seq(STRING) /\ ConfigValues \subseteq Value
  /\ Shipped \subseteq Seq([kind : Kinds, name : Seq(STRING), value : Value])
ASSUME SectionsAssumption ==
  /\ Sections \subseteq Seq(STRING)
  /\ \A s, t \in Sections : Begins(s, t) => s = t

(***************************************************************************)
(* Changing and saving.                                                    *)
(***************************************************************************)

\* Mutant of InsertKeyLine: the line goes to the end of the file.
InsertKeyLineLast(ls, sec, line) == Append(ls, line)
\* InsertKeyLine: behind the section's own line.
InsertKeyLine(ls, sec, line) == SubSeq(ls, 1, sec) \o <<line>> \o SubSeq(ls, sec + 1, Len(ls))

\* SetString.  A new section becomes the file's first line, and what stood before any section is its.
SetString(section, key, value) ==
  LET sec == SectionLine(section)
      found == IF sec = 0 THEN 0 ELSE KeyLine(sec, key)
      line == Line("key", key, value)
  IN IF sec = 0 THEN <<Line("section", section, NoValue), line>> \o lines
     ELSE IF found = 0 THEN InsertKeyLine(lines, sec, line)
     ELSE [lines EXCEPT ![found].name = key, ![found].value = value]

Set(w, section, key, value) ==
  /\ savePc[w] = "idle" /\ sets < MaxSets
  /\ lines' = SetString(section, key, value)
  /\ lastSet' = [s \in DOMAIN lastSet \cup {<<section, key>>} |->
                   IF s = <<section, key>> THEN value ELSE lastSet[s]]
  /\ cut' = IF {"[", "]"} \subseteq value.marks THEN cut \cup {section} ELSE cut
  /\ savePc' = [savePc EXCEPT ![w] = "open"]
  /\ disturbed' = (disturbed \/ \E v \in Writers : savePc[v] # "idle")
  /\ sets' = sets + 1 /\ UNCHANGED <<file, buffer, starts>>

\* SaveToFile: the file is emptied, or cannot be opened, which nobody is told.
Truncate(w) ==
  /\ savePc[w] = "open"
  /\ \/ file' = <<>> /\ savePc' = [savePc EXCEPT ![w] = "format"] /\ UNCHANGED disturbed
     \/ savePc' = [savePc EXCEPT ![w] = "idle"] /\ disturbed' = TRUE /\ UNCHANGED file
  /\ UNCHANGED <<lines, buffer, lastSet, cut, sets, starts>>
Format(w) ==
  /\ savePc[w] = "format" /\ savePc' = [savePc EXCEPT ![w] = "flush"]
  /\ buffer' = [buffer EXCEPT ![w] = [i \in DOMAIN lines |-> Text(lines[i])]]
  /\ UNCHANGED <<lines, file, lastSet, cut, disturbed, sets, starts>>
\* What another writer has written behind this one's end stays.
Flush(w) ==
  /\ savePc[w] = "flush" /\ savePc' = [savePc EXCEPT ![w] = "idle"]
  /\ file' = buffer[w] \o SubSeq(file, Len(buffer[w]) + 1, Len(file))
  /\ buffer' = [buffer EXCEPT ![w] = <<>>]
  /\ UNCHANGED <<lines, lastSet, cut, disturbed, sets, starts>>

(***************************************************************************)
(* Starting.                                                               *)
(***************************************************************************)

\* getLineType: what a line is taken for, whatever it was written as.
LineType(text) ==
  IF text.kind = "comment" \/ "#" \in text.value.marks THEN "comment"
  ELSE IF {"[", "]"} \subseteq text.value.marks THEN "section" ELSE text.kind

\* allTrim: every blank of the line is taken out, the value's own with them.
Trim(value) == [value EXCEPT !.blanks = 0]
Loaded1(text) ==
  [type |-> LineType(text), kind |-> text.kind, name |-> text.name, value |-> Trim(text.value), at |-> Len(text.name)]
LoadFromFile(texts) == [i \in DOMAIN texts |-> Loaded1(texts[i])]

\* The server or the board goes down, maybe in the middle of a save, and comes up again.
Restart ==
  /\ starts < MaxStarts
  /\ \/ /\ \A w \in Writers : savePc[w] = "idle"
        /\ UNCHANGED <<file, disturbed>>
     \/ /\ \E w \in Writers : savePc[w] # "idle"
        /\ \/ UNCHANGED file
           \/ \E w \in Writers : \E n \in DOMAIN buffer[w] : file' = SubSeq(buffer[w], 1, n)
        /\ disturbed' = TRUE
  /\ lines' = LoadFromFile(file')
  /\ buffer' = [w \in Writers |-> <<>>] /\ savePc' = [w \in Writers |-> "idle"]
  /\ lastSet' = [s \in {r \in DOMAIN lastSet : r[1] \notin cut /\ "#" \notin lastSet[r].marks} |-> Trim(lastSet[s])]
  /\ cut' = {} /\ starts' = starts + 1 /\ UNCHANGED sets

ConfigInit ==
  /\ file \in Shipped /\ lines = LoadFromFile(file)
  /\ buffer = [w \in Writers |-> <<>>] /\ savePc = [w \in Writers |-> "idle"]
  /\ lastSet = [s \in {} |-> NoValue] /\ cut = {} /\ disturbed = FALSE /\ sets = 0 /\ starts = 0

\* setMiscCfg, the stored programmes' identifiers, the HDMI ports' EDID files, the tuner's range.
ConfigNext ==
  \/ \E w \in Writers : Truncate(w) \/ Format(w) \/ Flush(w)
  \/ \E w \in Writers, s \in Sections, k \in ConfigKeys, v \in ConfigValues : Set(w, s, k, v)
  \/ Restart

ConfigSpec == ConfigInit /\ [][ConfigNext]_configVars

(***************************************************************************)
(* Properties.                                                             *)
(***************************************************************************)

\* As long as no two saves overlap and none is cut short, a setting reads as it was set last,
\* whichever sections and keys were added before and after it, and after a restart without its
\* blanks.  What a restart may lose is a setting with a '#', that one alone, and a section's
\* settings where one of them was set to a value with both brackets; no other section's (CIniFile).
SetIsKept ==
  ~disturbed => \A s \in DOMAIN lastSet : s[2] \in AloneKeys => GetString(s[1], s[2], NoValue) = lastSet[s]
=============================================================================
