------------------------------ MODULE ProgramDb ------------------------------
(***************************************************************************)
(* The program database (libtv/tvdb): made or opened when the server       *)
(* starts (CTvDatabase::InitTvDb), filled with the shipped channel lists   *)
(* (importXmlToDB) and rating dimensions (CTvDimension), asked by a scan   *)
(* for the frequencies to try (CTvScanner::createAtvParas, createDtvParas) *)
(* and cleaned by a client.  The server can go down between any two        *)
(* statements; what it finds at the next start is what was committed.      *)
(*                                                                         *)
(* Only region_table and dimension_table are kept: no row is ever put into *)
(* the others by this server.  A row is [list, freq, fe, mod].             *)
(* An open that fails ends the process (select asserts a handle): the next *)
(* start is another Start.  sqlite3 itself commits and rolls back rightly. *)
(* Bounds: MaxDowns falls, Dims builtin dimensions (11 in the code).       *)
(***************************************************************************)
EXTENDS Integers, Sequences, FiniteSets

CONSTANTS ShippedRows, Dims, MaxDowns, Countries, Ranges

LOCAL INSTANCE Functions

Rows == [list : STRING, freq : Nat, fe : STRING, mod : STRING]
ASSUME ProgramDbAssumption == ShippedRows \in Seq(Rows) /\ Dims \in Nat \ {0}

Bases == {"ANALOG", "DTMB", "QAM", "OFDM", "ATSC", "ISDBT"}
NoTxn == <<>>
WholeList == <<0, 0>>

VARIABLES
  db,        \* the file: [file, tables : BOOLEAN, rows : Seq(row), dims : 0 .. Dims]
  rollback,  \* <<what a fall goes back to>> while a transaction is open, or NoTxn
  created,   \* tv_db_created of the configuration
  dbPc,      \* what the starting or scanning thread does next
  back,      \* what follows the import
  nextRow,   \* the import's next row
  country,   \* CTvRegion::stCountry
  wanted,    \* the scan that asked last: [base, name of its list, range, air, imports], or NotAsked
  tried,     \* the channels given to it
  scars,     \* history: what has happened to the database that no later start mends
  downs

dbVars == <<db, rollback, created, dbPc, back, nextRow, country, wanted, tried, scars, downs>>

NotAsked == [base |-> "none", name |-> "none", range |-> WholeList, air |-> FALSE, imports |-> FALSE]
NoDatabase == [file |-> FALSE, tables |-> FALSE, rows |-> <<>>, dims |-> 0]

DbInit ==
  /\ db = NoDatabase /\ rollback = NoTxn /\ created \in BOOLEAN /\ dbPc = "down" /\ back = "flag" /\ nextRow = 1
  /\ country = "US" /\ wanted = NotAsked
  /\ tried = {} /\ scars = {} /\ downs = 0

(***************************************************************************)
(* Starting: InitTvDb, then the dimensions (CTv::CTv).                     *)
(***************************************************************************)

\* Mutant of OpensDb: a file is taken for a whole database, whatever the flag says.
OpensAnyDb == db.file
OpensDb == db.file /\ created

\* isFreqListExist: without tables the select fails and no row is found.
ListEmpty == ~db.tables \/ db.rows = <<>>

OpenFile ==
  /\ dbPc = "down" /\ OpensDb
  /\ IF ListEmpty THEN dbPc' = "empty" /\ back' = "dims" ELSE dbPc' = "dims" /\ UNCHANGED back
  /\ UNCHANGED <<db, rollback, created, nextRow, country, wanted, tried, scars, downs>>

\* A file without the flag is removed, or cannot be.
Unlink ==
  /\ dbPc = "down" /\ ~OpensDb /\ dbPc' = "tables"
  /\ \/ db' = NoDatabase /\ scars' = {}
     \/ db.file /\ UNCHANGED <<db, scars>>
  /\ UNCHANGED <<rollback, created, back, nextRow, country, wanted, tried, downs>>

\* AM_DB_GetHandle makes the file; AM_DB_CreateTables makes the tables, or fails, which nobody looks at.
MakeFile ==
  /\ dbPc = "tables" /\ ~db.file /\ db' = [db EXCEPT !.file = TRUE]
  /\ UNCHANGED <<rollback, created, dbPc, back, nextRow, country, wanted, tried, scars, downs>>
CreateTables ==
  /\ dbPc = "tables" /\ db.file /\ dbPc' = "clear"
  /\ \/ db' = [db EXCEPT !.tables = TRUE] /\ scars' = scars \ {"no tables"}
     \/ ~db.tables /\ scars' = scars \cup {"no tables"} /\ UNCHANGED db
  /\ UNCHANGED <<rollback, created, back, nextRow, country, wanted, tried, downs>>

\* ClearDbTable: a statement for each table, dimension_table before region_table.
ClearDimensions ==
  /\ dbPc = "clear" /\ dbPc' = "clear list" /\ db' = [db EXCEPT !.dims = 0]
  /\ UNCHANGED <<rollback, created, back, nextRow, country, wanted, tried, scars, downs>>
ClearList ==
  /\ dbPc = "clear list" /\ dbPc' = "empty" /\ back' = "flag" /\ db' = [db EXCEPT !.rows = <<>>]
  /\ UNCHANGED <<rollback, created, nextRow, country, wanted, tried, scars, downs>>

SetFlag ==
  /\ dbPc = "flag" /\ dbPc' = "dims" /\ created' = TRUE
  /\ UNCHANGED <<db, rollback, back, nextRow, country, wanted, tried, scars, downs>>

\* isDimensionTblExist, builtinAtscDimensions: statements of their own, no transaction.
Dimensions ==
  /\ dbPc = "dims" /\ dbPc' = IF db.dims > 0 \/ ~db.tables THEN "up" ELSE "filling"
  /\ UNCHANGED <<db, rollback, created, back, nextRow, country, wanted, tried, scars, downs>>
InsertDimension ==
  /\ dbPc = "filling" /\ db' = [db EXCEPT !.dims = @ + 1]
  /\ dbPc' = IF db.dims + 1 = Dims THEN "up" ELSE "filling"
  /\ scars' = IF db.dims + 1 = Dims THEN scars \ {"cleaned", "cut"} ELSE scars
  /\ UNCHANGED <<rollback, created, back, nextRow, country, wanted, tried, downs>>

(***************************************************************************)
(* importXmlToDB: the old rows go before the transaction begins.           *)
(***************************************************************************)

EmptyList ==
  /\ dbPc = "empty" /\ dbPc' = "begin" /\ db' = [db EXCEPT !.rows = <<>>]
  /\ UNCHANGED <<rollback, created, back, nextRow, country, wanted, tried, scars, downs>>

\* Mutant of BeginImport: the rows are inserted one by one, each for good.
BeginImportNot ==
  /\ dbPc = "begin" /\ dbPc' = "insert" /\ nextRow' = 1
  /\ UNCHANGED <<db, rollback, created, back, country, wanted, tried, scars, downs>>
BeginImport ==
  /\ dbPc = "begin" /\ dbPc' = "insert" /\ rollback' = <<db>> /\ nextRow' = 1
  /\ UNCHANGED <<db, created, back, country, wanted, tried, scars, downs>>
InsertRow ==
  /\ dbPc = "insert" /\ nextRow <= Len(ShippedRows) /\ nextRow' = nextRow + 1
  /\ db' = IF db.tables THEN [db EXCEPT !.rows = Append(@, ShippedRows[nextRow])] ELSE db
  /\ UNCHANGED <<rollback, created, dbPc, back, country, wanted, tried, scars, downs>>
CommitRows ==
  /\ dbPc = "insert" /\ nextRow > Len(ShippedRows) /\ rollback' = NoTxn /\ dbPc' = back
  /\ UNCHANGED <<db, created, back, nextRow, country, wanted, tried, scars, downs>>

(***************************************************************************)
(* A scan asks for its channels.                                           *)
(***************************************************************************)

\* getDtvScanListName: by the kind of tuner, the country or the list of the mode.
AtscLists ==
  <<"US,ATSC Cable Standard", "US,ATSC Cable IRC", "US,ATSC Cable HRC", "US,ATSC Cable Auto", "US,ATSC Air",
    "US,NTSC Cable Standard", "US,NTSC Cable IRC", "US,NTSC Cable HRC", "US,NTSC Cable Auto", "US,NTSC Air">>
ListName(base, atsc) ==
  CASE base = "ANALOG" -> IF country = "ID" THEN "ID,Default ATV"
                           ELSE IF country = "CN" THEN "CN,Default ATV" ELSE "IN,Default ATV"
    [] base = "QAM" -> "CN,DVB-C allband"
    [] base = "OFDM" -> IF country = "ID" THEN "ID,Default DVB-T" ELSE "GB,Default DVB-T"
    [] base = "ATSC" -> IF atsc \in DOMAIN AtscLists THEN AtscLists[atsc] ELSE "US,ATSC Air"
    [] base = "ISDBT" -> "BR,Default ISDBT"
    [] OTHER -> "CN,Default DTMB EXTRA ALL"

\* getChannelListByName, getChannelListByNameAndFreqRange.  The whole list is asked for with <<0, 0>>.
RowsNow == Range(db.rows)
RowsNamed(rows, name) == {r \in rows : r.list = name}
Answer(rows, s) ==
  IF s.range = WholeList THEN RowsNamed(rows, s.name)
  ELSE {r \in RowsNamed(rows, s.name) : s.range[1] <= r.freq /\ r.freq <= s.range[2]}

\* The constructor of CTvChannel and the parameters of the scan: a tuner's kind has a modulation or
\* not; with air_on_cable an ATSC scan tries each cable channel's frequency as one of the air, too.
ChannelOf(row, base) ==
  [freq |-> row.freq, mod |-> IF {base, row.fe} \subseteq {"QAM", "ATSC"} THEN row.mod ELSE "none"]
OnAirToo(rows) == {[freq |-> r.freq, mod |-> "VSB"] : r \in {q \in rows : q.fe = "ATSC" /\ q.mod = "QAM"}}
Channels(rows, s) ==
  {ChannelOf(r, s.base) : r \in rows} \cup (IF s.base = "ATSC" /\ s.air THEN OnAirToo(rows) ELSE {})

\* Without a channel an analogue scan imports the lists again, and asks for all of its list;
\* a digital one gives up, unless its general mode is 3 (createDtvParas asks for the wrong mode).
AskChannels(base, atsc, range, air, general) ==
  LET s == [base |-> base, name |-> ListName(base, atsc), range |-> range, air |-> air,
            imports |-> base = "ANALOG" \/ general]
      rows == Answer(RowsNow, s) IN
  /\ dbPc = "up" /\ wanted' = s /\ tried' = Channels(rows, s)
  /\ IF rows = {} /\ s.imports THEN dbPc' = "empty" /\ back' = "again" ELSE UNCHANGED <<dbPc, back>>
  /\ UNCHANGED <<db, rollback, created, nextRow, country, scars, downs>>
AskAgain ==
  /\ dbPc = "again" /\ dbPc' = "up" /\ tried' = Channels(RowsNamed(RowsNow, wanted.name), wanted)
  /\ UNCHANGED <<db, rollback, created, back, nextRow, country, wanted, scars, downs>>

(***************************************************************************)
(* Clients, and the fall of the server.                                    *)
(***************************************************************************)

\* The service is up: the TV object is made, and a scan may be at its import.
Serving == dbPc = "up" \/ (dbPc \in {"empty", "begin", "insert", "again"} /\ back = "again")

setTvCountry(c) ==
  /\ Serving /\ c # country /\ country' = c
  /\ UNCHANGED <<db, rollback, created, dbPc, back, nextRow, wanted, tried, scars, downs>>

\* clearDbAllProgramInfoTable (FactoryCleanAllTableForProgram): takes no lock, so it may fall into a
\* scan's transaction; of the tables filled here it empties the dimensions, the lists stay.
CleanAll ==
  /\ Serving /\ db.dims > 0 /\ db' = [db EXCEPT !.dims = 0] /\ scars' = scars \cup {"cleaned"}
  /\ UNCHANGED <<rollback, created, dbPc, back, nextRow, country, wanted, tried, downs>>

\* The configuration is saved by emptying its file first: a fall in a save loses the flag.
ServerDown ==
  /\ dbPc # "down" /\ downs < MaxDowns /\ downs' = downs + 1 /\ dbPc' = "down"
  /\ db' = (IF rollback = NoTxn THEN db ELSE rollback[1]) /\ rollback' = NoTxn
  /\ created' \in {created, FALSE} /\ country' = "US" /\ wanted' = NotAsked /\ tried' = {}
  /\ scars' = scars \cup (IF dbPc = "filling" /\ db.dims > 0 THEN {"cut"} ELSE {})
                    \cup (IF dbPc = "tables" /\ db.file /\ ~db.tables /\ created THEN {"no tables"} ELSE {})
  /\ UNCHANGED <<back, nextRow>>

DbNext ==
  \/ OpenFile \/ Unlink \/ MakeFile \/ CreateTables \/ ClearDimensions \/ ClearList \/ SetFlag
  \/ Dimensions \/ InsertDimension \/ EmptyList \/ BeginImport \/ InsertRow \/ CommitRows \/ AskAgain
  \/ \E base \in Bases, atsc \in {1, 5}, range \in Ranges, air, general \in BOOLEAN :
       (base # "ATSC" => atsc = 5 /\ ~air) /\ AskChannels(base, atsc, range, air, general)
  \/ \E c \in Countries : setTvCountry(c)
  \/ CleanAll \/ ServerDown

DbSpec == DbInit /\ [][DbNext]_dbVars

(***************************************************************************)
(* Properties.                                                             *)
(***************************************************************************)

Shipped == Range(ShippedRows)

\* Whatever statements the falls came between, a server that is up and not importing has every shipped
\* row once and every builtin dimension.  Not so (scars): tables never made, which no start finds out;
\* dimensions cut short, which the next start takes for all of them, or cleaned by a client
\* (InitTvDb, importXmlToDB, isDimensionTblExist).
ReadyIsWhole ==
  dbPc = "up" =>
    /\ "no tables" \notin scars => db.tables /\ db.rows = ShippedRows
    /\ scars = {} => db.dims = Dims

\* A scan is given the frequencies its own list has as shipped, though a client cleans the database or
\* the server fell in an import: those in the range asked for; where there is none, an analogue scan and
\* one of general mode 3 all of the list, any other nothing (createAtvParas, createDtvParas).
ScanIsListed ==
  dbPc = "up" /\ wanted # NotAsked /\ "no tables" \notin scars =>
    LET rows == Answer(Shipped, wanted) IN
    {c.freq : c \in tried} =
      {r.freq : r \in IF rows = {} /\ wanted.imports THEN RowsNamed(Shipped, wanted.name) ELSE rows}

\* The database of a server that is up is whole, and scans are given what it was shipped with.
DatabaseServes == ReadyIsWhole /\ ScanIsListed
=============================================================================
