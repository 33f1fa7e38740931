------------------------------- MODULE BankEdit -------------------------------
(***************************************************************************)
(* Taking a firmware package apart and putting it together again:          *)
(* zup_bank.py reads the package into a bank, zup_extract.py writes the    *)
(* bank, its payloads and a manifest into a directory, a person edits      *)
(* records and payload files there, zup_extract.py --compose makes a bank  *)
(* of the directory and zup_rebuild.py a package of the bank.              *)
(*                                                                         *)
(* A bank is a few cells, each a header, a launch record, part of a        *)
(* payload, the section header or a word; a checksum or digest is what it  *)
(* is taken of, and deflating is abstracted to the size it yields.         *)
(***************************************************************************)
EXTENDS Naturals, FiniteSets, Sequences, SequencesExt

CONSTANTS
    BankCells,        \* how many cells a bank has
    HeaderCells,      \* where a launch header may be
    SectionCell,      \* where the section header may be
    PayloadData,      \* contents of payloads
    StoredSize,       \* per contents: the cells its stream takes
    OutputSize,       \* per contents: the cells it expands to
    Templates,        \* the packages the work may start from
    PackageLimit,     \* the most units a package may have before its map
    RecordEdits,      \* what a record may be changed to
    KnownTypes, TerminalType, Type8,     \* record types
    MaxBankEdits      \* bound on the edits

VARIABLES
    zxStep,           \* where the work is
    zxTemplate,       \* the package it starts from
    zxDir,            \* the directory: payload files, bank, manifest, and which of these is whole
    zxOut,            \* the bank being composed
    zxTodo,           \* the payload entries still to be applied
    zxEdits           \* how many edits were made

zxVars == <<zxStep, zxTemplate, zxDir, zxOut, zxTodo, zxEdits>>

Cell == 0 .. BankCells - 1
Blank == <<"blank", 0, 0>>
Torn == "torn"
Span(from, size) == from .. from + size - 1

-----------------------------------------------------------------------------
(* Packages.  The streams are units laid end to end, then an optional gap, *)
(* then the map; a map entry is a region with its size in the bank and, if *)
(* it is packed, the size it is stored in.                                 *)
SizeIn(region) == IF region.packed THEN region.stored ELSE region.size
(* Of pieces laid end to end: the places before the i-th, counted.         *)
Before(sizes, i) == Cardinality(UNION {{j} \X (1 .. sizes[j]) : j \in 1 .. i - 1})
StartOf(regions, i) == Before([j \in 1 .. Len(regions) |-> SizeIn(regions[j])], i)
UnitsOf(p, i) == SubSeq(p.units, StartOf(p.regions, i) + 1,
                        StartOf(p.regions, i) + SizeIn(p.regions[i]))

(* A packed region: one unit that knows its contents, and the rest of it.  *)
Packed(cells, size) == [k \in 1 .. size |-> IF k = 1 THEN <<"packed", cells, size>> ELSE <<"rest">>]
DeflatedSize(cells) == 1 + Cardinality(Range(cells))

Inflates(p, i) == LET u == UnitsOf(p, i) IN
    /\ Len(u) > 0 /\ u[1][1] = "packed"
    /\ Len(u[1][2]) = p.regions[i].size /\ u[1][3] = Len(u)
    /\ \A k \in 2 .. Len(u) : u[k] = <<"rest">>

ReadsAsBank(p) ==
    /\ p.mapAt <= PackageLimit
    /\ p.mapAt = StartOf(p.regions, Len(p.regions) + 1) + (IF p.gap THEN 1 ELSE 0)
    /\ p.mapAt = Len(p.units) + (IF p.gap THEN 1 ELSE 0)
    /\ \A i \in 1 .. Len(p.regions) :
         /\ p.regions[i].size > 0 /\ p.regions[i].to + p.regions[i].size <= BankCells
         /\ p.regions[i].packed => Inflates(p, i)
         /\ \A j \in 1 .. i - 1 : Span(p.regions[i].to, p.regions[i].size)
                                    \cap Span(p.regions[j].to, p.regions[j].size) = {}

Contents(p, i) == IF p.regions[i].packed THEN UnitsOf(p, i)[1][2] ELSE UnitsOf(p, i)
Mapped(p) == UNION {Span(p.regions[i].to, p.regions[i].size) : i \in 1 .. Len(p.regions)}

BuildBank(p) == [c \in Cell |->
    IF c \notin Mapped(p) THEN Blank
    ELSE LET i == CHOOSE k \in 1 .. Len(p.regions) :
                     c \in Span(p.regions[k].to, p.regions[k].size)
         IN Contents(p, i)[c - p.regions[i].to + 1]]

(* rebuild_package: unchanged packed regions keep their stored units.      *)
NewUnits(p, i, bank, preserve) ==
    LET r == p.regions[i]
        cells == [k \in 1 .. r.size |-> bank[r.to + k - 1]]
    IN IF ~r.packed THEN cells
       ELSE IF preserve /\ cells = Contents(p, i) THEN UnitsOf(p, i)
       ELSE Packed(cells, DeflatedSize(cells))

(* A map that keeps the sizes the regions were stored in.                  *)
NewMap_OldSizes(p, streams) == p.regions

NewMap(p, streams) == [i \in 1 .. Len(p.regions) |->
    [p.regions[i] EXCEPT !.stored = IF p.regions[i].packed THEN Len(streams[i]) ELSE 0]]

Joined(streams) ==
    LET sizes == [i \in 1 .. Len(streams) |-> Len(streams[i])]
        PieceAt(u) == CHOOSE i \in 1 .. Len(streams) :
                         Before(sizes, i) < u /\ u <= Before(sizes, i) + sizes[i]
    IN [u \in 1 .. Before(sizes, Len(streams) + 1) |->
          streams[PieceAt(u)][u - Before(sizes, PieceAt(u))]]

NewStreams(p, bank, preserve) ==
    [i \in 1 .. Len(p.regions) |-> NewUnits(p, i, bank, preserve)]
Rebuilt(p, bank, preserve) ==
    LET streams == NewStreams(p, bank, preserve)
        units == Joined(streams)
    IN [regions |-> NewMap(p, streams), units |-> units, gap |-> p.gap,
        mapAt |-> Len(units) + (IF p.gap THEN 1 ELSE 0)]

(* What it then checks of its own result.                                  *)
RebuildAccepts(p, bank, preserve) ==
    LET q == Rebuilt(p, bank, preserve) IN
      /\ ReadsAsBank(q) /\ BuildBank(q) = bank
      /\ preserve /\ bank = BuildBank(p) => q = p

-----------------------------------------------------------------------------
(* The bank's launch tables and payloads.                                  *)
Headers(bank) == {h \in HeaderCells : /\ bank[h][1] = "header" /\ bank[h][3] > 0
                                      /\ bank[h][2] + bank[h][3] <= BankCells}
TableAt(bank, h) == bank[h][2]
Table(bank, h) == Span(bank[h][2], bank[h][3])
RecordsAt(bank, h) == [k \in 1 .. bank[h][3] |-> bank[bank[h][2] + k - 1]]

(* A payload expands to its output: to cells of the bank from its          *)
(* destination on if its mode is 1, and never to more than the bank has.   *)
(* A destination of 0 also stands for mode 0 and for a nested payload.     *)
Stream(kind, data, dest) == [k \in 1 .. StoredSize[data] |->
    IF k = 1 THEN <<"stream", kind, data, dest>> ELSE <<"body", kind, data>>]
Destinations(kind) == IF kind = "type8" THEN Cell ELSE {0}
Holds(bank, kind, at, data, dest) ==
    /\ at + StoredSize[data] <= BankCells
    /\ \A k \in 1 .. StoredSize[data] : bank[at + k - 1] = Stream(kind, data, dest)[k]
Expands(data, dest) == dest + OutputSize[data] <= BankCells
ParsesAt(bank, kind, at) ==
    \E data \in PayloadData, dest \in Destinations(kind) :
       Holds(bank, kind, at, data, dest) /\ Expands(data, dest)
DataAt(bank, at) == bank[at][3]
DestinationAt(bank, at) == bank[at][4]

(* Type 8 records point at their payloads, the others are searched for.    *)
Type8At(bank) == UNION {{r[3] : r \in {s \in Range(RecordsAt(bank, h)) : s[2] = Type8}}
                        : h \in Headers(bank)}
NestedAt(bank) == {c \in Cell : ParsesAt(bank, "nested", c)}
Inventory(bank) == {<<"type8", c>> : c \in Type8At(bank)}
                     \cup {<<"nested", c>> : c \in NestedAt(bank)}

(* The payloads of a kind are expanded in order, within one budget.        *)
UpTo(bank, e) == {f \in Inventory(bank) : f[1] = e[1] /\ f[2] <= e[2]}
WithinBudget(bank, e) ==
    MapThenSumSet(LAMBDA f : OutputSize[DataAt(bank, f[2])], UpTo(bank, e)) <= BankCells
Extractable(bank) ==
    /\ \A c \in Type8At(bank) : c \in Cell /\ ParsesAt(bank, "type8", c)
    /\ \A e \in Inventory(bank) : WithinBudget(bank, e)

HasSection(bank) == bank[SectionCell][1] = "section"
Covered(bank) == bank[SectionCell][3]
Checksum(bank) == {<<c, bank[c]>> : c \in Covered(bank)}

(* What a package is made of: a plain region has no stored size in the     *)
(* map, and a packed unit inflates to a row of cells.                      *)
WellFormed(p) ==
    /\ p = [regions |-> p.regions, units |-> p.units, gap |-> p.gap, mapAt |-> p.mapAt]
    /\ p.gap \in BOOLEAN /\ p.mapAt \in Nat
    /\ p.regions \in Seq([to : Nat, size : Nat, packed : BOOLEAN, stored : Nat])
    /\ \A i \in 1 .. Len(p.regions) : ~p.regions[i].packed => p.regions[i].stored = 0
    /\ p.units \in Seq(Range(p.units))
    /\ \A k \in 1 .. Len(p.units) : p.units[k][1] = "packed" =>
          p.units[k][2] \in Seq(Range(p.units[k][2]))

(* A stream and what it expands to have cells, and the fields of a launch  *)
(* header are numbers.                                                     *)
ASSUME BankAssumption ==
    /\ BankCells \in Nat /\ HeaderCells \subseteq Cell /\ SectionCell \in Cell
    /\ StoredSize \in [PayloadData -> Nat \ {0}] /\ Torn \notin PayloadData
    /\ OutputSize \in [PayloadData -> Nat \ {0}]
    /\ MaxBankEdits \in Nat /\ PackageLimit \in Nat
    /\ \A p \in Templates : WellFormed(p)
    /\ \A p \in Templates : ReadsAsBank(p) =>
         \A h \in HeaderCells : BuildBank(p)[h][1] = "header" =>
              BuildBank(p)[h][2] \in Nat /\ BuildBank(p)[h][3] \in Nat

-----------------------------------------------------------------------------
NoDir == [files |-> <<>>, bank |-> <<>>, manifest |-> <<>>, whole |-> {}]

BankEditInit == /\ zxStep = "start" /\ zxTemplate = <<>> /\ zxDir = NoDir
                /\ zxOut = <<>> /\ zxTodo = {} /\ zxEdits = 0

SourceBank == BuildBank(zxTemplate)
Manifest(bank) == [records |-> [h \in Headers(bank) |-> RecordsAt(bank, h)],
                   payloads |-> [e \in Inventory(bank) |-> DataAt(bank, e[2])],
                   digest |-> bank]

(* mkdir refuses an existing directory.  A record that points out of the   *)
(* bank fails the extraction after the directory is made.                  *)
StartExtraction ==
    /\ zxStep = "start"
    /\ zxTemplate' \in Templates
    /\ zxStep' = IF ReadsAsBank(zxTemplate') THEN "extract" ELSE "refused"
    /\ UNCHANGED <<zxDir, zxOut, zxTodo, zxEdits>>

(* The type 8 payloads are written first, each kind in the order of the    *)
(* bank; one that does not parse, or is past the budget, ends it.          *)
Earlier(f, e) == IF f[1] = e[1] THEN f[2] < e[2] ELSE f[1] = "type8"
NextPayload(bank, written, e) ==
    /\ Type8At(bank) \subseteq Cell
    /\ e \in Inventory(bank) \ written
    /\ \A f \in Inventory(bank) : Earlier(f, e) => f \in written
    /\ ParsesAt(bank, e[1], e[2]) /\ WithinBudget(bank, e)
WrittenWith(files, e, data) == [f \in DOMAIN files \cup {e} |-> IF f = e THEN data ELSE files[f]]

ExtractFile ==
    /\ zxStep = "extract"
    /\ \E e \in Inventory(SourceBank) :
         /\ NextPayload(SourceBank, DOMAIN zxDir.files, e)
         /\ zxDir' = [zxDir EXCEPT !.files = WrittenWith(@, e, DataAt(SourceBank, e[2]))]
    /\ UNCHANGED <<zxStep, zxTemplate, zxOut, zxTodo, zxEdits>>

ExtractBank ==
    /\ zxStep = "extract" /\ Extractable(SourceBank)
    /\ DOMAIN zxDir.files = Inventory(SourceBank) /\ "bank" \notin zxDir.whole
    /\ zxDir' = [zxDir EXCEPT !.bank = SourceBank, !.whole = {"bank"}]
    /\ UNCHANGED <<zxStep, zxTemplate, zxOut, zxTodo, zxEdits>>

(* The manifest is written before the files it lists.                      *)
ExtractManifest_First ==
    /\ zxStep = "extract" /\ Extractable(SourceBank)
    /\ zxDir' = [zxDir EXCEPT !.manifest = Manifest(SourceBank),
                              !.whole = @ \cup {"manifest"}]
    /\ zxStep' = "extracted"
    /\ UNCHANGED <<zxTemplate, zxOut, zxTodo, zxEdits>>

ExtractManifest ==
    /\ zxStep = "extract" /\ "bank" \in zxDir.whole
    /\ zxDir' = [zxDir EXCEPT !.manifest = Manifest(SourceBank),
                              !.whole = @ \cup {"manifest"}]
    /\ zxStep' = "extracted"
    /\ UNCHANGED <<zxTemplate, zxOut, zxTodo, zxEdits>>

(* It fails, or is killed while it writes a file: what is there stays.     *)
ExtractionStops ==
    /\ zxStep = "extract"
    /\ \/ UNCHANGED zxDir
       \/ \E e \in Inventory(SourceBank) :
            /\ NextPayload(SourceBank, DOMAIN zxDir.files, e)
            /\ zxDir' = [zxDir EXCEPT !.files = WrittenWith(@, e, Torn)]
    /\ zxStep' = "extracted"
    /\ UNCHANGED <<zxTemplate, zxOut, zxTodo, zxEdits>>

-----------------------------------------------------------------------------
(* What a person does in the directory: edits records or payload files,    *)
(* which is what it is for, or spoils the bank or the inventory.           *)
EditRecord ==
    /\ zxStep = "extracted" /\ "manifest" \in zxDir.whole /\ zxEdits < MaxBankEdits
    /\ \E h \in DOMAIN zxDir.manifest.records, r \in RecordEdits :
       \E k \in 1 .. Len(zxDir.manifest.records[h]) :
          zxDir' = [zxDir EXCEPT !.manifest.records[h][k] = r]
    /\ zxEdits' = zxEdits + 1
    /\ UNCHANGED <<zxStep, zxTemplate, zxOut, zxTodo>>

EditPayload ==
    /\ zxStep = "extracted" /\ "manifest" \in zxDir.whole /\ zxEdits < MaxBankEdits
    /\ \E e \in DOMAIN zxDir.files, data \in PayloadData :
          zxDir' = [zxDir EXCEPT !.files[e] = data]
    /\ zxEdits' = zxEdits + 1
    /\ UNCHANGED <<zxStep, zxTemplate, zxOut, zxTodo>>

SpoilInventory ==
    /\ zxStep = "extracted" /\ "manifest" \in zxDir.whole /\ zxEdits < MaxBankEdits
    /\ \E e \in DOMAIN zxDir.manifest.payloads :
         \/ zxDir' = [zxDir EXCEPT !.manifest.payloads =
                        [f \in DOMAIN @ \ {e} |-> @[f]]]
         \/ zxDir' = [zxDir EXCEPT !.bank[e[2]] = Blank]
    /\ zxEdits' = zxEdits + 1
    /\ UNCHANGED <<zxStep, zxTemplate, zxOut, zxTodo>>

-----------------------------------------------------------------------------
(* compose_bank.                                                           *)
ValidRecords(records) ==
    /\ \A k \in 1 .. Len(records) : records[k][2] \in KnownTypes
    /\ \A k \in 1 .. Len(records) : records[k][2] = TerminalType <=> k = Len(records)

ValidManifest(m, bank) ==
    /\ m.digest = bank
    /\ DOMAIN m.records = Headers(bank)
    /\ \A h \in Headers(bank) : ValidRecords(m.records[h])
    /\ \A g, h \in Headers(bank) : TableAt(bank, g) = TableAt(bank, h)
                                     => m.records[g] = m.records[h]
    /\ Extractable(bank)
    /\ m.payloads = Manifest(bank).payloads

Protected(bank) == Headers(bank) \cup {SectionCell}

(* _load_manifest and _read_regular_file.                                  *)
Loads == zxDir.whole = {"bank", "manifest"}
TablesClear(bank) == \A h \in Headers(bank) : Table(bank, h) \cap Protected(bank) = {}

StartCompose ==
    /\ zxStep = "extracted"
    /\ zxStep' = IF Loads /\ ValidManifest(zxDir.manifest, zxDir.bank) /\ TablesClear(zxDir.bank)
                 THEN "tables" ELSE "refused"
    /\ UNCHANGED <<zxTemplate, zxDir, zxOut, zxTodo, zxEdits>>

(* The tables are written in the order of their offsets: of two that share *)
(* cells the later one stands.                                             *)
TablesOver(bank, c) == {h \in Headers(bank) : c \in Table(bank, h)}
LastOver(bank, c) == CHOOSE h \in TablesOver(bank, c) :
    \A g \in TablesOver(bank, c) : TableAt(bank, g) <= TableAt(bank, h)
WithTables(bank, records) == [c \in Cell |->
    IF TablesOver(bank, c) = {} THEN bank[c]
    ELSE LET h == LastOver(bank, c) IN records[h][c - TableAt(bank, h) + 1]]

WriteTables ==
    /\ zxStep = "tables"
    /\ zxOut' = WithTables(zxDir.bank, zxDir.manifest.records)
    /\ zxTodo' = DOMAIN zxDir.manifest.payloads
    /\ zxStep' = "payloads"
    /\ UNCHANGED <<zxTemplate, zxDir, zxEdits>>

(* No check of the size: a longer payload runs over what is behind it.     *)
Fits_Anything(new, span) == TRUE

Fits(new, span) == StoredSize[new] <= span

(* The span is what the payload takes now; what the new one leaves is      *)
(* padded.  The entries come in the manifest's order, which a person may   *)
(* change, and no payload is checked against another's span, nor whether   *)
(* the new one expands within its destination: it may have as much output  *)
(* as a bank has cells, and the header with the destination is kept.       *)
Locked(bank) == Protected(bank) \cup UNION {Table(bank, h) : h \in Headers(bank)}
SpanAt(out, at) == Span(at, StoredSize[DataAt(out, at)])
Replaceable(bank, out, e, new) ==
    /\ OutputSize[new] <= BankCells
    /\ ParsesAt(out, e[1], e[2]) /\ Fits(new, StoredSize[DataAt(out, e[2])])
    /\ SpanAt(out, e[2]) \cap Locked(bank) = {}
Replaced(out, e, new) == [c \in Cell |->
    CASE c \in Span(e[2], StoredSize[new]) ->
           Stream(e[1], new, DestinationAt(out, e[2]))[c - e[2] + 1]
      [] c \in SpanAt(out, e[2]) \ Span(e[2], StoredSize[new]) -> Blank
      [] OTHER -> out[c]]

WritePayload ==
    /\ zxStep = "payloads"
    /\ \E e \in zxTodo : LET new == zxDir.files[e] IN
         /\ zxTodo' = zxTodo \ {e}
         /\ \/ /\ new = zxDir.manifest.payloads[e]
               /\ UNCHANGED <<zxOut, zxStep>>
            \/ /\ new # zxDir.manifest.payloads[e] /\ Replaceable(zxDir.bank, zxOut, e, new)
               /\ zxOut' = Replaced(zxOut, e, new) /\ UNCHANGED zxStep
            \/ /\ new # zxDir.manifest.payloads[e] /\ ~Replaceable(zxDir.bank, zxOut, e, new)
               /\ zxStep' = "refused" /\ UNCHANGED zxOut
    /\ UNCHANGED <<zxTemplate, zxDir, zxEdits>>

(* A section that covers its own header cannot be repaired.                *)
Repaired(bank) ==
    IF HasSection(bank)
      THEN [bank EXCEPT ![SectionCell] = <<"section", Checksum(bank), Covered(bank)>>]
      ELSE bank

RepairSection ==
    /\ zxStep = "payloads" /\ zxTodo = {}
    /\ zxOut' = Repaired(zxOut)
    /\ zxStep' = IF HasSection(zxOut') /\ zxOut'[SectionCell][2] # Checksum(zxOut')
                 THEN "refused" ELSE "composed"
    /\ UNCHANGED <<zxTemplate, zxDir, zxTodo, zxEdits>>

(* zup_rebuild.py takes any bank, such as one that was edited directly.    *)
EditBank ==
    /\ zxStep = "composed"
    /\ \E c \in Cell : zxOut' = [zxOut EXCEPT ![c] = <<"word", 9, 0>>]
    /\ zxStep' = "edited"
    /\ UNCHANGED <<zxTemplate, zxDir, zxTodo, zxEdits>>

Rebuild(preserve) ==
    /\ zxStep \in {"composed", "edited"}
    /\ zxStep' = IF RebuildAccepts(zxTemplate, zxOut, preserve) THEN "rebuilt" ELSE "unrepresented"
    /\ UNCHANGED <<zxTemplate, zxDir, zxOut, zxTodo, zxEdits>>

BankEditNext ==
    \/ StartExtraction \/ ExtractFile \/ ExtractBank \/ ExtractManifest \/ ExtractionStops
    \/ EditRecord \/ EditPayload \/ SpoilInventory
    \/ StartCompose \/ WriteTables \/ WritePayload \/ RepairSection \/ EditBank
    \/ \E preserve \in BOOLEAN : Rebuild(preserve)

BankEditSpec == BankEditInit /\ [][BankEditNext]_zxVars

-----------------------------------------------------------------------------
BankEditTypeOK ==
    /\ zxStep \in {"start", "extract", "extracted", "tables", "payloads", "composed",
                   "edited", "rebuilt", "unrepresented", "refused"}
    /\ zxTemplate \in Templates \cup {<<>>}
    /\ \A e \in DOMAIN zxDir.files : zxDir.files[e] \in PayloadData \cup {Torn}
    /\ zxOut = <<>> \/ DOMAIN zxOut = Cell
    /\ zxEdits \in 0 .. MaxBankEdits

(* A directory whose manifest can be read holds the bank and every payload *)
(* the manifest lists, whole, wherever the extraction was stopped.         *)
ManifestMeansComplete ==
    "manifest" \in zxDir.whole =>
        /\ "bank" \in zxDir.whole
        /\ \A e \in DOMAIN zxDir.manifest.payloads :
              e \in DOMAIN zxDir.files /\ zxDir.files[e] # Torn

(* A bank that is composed says what the directory says: its tables hold   *)
(* the edited records, unless two of them share cells, its payloads are    *)
(* the streams of their files, for the destinations they had, and read     *)
(* back if they expand within them, unless a table is written over them,   *)
(* the section's checksum is right and nothing else changed.               *)
PayloadSpan(bank, e) == SpanAt(bank, e[2])
SharesCells(bank, h) == \E g \in Headers(bank) :
    TableAt(bank, g) # TableAt(bank, h) /\ Table(bank, g) \cap Table(bank, h) # {}
Overwritten(bank, e) == \E h \in Headers(bank) : PayloadSpan(bank, e) \cap Table(bank, h) # {}

ComposedIsTheEdit ==
    zxStep = "composed" =>
      LET bank == zxDir.bank
          entries == Inventory(bank)
      IN /\ \A h \in Headers(bank) :
              ~SharesCells(bank, h) => RecordsAt(zxOut, h) = zxDir.manifest.records[h]
         /\ \A e \in entries : ~Overwritten(bank, e) =>
              /\ Holds(zxOut, e[1], e[2], zxDir.files[e], DestinationAt(bank, e[2]))
              /\ Expands(zxDir.files[e], DestinationAt(bank, e[2])) => ParsesAt(zxOut, e[1], e[2])
         /\ HasSection(bank) => HasSection(zxOut) /\ zxOut[SectionCell][2] = Checksum(zxOut)
         /\ \A c \in Cell : zxOut[c] # bank[c] =>
              \/ c = SectionCell
              \/ \E h \in Headers(bank) : c \in Table(bank, h)
              \/ \E e \in entries : c \in PayloadSpan(bank, e)

(* "anything that no longer fits fails closed" (src/firmware/              *)
(* zup_extract.py:9-10): what was composed reads back, payload by payload. *)
ComposedReadsBack ==
    zxStep = "composed" => \A e \in Inventory(zxDir.bank) :
        ~Overwritten(zxDir.bank, e) => ParsesAt(zxOut, e[1], e[2])

(* The checks rebuild_package makes of its own result refuse nothing but a *)
(* bank that changed where the map has no region, and a package that has   *)
(* become too large, however the sizes of the streams changed.             *)
RebuildRefusesOnlyUnmapped ==
    zxStep = "unrepresented" =>
      \/ \E c \in Cell \ Mapped(zxTemplate) : zxOut[c] # Blank
      \/ \E preserve \in BOOLEAN : Rebuilt(zxTemplate, zxOut, preserve).mapAt > PackageLimit
===============================================================================
