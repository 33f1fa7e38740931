-------------------------- MODULE ProfileConversion --------------------------
(***************************************************************************)
(* firmware/cfgfmt.py: a text profile is parsed with its includes, its     *)
(* attributes are encoded, filtered and split over output files, once in   *)
(* the old form and once more when a strong key is given; later runs turn  *)
(* each file back into text, with whatever keys they are given.            *)
(*                                                                         *)
(* A value is a small number that the three classes of formats below treat *)
(* as the codecs do; a record weighs one unit of size, and so does the     *)
(* slop added per record; RC4 is abstracted to the key that opens a file.  *)
(* Publishing the files of one conversion is all or nothing: Publication.  *)
(***************************************************************************)
EXTENDS Naturals, Sequences, SequencesExt

CONSTANTS
    Ptag,             \* the lines of ptag.dat: records of tag, class, name, size, context, ...
    Profiles,         \* the input directories: functions from files to lines
    MainFile,         \* the profile given on the command line
    Protocols,        \* the protocols a context may name
    NumberLimit,      \* the largest value an integer takes
    SmallTag,         \* 0xFF: tags below it are small
    SplitThreshold, FormatLimit, PseudoLimit, DepthLimit, InputLimit

VARIABLES
    cfStep,           \* where the conversion is
    cfOptions,        \* omit, split, filter and the keys
    cfProfile,        \* the input directory
    cfStack,          \* the open files, innermost last: pairs of file and next line
    cfBudget,         \* the size of what was read
    cfSmall,          \* small tags: tag to record
    cfPseudo,         \* pseudo tags: records in order of first appearance
    cfFiles,          \* output files made so far: name to key, records and link
    cfText            \* what was read back of each file

cfInput == <<cfOptions, cfProfile>>
cfParsed == <<cfSmall, cfPseudo>>
cfVars == <<cfStep, cfInput, cfStack, cfBudget, cfParsed, cfFiles, cfText>>

NoKey == "nokey"
Options == [omit : BOOLEAN, split : BOOLEAN, filter : SUBSET Protocols,
            key : {NoKey, "key"}, xkey : {NoKey, "xkey"}]
FileNames == {"out", "out.ex", "out.x", "out.xex"}

ASSUME ConversionAssumption ==
    /\ {SmallTag, PseudoLimit, DepthLimit, InputLimit} \subseteq Nat
    /\ \A i \in 1 .. Len(Ptag) :
          Ptag[i].tag \in Nat /\ {Ptag[i].extended, Ptag[i].sensitive} \subseteq BOOLEAN
    /\ \A p \in Profiles : MainFile \in DOMAIN p
    /\ \A p \in Profiles : \A f \in DOMAIN p : \A i \in 1 .. Len(p[f]) :
          /\ p[f][i].kind \in {"special", "attribute", "include"}
          /\ p[f][i].kind = "special" => {p[f][i].tag, p[f][i].value} \subseteq Nat
          /\ p[f][i].kind = "attribute" => p[f][i].value \in Nat

-----------------------------------------------------------------------------
(* encode_value and decode_value.  A flag keeps whether it is set, a       *)
(* number must be in range, a text is stored whole and cut when it is read *)
(* to the size its tag has there.                                          *)
Encodable(entry, v) == entry.class = "number" => v <= NumberLimit
Encode(entry, v) == IF entry.class = "flag" /\ v # 0 THEN 1 ELSE v
Decode(entry, stored) == CASE entry.class = "flag" -> IF stored = 0 THEN 0 ELSE 1
                           [] entry.class = "text" /\ stored > entry.size -> entry.size
                           [] OTHER -> stored

(* No -sip, -h323... switch means every protocol.                          *)
Selected(entry) == entry.context \cap
    (IF cfOptions.filter = {} THEN Protocols ELSE cfOptions.filter) # {}

(* By name the first selected line of ptag.dat counts, by tag the last.    *)
LinesNamed(name) == {i \in 1 .. Len(Ptag) : Ptag[i].name = name /\ Selected(Ptag[i])}
LinesTagged(tag) == {i \in 1 .. Len(Ptag) : Ptag[i].tag = tag /\ Selected(Ptag[i])}
EntryByName(name) == {Ptag[i] : i \in {j \in LinesNamed(name) :
                                         \A k \in LinesNamed(name) : j <= k}}
EntryByTag(tag) == {Ptag[i] : i \in {j \in LinesTagged(tag) :
                                       \A k \in LinesTagged(tag) : k <= j}}

(* What one line assigns: a record, or nothing.  Upgrade and key lines     *)
(* carry their own tag and no flag.                                        *)
SpecialRecords(line) ==
    {[tag |-> line.tag, value |-> line.value, extended |-> FALSE, sensitive |-> FALSE]}

AttributeRecords(line) ==
    {[tag |-> e.tag, value |-> Encode(e, line.value),
      extended |-> e.extended, sensitive |-> e.sensitive] :
        e \in {d \in EntryByName(line.name) : Encodable(d, line.value)}}

Assigned(line) == IF line.kind = "special" THEN SpecialRecords(line) ELSE AttributeRecords(line)

-----------------------------------------------------------------------------
ConversionInit ==
    /\ cfStep = "start"
    /\ cfOptions \in [omit : {FALSE}, split : {FALSE}, filter : {{}}, key : {NoKey}, xkey : {NoKey}]
    /\ cfProfile = [f \in {MainFile} |-> <<>>]
    /\ cfStack = <<>> /\ cfBudget = 0
    /\ cfSmall = [t \in {} |-> 0] /\ cfPseudo = <<>>
    /\ cfFiles = [n \in {} |-> 0] /\ cfText = [n \in FileNames |-> "unread"]

StartConversion ==
    /\ cfStep = "start"
    /\ cfOptions' \in Options /\ cfProfile' \in Profiles
    /\ cfStack' = <<[file |-> MainFile, next |-> 1]>>
    /\ cfStep' = "parse"
    /\ UNCHANGED <<cfBudget, cfParsed, cfFiles, cfText>>

Frame == cfStack[Len(cfStack)]
LineAt == cfProfile[Frame.file][Frame.next]
AtEnd == Frame.next > Len(cfProfile[Frame.file])
NextLine == Append(Front(cfStack), [Frame EXCEPT !.next = @ + 1])

(* readline charges the line to the budget all includes share.             *)
ReadLine ==
    /\ cfStep = "parse" /\ cfStack # <<>> /\ ~AtEnd
    /\ cfBudget' = cfBudget + 1

StorePseudo(record) ==
    LET at == {i \in 1 .. Len(cfPseudo) : cfPseudo[i].tag = record.tag} IN
      cfPseudo' = IF at # {} THEN [i \in 1 .. Len(cfPseudo) |->
                                     IF i \in at THEN record ELSE cfPseudo[i]]
                  ELSE IF Len(cfPseudo) >= PseudoLimit THEN cfPseudo
                  ELSE Append(cfPseudo, record)

ParseAttribute ==
    /\ ReadLine /\ cfBudget' <= InputLimit /\ LineAt.kind # "include"
    /\ cfStack' = NextLine
    /\ \/ Assigned(LineAt) = {} /\ UNCHANGED cfParsed
       \/ \E record \in Assigned(LineAt) :
            \/ /\ record.tag < SmallTag
               /\ cfSmall' = [t \in DOMAIN cfSmall \cup {record.tag} |->
                                IF t = record.tag THEN record ELSE cfSmall[t]]
               /\ UNCHANGED cfPseudo
            \/ /\ record.tag >= SmallTag
               /\ StorePseudo(record) /\ UNCHANGED cfSmall
    /\ UNCHANGED <<cfStep, cfInput, cfFiles, cfText>>

(* Nested too deep, the include is passed over.                            *)
ParseInclude ==
    /\ ReadLine /\ cfBudget' <= InputLimit /\ LineAt.kind = "include"
    /\ Len(cfStack) > DepthLimit \/ LineAt.file \in DOMAIN cfProfile
    /\ cfStack' = IF Len(cfStack) > DepthLimit THEN NextLine
                  ELSE Append(NextLine, [file |-> LineAt.file, next |-> 1])
    /\ UNCHANGED <<cfStep, cfInput, cfParsed, cfFiles, cfText>>

(* Too much input, or an include that is missing or outside the directory. *)
RefuseProfile ==
    /\ ReadLine
    /\ \/ cfBudget' > InputLimit
       \/ /\ LineAt.kind = "include" /\ Len(cfStack) <= DepthLimit
          /\ LineAt.file \notin DOMAIN cfProfile
    /\ cfStep' = "refused"
    /\ UNCHANGED <<cfInput, cfStack, cfParsed, cfFiles, cfText>>

EndOfFile ==
    /\ cfStep = "parse" /\ cfStack # <<>> /\ AtEnd
    /\ cfStack' = Front(cfStack)
    /\ cfStep' = IF Len(cfStack) = 1 THEN "write" ELSE "parse"
    /\ UNCHANGED <<cfInput, cfBudget, cfParsed, cfFiles, cfText>>

-----------------------------------------------------------------------------
Parsed == Range(cfPseudo) \cup {cfSmall[t] : t \in DOMAIN cfSmall}
Kept(records) == {r \in records : ~(cfOptions.omit /\ r.sensitive)}

(* The estimate counts the slop of the records -g leaves out as well.      *)
IsSplit == cfOptions.split \/ Cardinality(Kept(Parsed)) + Cardinality(Parsed) >= SplitThreshold

Passes == IF cfOptions.xkey = NoKey THEN {"old"} ELSE {"old", "strong"}
PassOf(name) == IF name \in {"out", "out.ex"} THEN "old" ELSE "strong"
Extends(name) == name \in {"out.ex", "out.xex"}
Planned == {n \in FileNames : PassOf(n) \in Passes /\ (Extends(n) => IsSplit)}

(* The first file keeps the extended records as well.                      *)
Records_BaseTakesAll(name) ==
    {r \in Kept(Parsed) : IsSplit /\ Extends(name) => r.extended}

Records(name) == {r \in Kept(Parsed) : IsSplit => (r.extended <=> Extends(name))}
LinkOf(name) == IF ~IsSplit \/ Extends(name) THEN ""
                ELSE IF PassOf(name) = "old" THEN "out.ex" ELSE "out.xex"

(* _header_block: the header has two bytes for the size of the payload.    *)
FitsHeader(records) == Cardinality(records) <= FormatLimit

(* _write_one_file, into memory; a payload the header cannot hold refuses. *)
WriteOneFile ==
    /\ cfStep = "write"
    /\ \E name \in Planned \ DOMAIN cfFiles :
         IF ~FitsHeader(Records(name))
           THEN cfStep' = "refused" /\ UNCHANGED cfFiles
           ELSE /\ cfFiles' = [n \in DOMAIN cfFiles \cup {name} |->
                    IF n # name THEN cfFiles[n]
                    ELSE [records |-> Records(name), link |-> LinkOf(name),
                          key |-> IF PassOf(name) = "old" THEN cfOptions.key
                                  ELSE cfOptions.xkey]]
                /\ UNCHANGED cfStep
    /\ UNCHANGED <<cfInput, cfStack, cfBudget, cfParsed, cfText>>

PublishAll ==
    /\ cfStep = "write" /\ DOMAIN cfFiles = Planned
    /\ cfStep' \in {"published", "refused"}
    /\ UNCHANGED <<cfInput, cfStack, cfBudget, cfParsed, cfFiles, cfText>>

-----------------------------------------------------------------------------
(* binary_to_text: tags ptag.dat does not know are printed as they are.    *)
TextOf(records) ==
    UNION {IF EntryByTag(r.tag) = {} THEN {<<"#unknownTag", r.tag, r.value>>}
           ELSE {<<e.name, r.tag, Decode(e, r.value)>> : e \in EntryByTag(r.tag)} : r \in records}

(* A strong key is tried first and proves nothing when it is wrong; the    *)
(* old form must show its mark once it is opened.                          *)
ReadBack(name, key, xkey) ==
    /\ cfStep = "published" /\ name \in DOMAIN cfFiles /\ cfText[name] = "unread"
    /\ LET right == \/ xkey # NoKey /\ PassOf(name) = "strong" /\ xkey = cfFiles[name].key
                    \/ xkey = NoKey /\ PassOf(name) = "old" /\ key = cfFiles[name].key
       IN cfText' = [cfText EXCEPT ![name] =
                       IF right THEN "text" ELSE IF xkey # NoKey THEN "garbage" ELSE "unread"]
    /\ UNCHANGED <<cfStep, cfInput, cfStack, cfBudget, cfParsed, cfFiles>>

ConversionNext ==
    \/ StartConversion \/ ParseAttribute \/ ParseInclude \/ RefuseProfile \/ EndOfFile
    \/ WriteOneFile \/ PublishAll
    \/ \E name \in FileNames, key \in {NoKey, "key"}, xkey \in {NoKey, "xkey"} :
          ReadBack(name, key, xkey)

ConversionSpec == ConversionInit /\ [][ConversionNext]_cfVars

-----------------------------------------------------------------------------
ConversionTypeOK ==
    /\ cfStep \in {"start", "parse", "write", "published", "refused"}
    /\ cfOptions \in Options
    /\ Len(cfStack) <= DepthLimit + 1 /\ cfBudget <= InputLimit + 1
    /\ \A t \in DOMAIN cfSmall : t < SmallTag /\ cfSmall[t].tag = t
    /\ Len(cfPseudo) <= PseudoLimit
    /\ DOMAIN cfFiles \subseteq FileNames
    /\ cfText \in [FileNames -> {"unread", "text", "garbage"}]

(* The files of each pass hold what was parsed and is kept, each tag in    *)
(* one of them, and the link of the first names the second if there is one.*)
FilesHoldParsed ==
    cfStep = "published" => \A pass \in Passes :
      LET names == {n \in DOMAIN cfFiles : PassOf(n) = pass} IN
        /\ UNION {cfFiles[n].records : n \in names} = Kept(Parsed)
        /\ \A m, n \in names : \A r \in cfFiles[m].records, s \in cfFiles[n].records :
              r.tag = s.tag => m = n /\ r = s
        /\ {cfFiles[n].link : n \in names} \ {""} = {n \in names : Extends(n)}

(* What a profile says, without the machine.  The way to a line is the     *)
(* include in each file that leads to the next, and then the line; the     *)
(* lines are said in the order of their ways, and a line behind too many   *)
(* includes is not said.                                                   *)
Place == UNION {{[file |-> f, next |-> i] : i \in 1 .. Len(cfProfile[f])} : f \in DOMAIN cfProfile}
LineOf(place) == cfProfile[place.file][place.next]
LeadsTo(place, file) == LineOf(place).kind = "include" /\ LineOf(place).file = file
Way == {w \in UNION {[1 .. n -> Place] : n \in 1 .. DepthLimit + 1} :
          /\ w[1].file = MainFile
          /\ \A i \in 1 .. Len(w) - 1 : LeadsTo(w[i], w[i + 1].file)
          /\ LineOf(w[Len(w)]).kind # "include"}
Sooner(v, w) == \E i \in 1 .. Len(v) : /\ i <= Len(w) /\ v[i].next < w[i].next
                                       /\ \A j \in 1 .. i - 1 : v[j] = w[j]
Said == UNION {{[at |-> w, record |-> r] : r \in Assigned(LineOf(w[Len(w)]))} : w \in Way}

(* Of several assignments the last of each tag counts, for the first       *)
(* PseudoLimit pseudo tags only.                                           *)
TagsSaidBefore(said, tag) ==
    {s.record.tag : s \in {p \in said : /\ p.record.tag >= SmallTag
                                       /\ \A q \in said : q.record.tag = tag => Sooner(p.at, q.at)}}
Known(said, tag) == tag < SmallTag \/ Cardinality(TagsSaidBefore(said, tag)) < PseudoLimit
Counting(said) ==
    {s.record : s \in {p \in said : /\ Known(said, p.record.tag)
                                    /\ \A q \in said : q.record.tag = p.record.tag => ~Sooner(p.at, q.at)}}
Meaning == Counting(Said)

(* Once the files of a pass are read back with their keys, they say what   *)
(* the profile said, no more and no less, whatever was filtered, left out  *)
(* or split: each tag is in one file, and the first file names the second. *)
ReadsBackWhole ==
    \A pass \in Passes :
      LET names == {n \in DOMAIN cfFiles : PassOf(n) = pass} IN
        cfStep = "published" /\ (\A n \in names : cfText[n] = "text") =>
          /\ UNION {TextOf(cfFiles[n].records) : n \in names} = TextOf(Kept(Meaning))
          /\ \A m, n \in names : \A r \in cfFiles[m].records, s \in cfFiles[n].records :
                r.tag = s.tag => m = n /\ r = s
          /\ \A n \in names : cfFiles[n].link \in {""} \cup names
          /\ Cardinality(names) = 2 => \E n \in names : ~Extends(n) /\ cfFiles[n].link # ""
==============================================================================
