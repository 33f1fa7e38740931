----------------------------- MODULE MCFirmwareBench -----------------------------
(* A firmware transfer and the tools that prepare images and profiles, which   *)
(* share no state, on small inputs: each behaviour runs one of them, chosen at *)
(* the start.                                                                  *)
EXTENDS FirmwareTransfer, Qualification, NetworkPreflight, Publication, BoundedCommand, ProfileConversion, BankEdit, TLC

VARIABLE program

(* Routes that cover, split, shadow or overlap the subnet 0 .. 3 of the        *)
(* interface "up", whose addresses are 1 and 2.                                *)
Route(net, via, direct, out) ==
    [net |-> net, via |-> via, direct |-> direct, out |-> out, metric |-> 0]
Routes == {Route(0 .. 3, "up", TRUE, 1), Route(0 .. 1, "up", TRUE, 2),
           Route({3}, "up", TRUE, 0), Route(4 .. 7, "up", TRUE, 1),
           Route(2 .. 3, "up", FALSE, 1), Route(0 .. 7, "wan", FALSE, 7),
           Route(2 .. 3, "wan", TRUE, 7), [Route(0 .. 3, "up", TRUE, 0) EXCEPT !.metric = 1],
           Route({1}, "lo", TRUE, 0), Route({2}, "lo", TRUE, 0), Route({3}, "lo", TRUE, 0)}

(* A run of cfgfmt.py that publishes two names, one of cfgfmt.py that wants the *)
(* second of them and one of zup_bank.py that wants the first.                 *)
CONSTANTS pairRun, singleRun, bankRun, ta, tb
Wanting == (pairRun :> <<ta, tb>>) @@ (singleRun :> <<tb>>) @@ (bankRun :> <<ta>>)
BankRuns == {bankRun}

(* A small tag, two names of one tag for two protocols, and an extended tag.   *)
SmallPtag ==
    <<[tag |-> 1, class |-> "flag", name |-> "UseTftp", size |-> 1,
       context |-> {"sip", "h323"}, extended |-> FALSE, sensitive |-> FALSE],
      [tag |-> 2, class |-> "text", name |-> "UID0", size |-> 3,
       context |-> {"sip"}, extended |-> FALSE, sensitive |-> TRUE],
      [tag |-> 2, class |-> "text", name |-> "CA0UID", size |-> 2,
       context |-> {"h323"}, extended |-> FALSE, sensitive |-> TRUE],
      [tag |-> 11, class |-> "number", name |-> "DialTone", size |-> 4,
       context |-> {"sip", "h323"}, extended |-> TRUE, sensitive |-> FALSE]>>

Attribute(n, v) == [kind |-> "attribute", name |-> n, value |-> v]
Special(t, v) == [kind |-> "special", tag |-> t, value |-> v]
Include(f) == [kind |-> "include", file |-> f]

MainFiles == {<<a, b>> : a \in {Attribute("UID0", 3), Attribute("DialTone", 2), Include("more")},
                         b \in {Attribute("DialTone", 2), Special(12, 1), Include("more")}}
MoreFiles == {<<Attribute("UID0", 0), Special(12, 2), Special(11, 1)>>,
              <<Special(13, 0), Special(12, 2), Special(11, 1)>>,
              <<Include("main"), Attribute("DialTone", 3)>>, <<Include("outside")>>}
SmallProfiles == {("main" :> m) @@ ("more" :> e) : m \in MainFiles, e \in MoreFiles}

(* Packages of a bank of ten cells: its parts at different places, one whose   *)
(* launch tables overlap, and two with a table over a nested payload, one of   *)
(* them with a section that covers its own header.  The extraction of the last *)
(* two fails: a payload expands past the end of the bank, or two exceed the    *)
(* budget together.                                                            *)
Streams == ("p1" :> 1) @@ ("p2" :> 2) @@ ("p3" :> 3) @@ ("p4" :> 1) @@ ("p5" :> 1)
Expansions == ("p1" :> 2) @@ ("p2" :> 3) @@ ("p3" :> 4) @@ ("p4" :> 6) @@ ("p5" :> 11)
Edits == {<<"record", t, 0>> : t \in {"t3", "t5", "t7"}}
Tabled(second) ==
    <<<<"header", 2, 2>>, second, <<"record", "t8", 5>>, <<"record", "t3", 0>>,
      <<"section", {<<3, <<"record", "t3", 0>>>>}, {2, 3, 5, 6}>>, <<"stream", "type8", "p2", 5>>,
      <<"body", "type8", "p2">>, <<"stream", "nested", "p1", 0>>>>
Overlapping ==
    <<<<"header", 6, 3>>, <<"header", 7, 2>>, <<"stream", "nested", "p3", 0>>,
      <<"body", "nested", "p3">>, <<"body", "nested", "p3">>, <<"word", 1, 0>>,
      <<"record", "t5", 1>>, <<"record", "t5", 2>>, <<"record", "t3", 0>>>>
Unreadable ==
    <<<<"header", 1, 2>>, <<"record", "t8", 3>>, <<"record", "t3", 0>>, <<"stream", "type8", "p4", 5>>>>
Budgeted == <<<<"word", 1, 0>>, <<"stream", "nested", "p4", 0>>, <<"stream", "nested", "p4", 0>>>>
Covering(covered) ==
    <<<<"header", 2, 2>>, <<"word", 1, 0>>, <<"stream", "nested", "p1", 0>>, <<"record", "t3", 0>>,
      <<"section", {}, covered>>, <<"stream", "nested", "p2", 0>>, <<"body", "nested", "p2">>>>
(* The first cut cells are kept plain, the others packed: as the rebuild does  *)
(* it in a package with a gap, less well in the others.                        *)
Package(cells, cut, gap) ==
    LET high == SubSeq(cells, cut + 1, Len(cells))
        stored == DeflatedSize(high) + IF gap THEN 0 ELSE 1
        units == SubSeq(cells, 1, cut) \o Packed(high, stored)
    IN  [regions |-> <<[packed |-> FALSE, to |-> 0, size |-> cut, stored |-> 0],
                       [packed |-> TRUE, to |-> cut, size |-> Len(high), stored |-> stored]>>,
         units |-> units, gap |-> gap, mapAt |-> Len(units) + IF gap THEN 1 ELSE 0]
SmallPackages == {Package(Tabled(<<"word", 1, 0>>), 2, FALSE), Package(Tabled(<<"header", 2, 2>>), 5, FALSE),
                  Package(Overlapping, 2, TRUE), [Package(Overlapping, 2, FALSE) EXCEPT !.mapAt = 3],
                  Package(Covering({2, 5}), 2, FALSE), Package(Covering({4}), 2, FALSE),
                  Package(Unreadable, 2, FALSE), Package(Budgeted, 2, FALSE)}

Programs == {"transfer", "qualify", "preflight", "publish", "bounded", "convert", "edit"}

BenchInit == /\ program \in Programs
             /\ TransferInit /\ QualifyInit /\ PreflightInit /\ PublicationInit /\ BoundedInit /\ ConversionInit /\ BankEditInit

FirmwareNext ==
    \/ program = "transfer" /\ TransferNext
         /\ UNCHANGED <<program, clientVars, npVars, pubVars, bcVars, cfVars, zxVars>>
    \/ program = "qualify" /\ QualifyNext
         /\ UNCHANGED <<program, ataVars, lossVars, npVars, pubVars, bcVars, cfVars, zxVars>>
    \/ program = "preflight" /\ PreflightNext
         /\ UNCHANGED <<program, transferVars, clientVars, pubVars, bcVars, cfVars, zxVars>>
    \/ program = "publish" /\ PublicationNext
         /\ UNCHANGED <<program, transferVars, clientVars, npVars, bcVars, cfVars, zxVars>>
    \/ program = "bounded" /\ BoundedNext
         /\ UNCHANGED <<program, transferVars, clientVars, npVars, pubVars, cfVars, zxVars>>
    \/ program = "convert" /\ ConversionNext
         /\ UNCHANGED <<program, transferVars, clientVars, npVars, pubVars, bcVars, zxVars>>
    \/ program = "edit" /\ BankEditNext
         /\ UNCHANGED <<program, transferVars, clientVars, npVars, pubVars, bcVars, cfVars>>

firmwareVars == <<program, transferVars, clientVars, npVars, pubVars, bcVars, cfVars, zxVars>>

(* The transfer, the qualification and the bounded command are promised to     *)
(* make progress.                                                              *)
FirmwareBench == /\ BenchInit /\ [][FirmwareNext]_firmwareVars
                 /\ program = "transfer" => TransferFairness
                 /\ program = "qualify" => QualifyFairness
                 /\ program = "bounded" => BoundedFairness

(* The variables of every program have their types.                            *)
FirmwareTypeOK == /\ TransferTypeOK /\ QualifyTypeOK /\ PreflightTypeOK
                  /\ PublicationTypeOK /\ BoundedTypeOK /\ ConversionTypeOK /\ BankEditTypeOK
==================================================================================
