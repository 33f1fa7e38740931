------------------------------ MODULE ToolProofs ------------------------------
(***************************************************************************)
(* The tools that prepare images and profiles: publishing their files,     *)
(* running an external command, editing a bank, qualifying the service and *)
(* converting a profile; and the bench that runs them beside the service.  *)
(***************************************************************************)
EXTENDS MCFirmwareBench, FirmwareProofs, NetworkPreflightProofs, SequenceTheorems

-----------------------------------------------------------------------------
(* Publication implements PrivateOutput, for any number of runs, names and *)
(* outputs of a run: however the runs interleave, wherever they fail, are  *)
(* killed or lose power.  The invariant says, for each run and each phase  *)
(* of it, which names are its own and which of its files are complete.     *)

Staging == {"stage", "write", "sync"}
Linking == {"claim", "link", "mark", "verify", "flush", "finish"}
Outputs(p) == 1 .. Len(Writes[p])

(* A name, or its place on disk, only ever has a complete file.            *)
NamesInv(p) == \A t \in Output :
    entry[t] = p \/ disk[t] = p => t \in Wanted[p] /\ contents[p][t] = "synced"

(* No name is given before the whole set is staged.                        *)
StagingInv(p) == pubStep[p] \in Staging =>
    /\ claimed[p] = 0
    /\ \A t \in Output : entry[t] # p /\ disk[t] # p
    /\ \A i \in Outputs(p) : i < outputAt[p] => contents[p][Writes[p][i]] = "synced"

Linked(p, i) == \/ i < outputAt[p]
                \/ i = outputAt[p] /\ pubStep[p] \in {"mark", "verify"}
                \/ pubStep[p] \in {"flush", "finish"}

(* The names are given in order and keep their file.                       *)
LinkingInv(p) == pubStep[p] \in Linking =>
    \A i \in Outputs(p) : /\ contents[p][Writes[p][i]] = "synced"
                          /\ Linked(p, i) => entry[Writes[p][i]] = p

(* Until a run of cfgfmt ends, every name it holds is on its list, unless  *)
(* one could not be unlinked, which only a clean-up finds out.             *)
ClaimInv(p) == p \notin Banks =>
    /\ pubStep[p] \notin Ended /\ p \notin hindered =>
          \A i \in Outputs(p) : entry[Writes[p][i]] = p => i <= claimed[p]
    /\ pubStep[p] = "claim" => claimed[p] = outputAt[p] - 1
    /\ pubStep[p] \in {"link", "verify"} => claimed[p] = outputAt[p]
    /\ pubStep[p] \notin {"mark", "flush"}

(* What a run of zup_bank reported is on disk.                             *)
DurableInv(p) == p \in Banks /\ pubStep[p] = "ok" =>
    \A t \in Output : entry[t] = p => disk[t] = p

(* It is there once the directory is flushed, before the run ends.         *)
FlushedInv(p) == p \in Banks /\ pubStep[p] = "finish" =>
    \A t \in Output : entry[t] = p => disk[t] = p

RunInv(p) == /\ NamesInv(p) /\ StagingInv(p) /\ LinkingInv(p) /\ ClaimInv(p)
             /\ DurableInv(p) /\ FlushedInv(p)

PubInv == PublicationTypeOK /\ \A p \in Publisher : RunInv(p)

(* A step of the run p, or a signal to it.                                 *)
RunStep(p) == PublisherStep(p) \/ Raise(p) \/ Kill(p)

-----------------------------------------------------------------------------
(* The outputs of a run are distinct names.                                *)
LEMMA WritesFacts ==
  ASSUME NEW p \in Publisher
  PROVE  /\ Len(Writes[p]) \in Nat \ {0}
         /\ \A i \in Outputs(p) : Writes[p][i] \in Output
         /\ \A i, j \in Outputs(p) : Writes[p][i] = Writes[p][j] => i = j
         /\ Wanted[p] = {Writes[p][i] : i \in Outputs(p)}
         /\ p \in Banks => Len(Writes[p]) = 1
         /\ p # Unowned
<1>1. Writes[p] \in Seq(Output) /\ Len(Writes[p]) > 0
  BY OutputAssumption
<1>2. QED
  BY <1>1, OutputAssumption DEF Outputs, Wanted

LEMMA PublicationStarts == PublicationInit => PubInv
<1> SUFFICES ASSUME PublicationInit PROVE PubInv
  OBVIOUS
<1>1. \A p \in Publisher : 1 <= Len(Writes[p])
  BY WritesFacts
<1>2. PublicationTypeOK
  BY <1>1 DEF PublicationInit, PublicationTypeOK, TryBlock
<1>3. ASSUME NEW p \in Publisher PROVE RunInv(p)
  BY WritesFacts
  DEF PublicationInit, RunInv, NamesInv, StagingInv, LinkingInv, ClaimInv, DurableInv, FlushedInv, Staging,
      Linking, Ended, Outputs
<1>4. QED
  BY <1>2, <1>3 DEF PubInv

(* The output a run is at is one of its outputs.                           *)
LEMMA CurrentFacts ==
  ASSUME PublicationTypeOK, NEW p \in Publisher
  PROVE  /\ outputAt[p] \in Outputs(p)
         /\ CurrentOutput(p) \in Output
         /\ claimed[p] > 0 => claimed[p] \in Outputs(p) /\ Writes[p][claimed[p]] \in Output
<1>1. outputAt[p] \in Outputs(p) /\ (claimed[p] > 0 => claimed[p] \in Outputs(p))
  BY WritesFacts DEF PublicationTypeOK, Outputs
<1>2. QED
  BY <1>1, WritesFacts DEF CurrentOutput

LEMMA RunTypes ==
  ASSUME PublicationTypeOK, NEW p \in Publisher, RunStep(p)
  PROVE  PublicationTypeOK'
<1> USE DEF PublicationTypeOK, TryBlock, Ended, Proceed
<1>0. /\ outputAt[p] \in Outputs(p) /\ CurrentOutput(p) \in Output
      /\ claimed[p] > 0 => claimed[p] \in Outputs(p) /\ Writes[p][claimed[p]] \in Output
      /\ Len(Writes[p]) \in Nat \ {0}
  BY CurrentFacts, WritesFacts
<1>1. CASE StageFile(p)
  <2>1. pubStep' \in [Publisher -> TryBlock \cup Ended \cup {"undo", "finish"}]
    BY <1>1 DEF StageFile
  <2>2. contents' \in [Publisher -> [Output -> {"none", "part", "written", "synced"}]]
    <3>1. CASE entry[CurrentOutput(p)] # Unowned
      BY <1>1, <3>1 DEF StageFile
    <3>2. CASE entry[CurrentOutput(p)] = Unowned
      <4>1. contents' = [contents EXCEPT ![p][CurrentOutput(p)] = "part"]
        BY <1>1, <3>2 DEF StageFile, Contain
      <4>2. QED
        BY <1>0, <4>1
    <3>3. QED
      BY <3>1, <3>2
  <2>3. QED
    BY <1>1, <2>1, <2>2 DEF StageFile
<1>2. CASE WriteFile(p)
  BY <1>0, <1>2 DEF WriteFile, Contain
<1>3. CASE SyncFile(p)
  BY <1>0, <1>3 DEF SyncFile, Contain, AfterSync, NextOutput, LastOutput, Outputs
<1>4. CASE ClaimOutput(p)
  BY <1>0, <1>4 DEF ClaimOutput, Outputs
<1>5. CASE LinkOutput(p)
  BY <1>0, <1>5 DEF LinkOutput
<1>6. CASE MarkPublished(p)
  BY <1>0, <1>6 DEF MarkPublished, Outputs
<1>7. CASE VerifyOutput(p)
  <2>1. AfterVerify(p) \in {"flush", "finish", "claim"}
    BY DEF AfterVerify
  <2>2. outputAt' \in [Publisher -> Nat \ {0}] /\ \A q \in Publisher : outputAt'[q] <= Len(Writes[q])
    <3>1. CASE outputAt' = outputAt
      BY <3>1
    <3>2. CASE NextOutput(p)
      BY <1>0, <3>2 DEF NextOutput, LastOutput, Outputs
    <3>3. QED
      BY <1>7, <3>1, <3>2 DEF VerifyOutput
  <2>3. QED
    BY <1>7, <2>1, <2>2 DEF VerifyOutput
<1>8. CASE FlushDirectory(p)
  BY <1>8 DEF FlushDirectory
<1>9. CASE UndoOutput(p)
  <2>1. /\ entry' \in [Output -> Publisher \cup {Unowned}]
        /\ disk' \in {disk, entry'} /\ hindered' \subseteq Publisher
    BY <1>0, <1>9 DEF UndoOutput
  <2>2. /\ claimed' = [claimed EXCEPT ![p] = claimed[p] - 1] /\ claimed[p] > 0
        /\ pubStep' = pubStep /\ outputAt' = outputAt /\ contents' = contents
    BY <1>9 DEF UndoOutput
  <2>3. claimed' \in [Publisher -> Nat] /\ \A q \in Publisher : claimed'[q] <= Len(Writes[q])
    BY <1>0, <2>2 DEF Outputs
  <2>4. QED
    BY <2>1, <2>2, <2>3
<1>10. CASE Tidy(p) \/ TidyFails(p)
  <2>1. Outcome(p) \in Ended
    BY DEF Outcome
  <2>2. QED
    BY <1>10, <2>1 DEF Tidy, TidyFails
<1>11. CASE Raise(p) \/ Kill(p)
  BY <1>11 DEF Raise, Kill
<1>12. QED
  BY <1>1, <1>2, <1>3, <1>4, <1>5, <1>6, <1>7, <1>8, <1>9, <1>10, <1>11
  DEF RunStep, PublisherStep

-----------------------------------------------------------------------------
(* What a step of p leaves alone of another run q: its program, its files  *)
(* and its names; the disk only follows the directory.                     *)
Confined(p, q) ==
    /\ pubStep'[q] = pubStep[q] /\ outputAt'[q] = outputAt[q] /\ claimed'[q] = claimed[q]
    /\ contents'[q] = contents[q]
    /\ \A t \in Output : entry'[t] = q <=> entry[t] = q
    /\ \A t \in Output : disk'[t] \in {disk[t], entry'[t]}
    /\ q \in hindered' <=> q \in hindered

LEMMA RunsConfined ==
  ASSUME PublicationTypeOK, NEW p \in Publisher, RunStep(p), NEW q \in Publisher, q # p
  PROVE  Confined(p, q)
<1> USE DEF Confined, PublicationTypeOK, Proceed, Contain, NextOutput
<1>0. CurrentOutput(p) \in Output /\ q # Unowned
  BY CurrentFacts, WritesFacts
<1>1. CASE StageFile(p) \/ WriteFile(p) \/ SyncFile(p)
  BY <1>0, <1>1 DEF StageFile, WriteFile, SyncFile
<1>2. CASE ClaimOutput(p) \/ MarkPublished(p) \/ VerifyOutput(p) \/ Raise(p) \/ Kill(p)
  BY <1>2 DEF ClaimOutput, MarkPublished, VerifyOutput, Raise, Kill
<1>3. CASE LinkOutput(p)
  BY <1>0, <1>3 DEF LinkOutput
<1>4. CASE FlushDirectory(p) \/ Tidy(p) \/ TidyFails(p)
  BY <1>4 DEF FlushDirectory, Tidy, TidyFails
<1>5. CASE UndoOutput(p)
  BY <1>0, <1>5, CurrentFacts DEF UndoOutput
<1>6. QED
  BY <1>1, <1>2, <1>3, <1>4, <1>5 DEF RunStep, PublisherStep

(* So the invariant of the other run is kept.                              *)
LEMMA OthersKept ==
  ASSUME NEW p \in Publisher, NEW q \in Publisher, RunInv(q), Confined(p, q)
  PROVE  RunInv(q)'
<1>1. NamesInv(q)'
  BY DEF RunInv, NamesInv, Confined
<1>2. StagingInv(q)'
  BY DEF RunInv, StagingInv, Confined
<1>3. LinkingInv(q)'
  <2>1. \A i \in Outputs(q) : Writes[q][i] \in Output
    BY WritesFacts
  <2>2. QED
    BY <2>1 DEF RunInv, LinkingInv, Linked, Confined
<1>4. ClaimInv(q)'
  <2>1. \A i \in Outputs(q) : Writes[q][i] \in Output
    BY WritesFacts
  <2>2. QED
    BY <2>1 DEF RunInv, ClaimInv, Confined
<1>5. DurableInv(q)' /\ FlushedInv(q)'
  BY DEF RunInv, DurableInv, FlushedInv, Confined
<1>6. QED
  BY <1>1, <1>2, <1>3, <1>4, <1>5 DEF RunInv
-----------------------------------------------------------------------------
(* What the steps of a run do to its own part of the invariant.            *)
LEMMA StagingKept ==
  ASSUME PubInv, NEW p \in Publisher, StageFile(p) \/ WriteFile(p) \/ SyncFile(p)
  PROVE  RunInv(p)'
<1> DEFINE cur == CurrentOutput(p)
<1>1. /\ PublicationTypeOK /\ RunInv(p) /\ pubStep[p] \in Staging
      /\ entry' = entry /\ disk' = disk /\ claimed' = claimed
  BY DEF PubInv, StageFile, WriteFile, SyncFile, Staging
<1>2. \A t \in Output : entry[t] # p /\ disk[t] # p
  BY <1>1 DEF RunInv, StagingInv
<1>3. claimed[p] = 0
  BY <1>1 DEF RunInv, StagingInv
<1>4. /\ outputAt[p] \in Outputs(p) /\ cur \in Output
      /\ Len(Writes[p]) \in Nat \ {0}
      /\ \A i \in Outputs(p) : Writes[p][i] \in Output
      /\ \A i, j \in Outputs(p) : Writes[p][i] = Writes[p][j] => i = j
  BY <1>1, CurrentFacts, WritesFacts
<1>5. \A i \in Outputs(p) : i < outputAt[p] => contents[p][Writes[p][i]] = "synced"
  BY <1>1 DEF RunInv, StagingInv
<1>6. pubStep'[p] \in Staging \cup {"claim", "link", "undo"}
  BY <1>1 DEF StageFile, WriteFile, SyncFile, AfterSync, Proceed, PublicationTypeOK, Staging
<1>7. NamesInv(p)' /\ DurableInv(p)' /\ FlushedInv(p)'
  BY <1>1, <1>2 DEF NamesInv, DurableInv, FlushedInv
<1>8. ASSUME NEW i \in Outputs(p), i < outputAt[p]
      PROVE  contents'[p][Writes[p][i]] = "synced"
  <2>1. Writes[p][i] # cur /\ Writes[p][i] \in Output
    BY <1>4, <1>8 DEF CurrentOutput, Outputs
  <2>2. contents'[p][Writes[p][i]] = contents[p][Writes[p][i]]
    BY <1>1, <1>4, <2>1 DEF StageFile, WriteFile, SyncFile, Contain, PublicationTypeOK
  <2>3. QED
    BY <1>5, <1>8, <2>2
<1>9. SyncFile(p) => contents'[p][Writes[p][outputAt[p]]] = "synced"
  BY <1>1, <1>4 DEF SyncFile, Contain, CurrentOutput, PublicationTypeOK
<1>10. StagingInv(p)'
  <2>1. CASE SyncFile(p)
    <3>1. outputAt'[p] = IF LastOutput(p) THEN 1 ELSE outputAt[p] + 1
      BY <1>1, <2>1 DEF SyncFile, NextOutput, PublicationTypeOK
    <3>2. \A i \in Outputs(p) : i < outputAt'[p] => i <= outputAt[p]
      BY <1>4, <3>1 DEF Outputs
    <3>3. QED
      BY <1>1, <1>2, <1>3, <1>4, <1>8, <1>9, <2>1, <3>2 DEF StagingInv, Outputs
  <2>2. CASE StageFile(p) \/ WriteFile(p)
    <3>1. outputAt' = outputAt
      BY <2>2 DEF StageFile, WriteFile
    <3>2. QED
      BY <1>1, <1>2, <1>3, <1>8, <3>1 DEF StagingInv
  <2>3. QED
    BY <2>1, <2>2
<1>11. LinkingInv(p)' /\ ClaimInv(p)'
  <2>1. CASE pubStep'[p] \in {"claim", "link"}
    <3>1. SyncFile(p) /\ LastOutput(p) /\ (p \notin Banks => pubStep'[p] = "claim")
      BY <1>1, <2>1
      DEF StageFile, WriteFile, SyncFile, AfterSync, Proceed, PublicationTypeOK, Staging
    <3>2. outputAt'[p] = 1
      BY <1>1, <3>1 DEF SyncFile, NextOutput, PublicationTypeOK
    <3>3. \A i \in Outputs(p) : contents'[p][Writes[p][i]] = "synced"
      BY <1>4, <1>8, <1>9, <3>1 DEF LastOutput, Outputs
    <3>4. \A i \in Outputs(p) : ~Linked(p, i)'
      BY <2>1, <3>2 DEF Linked, Outputs
    <3>5. QED
      BY <1>1, <1>2, <1>3, <1>4, <2>1, <3>1, <3>2, <3>3, <3>4 DEF LinkingInv, ClaimInv
  <2>2. CASE pubStep'[p] \notin {"claim", "link"}
    BY <1>1, <1>2, <1>4, <1>6, <2>2 DEF LinkingInv, ClaimInv, Linking, Staging
  <2>3. QED
    BY <2>1, <2>2
<1>12. QED
  BY <1>7, <1>10, <1>11 DEF RunInv

(* The common part of the steps that touch no file and no disk.            *)
LEMMA LinkingKept ==
  ASSUME PubInv, NEW p \in Publisher,
         ClaimOutput(p) \/ LinkOutput(p) \/ MarkPublished(p) \/ VerifyOutput(p) \/ FlushDirectory(p)
  PROVE  RunInv(p)'
<1>1. /\ PublicationTypeOK /\ RunInv(p) /\ pubStep[p] \in Linking
      /\ contents' = contents
  BY DEF PubInv, ClaimOutput, LinkOutput, MarkPublished, VerifyOutput, FlushDirectory, Linking
<1>2. /\ outputAt[p] \in Outputs(p) /\ CurrentOutput(p) \in Output
      /\ Len(Writes[p]) \in Nat \ {0} /\ p # Unowned
      /\ \A i \in Outputs(p) : Writes[p][i] \in Wanted[p] \cap Output
      /\ \A i, j \in Outputs(p) : Writes[p][i] = Writes[p][j] => i = j
      /\ p \in Banks => Len(Writes[p]) = 1
  BY <1>1, CurrentFacts, WritesFacts
<1>3. \A i \in Outputs(p) : contents[p][Writes[p][i]] = "synced"
  BY <1>1 DEF RunInv, LinkingInv
<1>4. \A i \in Outputs(p) : Linked(p, i) => entry[Writes[p][i]] = p
  BY <1>1 DEF RunInv, LinkingInv
<1>5. pubStep'[p] \notin Staging /\ pubStep'[p] # "ok"
  BY <1>1
  DEF ClaimOutput, LinkOutput, MarkPublished, VerifyOutput, FlushDirectory, Proceed, AfterVerify,
      PublicationTypeOK, Staging
<1>6. StagingInv(p)' /\ DurableInv(p)'
  BY <1>5 DEF StagingInv, DurableInv
<1>7. NamesInv(p)'
  <2>1. CASE LinkOutput(p)
    <3>1. \A t \in Output : entry'[t] = p => entry[t] = p \/ t = Writes[p][outputAt[p]]
      BY <1>1, <1>2, <2>1 DEF LinkOutput, CurrentOutput, PublicationTypeOK
    <3>2. disk' = disk
      BY <2>1 DEF LinkOutput
    <3>3. QED
      BY <1>1, <1>2, <1>3, <3>1, <3>2 DEF RunInv, NamesInv
  <2>2. CASE FlushDirectory(p)
    BY <1>1, <2>2 DEF RunInv, NamesInv, FlushDirectory
  <2>3. CASE ClaimOutput(p) \/ MarkPublished(p) \/ VerifyOutput(p)
    BY <1>1, <2>3 DEF RunInv, NamesInv, ClaimOutput, MarkPublished, VerifyOutput
  <2>4. QED
    BY <2>1, <2>2, <2>3
<1>8. LinkingInv(p)'
  <2>1. ASSUME NEW i \in Outputs(p), Linked(p, i)' PROVE entry'[Writes[p][i]] = p
    <3> USE DEF Linked, Proceed, Outputs, PublicationTypeOK
    <3>1. CASE ClaimOutput(p)
      BY <1>1, <1>2, <1>4, <2>1, <3>1 DEF ClaimOutput
    <3>2. CASE LinkOutput(p)
      <4>1. entry[CurrentOutput(p)] = Unowned \/ (pubStep'[p] = "undo" /\ entry' = entry)
        BY <1>1, <3>2 DEF LinkOutput
      <4>2. i <= outputAt[p] /\ outputAt' = outputAt
        BY <1>1, <1>2, <2>1, <3>2 DEF LinkOutput
      <4>3. CASE i < outputAt[p]
        <5>1. entry[Writes[p][i]] = p
          BY <1>4, <4>3
        <5>2. QED
          BY <1>1, <1>2, <3>2, <5>1 DEF LinkOutput
      <4>4. CASE i = outputAt[p] /\ entry[CurrentOutput(p)] = Unowned
        BY <1>1, <1>2, <3>2, <4>4 DEF LinkOutput, CurrentOutput
      <4>5. CASE i = outputAt[p] /\ entry[CurrentOutput(p)] # Unowned
        BY <1>1, <1>2, <2>1, <3>2, <4>5 DEF LinkOutput
      <4>6. QED
        BY <4>2, <4>3, <4>4, <4>5, <1>2
    <3>3. CASE MarkPublished(p)
      BY <1>1, <1>2, <1>4, <2>1, <3>3 DEF MarkPublished
    <3>4. CASE VerifyOutput(p)
      <4>1. pubStep[p] = "verify" /\ entry' = entry
        BY <3>4 DEF VerifyOutput
      <4>2. \A j \in Outputs(p) : j <= outputAt[p] => entry[Writes[p][j]] = p
        BY <1>2, <1>4, <4>1
      <4>3. /\ outputAt'[p] = IF LastOutput(p) THEN 1 ELSE outputAt[p] + 1
            /\ pubStep'[p] = AfterVerify(p)
        BY <1>1, <1>2, <3>4, <4>2 DEF VerifyOutput, NextOutput, CurrentOutput
      <4>4. CASE LastOutput(p) \/ p \in Banks
        BY <1>2, <4>1, <4>2, <4>4 DEF LastOutput
      <4>5. CASE ~LastOutput(p) /\ p \notin Banks
        BY <1>2, <2>1, <4>1, <4>2, <4>3, <4>5 DEF AfterVerify
      <4>6. QED
        BY <4>4, <4>5
    <3>5. CASE FlushDirectory(p)
      BY <1>1, <1>2, <1>4, <2>1, <3>5 DEF FlushDirectory
    <3>6. QED
      BY <3>1, <3>2, <3>3, <3>4, <3>5
  <2>2. QED
    BY <1>1, <1>3, <2>1 DEF LinkingInv
<1>9. ClaimInv(p)'
  <2> SUFFICES ASSUME p \notin Banks
      PROVE  /\ p \notin hindered' =>
                  \A i \in Outputs(p) : entry'[Writes[p][i]] = p => i <= claimed'[p]
             /\ pubStep'[p] = "claim" => claimed'[p] = outputAt'[p] - 1
             /\ pubStep'[p] \in {"link", "verify"} => claimed'[p] = outputAt'[p]
             /\ pubStep'[p] \notin {"mark", "flush"}
    BY DEF ClaimInv
  <2>0. /\ p \notin hindered =>
             \A i \in Outputs(p) : entry[Writes[p][i]] = p => i <= claimed[p]
        /\ pubStep[p] = "claim" => claimed[p] = outputAt[p] - 1
        /\ pubStep[p] \in {"link", "verify"} => claimed[p] = outputAt[p]
        /\ pubStep[p] \notin {"mark", "flush"}
    BY <1>1 DEF RunInv, ClaimInv, Linking, Ended
  <2> USE DEF Proceed, PublicationTypeOK
  <2>1. CASE ClaimOutput(p)
    <3>1. \A i \in Outputs(p) : entry'[Writes[p][i]] = entry[Writes[p][i]]
      BY <2>1 DEF ClaimOutput
    <3>2. /\ hindered' = hindered /\ claimed[p] = outputAt[p] - 1 /\ claimed'[p] = outputAt[p]
          /\ pubStep'[p] = "link" /\ outputAt' = outputAt
      BY <1>1, <2>0, <2>1 DEF ClaimOutput
    <3>3. QED
      BY <1>2, <2>0, <3>1, <3>2 DEF Outputs
  <2>2. CASE LinkOutput(p)
    <3>1. \A i \in Outputs(p) : entry'[Writes[p][i]] = p => entry[Writes[p][i]] = p \/ i = outputAt[p]
      BY <1>1, <1>2, <2>2 DEF LinkOutput, CurrentOutput
    <3>2. claimed[p] = outputAt[p] /\ claimed' = claimed /\ hindered' = hindered
      BY <2>0, <2>2 DEF LinkOutput
    <3>3. pubStep'[p] \in {"verify", "undo"} /\ outputAt' = outputAt
      BY <1>1, <2>2 DEF LinkOutput
    <3>4. QED
      BY <1>2, <2>0, <3>1, <3>2, <3>3 DEF Outputs
  <2>3. CASE VerifyOutput(p)
    <3>1. entry' = entry /\ claimed' = claimed /\ hindered' = hindered /\ pubStep[p] = "verify"
      BY <2>3 DEF VerifyOutput
    <3>2. entry[CurrentOutput(p)] = p
      BY <1>2, <1>4, <3>1 DEF Linked, CurrentOutput
    <3>3. /\ pubStep'[p] = IF LastOutput(p) THEN "finish" ELSE "claim"
          /\ outputAt'[p] = IF LastOutput(p) THEN 1 ELSE outputAt[p] + 1
      BY <1>1, <2>3, <3>2 DEF VerifyOutput, AfterVerify, NextOutput
    <3>4. QED
      BY <1>1, <1>2, <2>0, <3>1, <3>3
  <2>4. CASE MarkPublished(p) \/ FlushDirectory(p)
    BY <2>0, <2>4 DEF MarkPublished, FlushDirectory
  <2>5. QED
    BY <2>1, <2>2, <2>3, <2>4
<1>10. FlushedInv(p)'
  <2> SUFFICES ASSUME p \in Banks, pubStep'[p] = "finish"
      PROVE  \A t \in Output : entry'[t] = p => disk'[t] = p
    BY DEF FlushedInv
  <2>1. CASE FlushDirectory(p)
    BY <2>1 DEF FlushDirectory
  <2>2. CASE ~FlushDirectory(p)
    BY <1>1, <2>2
    DEF ClaimOutput, LinkOutput, MarkPublished, VerifyOutput, Proceed, AfterVerify, PublicationTypeOK
  <2>3. QED
    BY <2>1, <2>2
<1>11. QED
  BY <1>6, <1>7, <1>8, <1>9, <1>10 DEF RunInv

LEMMA EndingKept ==
  ASSUME PubInv, NEW p \in Publisher,
         Raise(p) \/ UndoOutput(p) \/ Tidy(p) \/ TidyFails(p) \/ Kill(p)
  PROVE  RunInv(p)'
<1>1. /\ PublicationTypeOK /\ RunInv(p) /\ contents' = contents
  BY DEF PubInv, Raise, UndoOutput, Tidy, TidyFails, Kill
<1>2. /\ p # Unowned
      /\ \A i \in Outputs(p) : Writes[p][i] \in Output
      /\ \A i, j \in Outputs(p) : Writes[p][i] = Writes[p][j] => i = j
      /\ claimed[p] > 0 => claimed[p] \in Outputs(p) /\ Writes[p][claimed[p]] \in Output
  BY <1>1, CurrentFacts, WritesFacts
<1>3. /\ \A t \in Output : entry'[t] = p => entry[t] = p
      /\ \A t \in Output : disk'[t] \in {disk[t], entry'[t]}
  BY <1>1, <1>2 DEF Raise, UndoOutput, Tidy, TidyFails, Kill, PublicationTypeOK
<1>4. pubStep'[p] \notin Staging \cup {"claim", "link", "mark", "verify", "flush", "finish"}
  BY <1>1 DEF Raise, UndoOutput, Tidy, TidyFails, Outcome, Kill, Proceed, PublicationTypeOK, Staging
<1>5. NamesInv(p)'
  BY <1>1, <1>3 DEF RunInv, NamesInv
<1>6. StagingInv(p)' /\ LinkingInv(p)'
  BY <1>4 DEF StagingInv, LinkingInv, Linking
<1>7. ClaimInv(p)'
  <2>1. CASE Raise(p)
    BY <1>1, <1>4, <2>1
    DEF RunInv, ClaimInv, Raise, Proceed, PublicationTypeOK, TryBlock, Ended
  <2>2. CASE UndoOutput(p)
    <3> DEFINE t == Writes[p][claimed[p]]
    <3>1. /\ pubStep[p] = "undo" /\ pubStep' = pubStep
          /\ claimed[p] > 0 /\ claimed'[p] = claimed[p] - 1
          /\ \/ entry'[t] # p /\ hindered' = hindered
             \/ p \in hindered'
      BY <1>1, <1>2, <2>2 DEF UndoOutput, PublicationTypeOK
    <3>2. p \notin Banks /\ p \notin hindered =>
             \A i \in Outputs(p) : entry[Writes[p][i]] = p => i <= claimed[p]
      BY <1>1, <3>1 DEF RunInv, ClaimInv, Ended
    <3>3. p \notin Banks /\ p \notin hindered' =>
             \A i \in Outputs(p) : entry'[Writes[p][i]] = p => i <= claimed'[p]
      BY <1>1, <1>2, <1>3, <3>1, <3>2 DEF Outputs, PublicationTypeOK
    <3>4. QED
      BY <1>4, <3>3 DEF ClaimInv
  <2>3. CASE Tidy(p) \/ TidyFails(p) \/ Kill(p)
    <3>1. pubStep'[p] \in Ended
      BY <1>1, <2>3 DEF Tidy, TidyFails, Outcome, Kill, Proceed, PublicationTypeOK, Ended
    <3>2. QED
      BY <1>4, <3>1 DEF ClaimInv
  <2>4. QED
    BY <2>1, <2>2, <2>3
<1>8. DurableInv(p)'
  <2> SUFFICES ASSUME p \in Banks, pubStep'[p] = "ok", NEW t \in Output, entry'[t] = p
      PROVE  disk'[t] = p
    BY DEF DurableInv
  <2>1. Tidy(p) \/ TidyFails(p)
    BY <1>1 DEF Raise, UndoOutput, Kill, Proceed, PublicationTypeOK
  <2>2. pubStep[p] = "finish" /\ entry' = entry
    BY <1>1, <2>1 DEF Tidy, TidyFails, Outcome, Proceed, PublicationTypeOK
  <2>3. disk[t] = p
    BY <1>1, <2>2 DEF RunInv, FlushedInv
  <2>4. QED
    BY <1>3, <2>2, <2>3
<1>9. FlushedInv(p)'
  BY <1>4 DEF FlushedInv
<1>10. QED
  BY <1>5, <1>6, <1>7, <1>8, <1>9 DEF RunInv

(* After a power loss every run has ended, and every name has a file it    *)
(* had in the directory or on disk.                                        *)
LEMMA OutageKept == PubInv /\ PowerLoss => PubInv'
<1> SUFFICES ASSUME PubInv, PowerLoss PROVE PubInv'
  OBVIOUS
<1>1. PublicationTypeOK
  BY DEF PubInv
<1>2. PICK kept \in SUBSET Output :
          entry' = [t \in Output |-> IF t \in kept THEN entry[t] ELSE disk[t]]
  BY DEF PowerLoss
<1>3. /\ disk' = entry' /\ outputAt' = outputAt /\ claimed' = claimed /\ hindered' = hindered
      /\ pubStep' = [p \in Publisher |-> IF pubStep[p] \in Ended THEN pubStep[p] ELSE "killed"]
      /\ contents' = [p \in Publisher |-> [t \in Output |->
                        IF contents[p][t] = "written" THEN "part" ELSE contents[p][t]]]
  BY DEF PowerLoss
<1>4. PublicationTypeOK'
  <2>1. entry' \in [Output -> Publisher \cup {Unowned}]
    BY <1>1, <1>2 DEF PublicationTypeOK
  <2>2. contents' \in [Publisher -> [Output -> {"none", "part", "written", "synced"}]]
    BY <1>1, <1>3 DEF PublicationTypeOK
  <2>3. pubStep' \in [Publisher -> TryBlock \cup Ended \cup {"undo", "finish"}]
    BY <1>1, <1>3 DEF PublicationTypeOK, Ended
  <2>4. QED
    BY <1>1, <1>3, <2>1, <2>2, <2>3 DEF PublicationTypeOK
<1>5. ASSUME NEW p \in Publisher PROVE RunInv(p)'
  <2>1. RunInv(p)
    BY DEF PubInv
  <2>2. pubStep'[p] \in Ended
    BY <1>3 DEF Ended
  <2>3. \A t \in Output : contents[p][t] = "synced" => contents'[p][t] = "synced"
    BY <1>3
  <2>4. NamesInv(p)'
    BY <1>2, <1>3, <2>1, <2>3 DEF RunInv, NamesInv
  <2>5. StagingInv(p)' /\ LinkingInv(p)' /\ ClaimInv(p)'
    BY <2>2 DEF StagingInv, LinkingInv, ClaimInv, Staging, Linking, Ended
  <2>6. DurableInv(p)' /\ FlushedInv(p)'
    BY <1>3 DEF DurableInv, FlushedInv
  <2>7. QED
    BY <2>4, <2>5, <2>6 DEF RunInv
<1>6. QED
  BY <1>4, <1>5 DEF PubInv

-----------------------------------------------------------------------------
LEMMA PubInvKept == PubInv /\ [PublicationNext]_pubVars => PubInv'
<1> SUFFICES ASSUME PubInv, [PublicationNext]_pubVars PROVE PubInv'
  OBVIOUS
<1>1. ASSUME NEW p \in Publisher, RunStep(p) PROVE PubInv'
  <2>1. PublicationTypeOK /\ \A q \in Publisher : RunInv(q)
    BY DEF PubInv
  <2>2. PublicationTypeOK'
    BY <1>1, <2>1, RunTypes
  <2>3. RunInv(p)'
    BY <1>1, StagingKept, LinkingKept, EndingKept DEF RunStep, PublisherStep
  <2>4. ASSUME NEW q \in Publisher, q # p PROVE RunInv(q)'
    BY <1>1, <2>1, <2>4, RunsConfined, OthersKept
  <2>5. QED
    BY <2>2, <2>3, <2>4 DEF PubInv
<1>2. CASE PowerLoss
  BY <1>2, OutageKept
<1>3. CASE UNCHANGED pubVars
  <2>1. PublicationTypeOK'
    BY <1>3 DEF PubInv, PublicationTypeOK, pubVars
  <2>2. \A p \in Publisher : RunInv(p)'
    BY <1>3
    DEF PubInv, pubVars, RunInv, NamesInv, StagingInv, LinkingInv, ClaimInv, DurableInv, FlushedInv,
        Linked
  <2>3. QED
    BY <2>1, <2>2 DEF PubInv
<1>4. QED
  BY <1>1, <1>2, <1>3 DEF PublicationNext, RunStep

(* Every variable keeps its type: no step leaves a run past its last       *)
(* output or with more outputs on its list than it has.                    *)
THEOREM PublicationTypeCorrect == PublicationSpec => []PublicationTypeOK
<1>1. PubInv => PublicationTypeOK
  BY DEF PubInv
<1>2. QED
  BY <1>1, PublicationStarts, PubInvKept, PTL DEF PublicationSpec

-----------------------------------------------------------------------------
(* Under the invariant no name is torn: the slots are the directory.       *)
LEMMA SlotIsEntry == PubInv => Slot = entry
<1> SUFFICES ASSUME PubInv PROVE Slot = entry
  OBVIOUS
<1>1. \A t \in Output : entry[t] # Unowned => contents[entry[t]][t] = "synced"
  BY DEF PubInv, RunInv, NamesInv, PublicationTypeOK
<1>2. Slot = [t \in Output |-> entry[t]]
  BY <1>1 DEF Slot
<1>3. QED
  BY <1>2 DEF PubInv, PublicationTypeOK

LEMMA SlotStaysEntry == PubInv' => (Slot = entry)'
  BY SlotIsEntry, PTL

(* What a step of a run does to the verdicts.                              *)
LEMMA VerdictMoves ==
  ASSUME PublicationTypeOK, NEW p \in Publisher, NEW s, Proceed(p, s)
  PROVE  Verdict' = [Verdict EXCEPT ![p] = IF s = "killed" THEN "dead"
                                          ELSE IF s \in Ended THEN s ELSE "open"]
  BY DEF Proceed, Verdict, PublicationTypeOK

LEMMA StaysOpen ==
  ASSUME PublicationTypeOK, NEW p \in Publisher, pubStep[p] \notin Ended,
         NEW s, s \notin Ended, Proceed(p, s)
  PROVE  Verdict' = Verdict
<1>1. Verdict[p] = "open" /\ Verdict = [q \in Publisher |-> Verdict[q]]
  BY DEF Verdict, Ended
<1>2. Verdict' = [Verdict EXCEPT ![p] = "open"]
  BY VerdictMoves DEF Ended
<1>3. QED
  BY <1>1, <1>2

LEMMA StartsPromised == PublicationInit => Promise!PromiseInit
<1> SUFFICES ASSUME PublicationInit PROVE Promise!PromiseInit
  OBVIOUS
<1>1. Slot = [t \in Output |-> Unowned]
  BY PublicationStarts, SlotIsEntry DEF PublicationInit
<1>2. Verdict = [p \in Publisher |-> "open"]
  BY DEF PublicationInit, Verdict, Ended
<1>3. QED
  BY <1>1, <1>2 DEF PublicationInit, Promise!PromiseInit

(* Every step of a run is a step of the promise, or invisible to it.       *)
LEMMA RunKeepsPromise ==
  ASSUME PubInv, PubInv', NEW p \in Publisher, RunStep(p)
  PROVE  [Promise!PromiseNext]_(Promise!promiseVars)
<1>1. PublicationTypeOK /\ Slot = entry /\ Slot' = entry'
  BY SlotIsEntry, SlotStaysEntry DEF PubInv
<1>2. pubStep[p] \notin Ended => Verdict[p] = "open"
  BY DEF Verdict, Ended
<1>3. CurrentOutput(p) \in Output /\ CurrentOutput(p) \in Wanted[p]
  BY <1>1, CurrentFacts, WritesFacts DEF CurrentOutput
<1>4. CASE StageFile(p) \/ WriteFile(p) \/ SyncFile(p) \/ ClaimOutput(p) \/ MarkPublished(p)
           \/ VerifyOutput(p) \/ FlushDirectory(p) \/ Raise(p)
  <2>1. PICK s \in TryBlock \cup {"undo", "finish"} : Proceed(p, s)
    BY <1>4
    DEF StageFile, WriteFile, SyncFile, ClaimOutput, MarkPublished, VerifyOutput, FlushDirectory,
        Raise, AfterSync, AfterVerify, TryBlock
  <2>2. entry' = entry /\ hindered' = hindered /\ pubStep[p] \notin Ended
    BY <1>4
    DEF StageFile, WriteFile, SyncFile, ClaimOutput, MarkPublished, VerifyOutput, FlushDirectory,
        Raise, TryBlock, Ended
  <2>3. Verdict' = Verdict
    BY <1>1, <2>1, <2>2, StaysOpen DEF TryBlock, Ended
  <2>4. QED
    BY <1>1, <2>2, <2>3 DEF Promise!promiseVars
<1>5. CASE LinkOutput(p)
  <2>1. PICK s \in {"undo", "mark", "verify"} : Proceed(p, s)
    BY <1>5 DEF LinkOutput
  <2>2. Verdict' = Verdict /\ Verdict[p] = "open"
    BY <1>1, <1>2, <1>5, <2>1, StaysOpen DEF LinkOutput, Ended
  <2>3. /\ hindered' = hindered
        /\ \/ entry' = entry
           \/ /\ entry[CurrentOutput(p)] = Unowned
              /\ entry' = [entry EXCEPT ![CurrentOutput(p)] = p]
    BY <1>5 DEF LinkOutput
  <2>4. UNCHANGED Promise!promiseVars \/ Promise!Publish(p, CurrentOutput(p))
    BY <1>1, <1>3, <2>2, <2>3 DEF Promise!promiseVars, Promise!Publish
  <2>5. QED
    BY <1>3, <2>4 DEF Promise!PromiseNext
<1>6. CASE UndoOutput(p)
  <2> DEFINE t == Writes[p][claimed[p]]
  <2>1. pubStep' = pubStep /\ t \in Output /\ Verdict[p] = "open"
    BY <1>1, <1>2, <1>6, CurrentFacts DEF UndoOutput, Ended
  <2>2. Verdict' = Verdict
    BY <2>1 DEF Verdict
  <2>3. CASE entry' = entry /\ hindered' = hindered
    BY <1>1, <2>2, <2>3 DEF Promise!promiseVars
  <2>4. CASE entry[t] = p /\ entry' = [entry EXCEPT ![t] = Unowned] /\ hindered' = hindered
    <3>1. Promise!Withdraw(p, t)
      BY <1>1, <2>1, <2>2, <2>4 DEF Promise!Withdraw
    <3>2. QED
      BY <2>1, <3>1 DEF Promise!PromiseNext
  <2>5. CASE entry[t] = p /\ entry' = entry /\ hindered' = hindered \cup {p}
    <3>1. Promise!Hinder(p, t)
      BY <1>1, <2>1, <2>2, <2>5 DEF Promise!Hinder
    <3>2. QED
      BY <2>1, <3>1 DEF Promise!PromiseNext
  <2>6. QED
    BY <1>6, <2>3, <2>4, <2>5 DEF UndoOutput
<1>7. CASE Tidy(p) \/ TidyFails(p)
  <2>1. /\ Verdict[p] = "open" /\ entry' = entry /\ Tidying(p)
        /\ hindered' \in {hindered, hindered \cup {p}}
    BY <1>2, <1>7 DEF Tidy, TidyFails, Tidying, Ended
  <2>2. CASE Proceed(p, "ok")
    <3>1. Verdict' = [Verdict EXCEPT ![p] = "ok"]
      BY <1>1, <2>2, VerdictMoves DEF Ended
    <3>2. pubStep[p] = "finish" /\ hindered' = hindered
      BY <1>1, <1>7, <2>2 DEF Tidy, TidyFails, Outcome, Proceed, PublicationTypeOK
    <3>3. \A t \in Wanted[p] : entry[t] = p
      BY <3>2, WritesFacts DEF PubInv, RunInv, LinkingInv, Linking, Linked
    <3>4. Promise!Succeed(p)
      BY <1>1, <2>1, <3>1, <3>2, <3>3 DEF Promise!Succeed
    <3>5. QED
      BY <3>4 DEF Promise!PromiseNext
  <2>3. CASE Proceed(p, "failed")
    <3>1. Verdict' = [Verdict EXCEPT ![p] = "failed"]
      BY <1>1, <2>3, VerdictMoves DEF Ended
    <3>2. ASSUME p \notin Banks, p \notin hindered', NEW t \in Output, entry[t] = p PROVE FALSE
      <4>1. t \in Wanted[p]
        BY <3>2 DEF PubInv, RunInv, NamesInv
      <4>2. PICK i \in Outputs(p) : t = Writes[p][i]
        BY <4>1, WritesFacts
      <4>3. p \notin hindered /\ pubStep[p] = "undo" /\ claimed[p] = 0
        BY <1>1, <1>7, <2>1, <2>3, <3>2
        DEF Tidy, TidyFails, Tidying, Outcome, Proceed, PublicationTypeOK
      <4>4. i <= claimed[p]
        BY <3>2, <4>2, <4>3 DEF PubInv, RunInv, ClaimInv, Ended
      <4>5. QED
        BY <4>3, <4>4 DEF Outputs
    <3>3. Promise!Refuse(p)
      BY <1>1, <2>1, <3>1, <3>2 DEF Promise!Refuse
    <3>4. QED
      BY <3>3 DEF Promise!PromiseNext
  <2>4. QED
    BY <1>7, <2>2, <2>3 DEF Tidy, TidyFails, Outcome
<1>8. CASE Kill(p)
  <2>1. /\ Verdict' = [Verdict EXCEPT ![p] = "dead"] /\ Verdict[p] = "open" /\ entry' = entry
        /\ hindered' = hindered
    BY <1>1, <1>2, <1>8, VerdictMoves DEF Kill
  <2>2. Promise!Die(p)
    BY <1>1, <2>1 DEF Promise!Die
  <2>3. QED
    BY <2>2 DEF Promise!PromiseNext
<1>9. QED
  BY <1>4, <1>5, <1>6, <1>7, <1>8 DEF RunStep, PublisherStep

LEMMA OutageKeepsPromise ==
  ASSUME PubInv, PubInv', PowerLoss
  PROVE  Promise!Outage
<1>1. PublicationTypeOK /\ PublicationTypeOK' /\ Slot = entry /\ Slot' = entry'
  BY SlotIsEntry, SlotStaysEntry DEF PubInv
<1>2. Verdict' = [p \in Publisher |-> IF Verdict[p] = "open" THEN "dead" ELSE Verdict[p]]
  <2>1. pubStep' = [p \in Publisher |-> IF pubStep[p] \in Ended THEN pubStep[p] ELSE "killed"]
    BY DEF PowerLoss
  <2>2. QED
    BY <2>1 DEF Verdict, Ended
<1>3. ASSUME NEW t \in Output, NEW p \in Banks, Verdict[p] = "ok", entry[t] = p
      PROVE  entry'[t] = p
  <2>1. p \in Publisher
    BY OutputAssumption
  <2>2. pubStep[p] = "ok"
    BY <1>3, <2>1 DEF Verdict, Ended
  <2>3. disk[t] = p
    BY <1>3, <2>1, <2>2 DEF PubInv, RunInv, DurableInv
  <2>4. QED
    BY <1>3, <2>3 DEF PowerLoss
<1>4. entry' \in [Output -> Publisher \cup {Unowned}] /\ hindered' = hindered
  BY <1>1 DEF PublicationTypeOK, PowerLoss
<1>5. QED
  BY <1>1, <1>2, <1>3, <1>4 DEF Promise!Outage

(* Both tools keep the promise of PrivateOutput: names go from free to     *)
(* complete in one step, are never replaced, and the verdict of a run      *)
(* agrees with what its names hold, a power loss included.                 *)
THEOREM PublicationImplementsPromise == PublicationSpec => PublicationKeepsPromise
<1>1. PubInv /\ PubInv' /\ [PublicationNext]_pubVars
        => [Promise!PromiseNext]_(Promise!promiseVars)
  <2> SUFFICES ASSUME PubInv, PubInv', [PublicationNext]_pubVars
      PROVE  [Promise!PromiseNext]_(Promise!promiseVars)
    OBVIOUS
  <2>1. ASSUME NEW p \in Publisher, RunStep(p)
        PROVE  [Promise!PromiseNext]_(Promise!promiseVars)
    BY <2>1, RunKeepsPromise
  <2>2. CASE PowerLoss
    BY <2>2, OutageKeepsPromise DEF Promise!PromiseNext
  <2>3. CASE UNCHANGED pubVars
    BY <2>3 DEF pubVars, Promise!promiseVars, Slot, Verdict
  <2>4. QED
    BY <2>1, <2>2, <2>3 DEF PublicationNext, RunStep
<1>2. QED
  BY <1>1, PublicationStarts, PubInvKept, StartsPromised, PTL
  DEF PublicationSpec, PublicationKeepsPromise, Promise!PromiseSpec

-----------------------------------------------------------------------------
(* What run_bounded guarantees when it ends, for any number of signals and *)
(* whatever the command and its children do.  The invariant follows the    *)
(* flags of run_bounded: nothing is sent to the group without one of them, *)
(* so a run that ends with none of them never touched it.                  *)

Stopping == bcStep \in {"stop", "grace"}

(* Before Popen there is no group, and nothing was sent to it.             *)
StartInv == bcStep \in {"open", "spawn"} =>
    bcLeader = "none" /\ bcChild = "none" /\ bcTermed = FALSE /\ bcReturn = ""

GroupInv == /\ bcLeader = "none" => bcChild = "none"
            /\ bcEnd \in {"", "itself", "stopped"}
            /\ bcEnd = "" <=> bcLeader \in {"none", "running"}

(* Where a stop returns to; before the clean-up one has its reason.        *)
StopInv == /\ Stopping => bcReturn \in {"sync", "finally", "raised", "returned"}
           /\ Stopping /\ bcReturn \in {"sync", "finally"} =>
                 TRUE \in {bcOverflow, bcTimedOut, bcInterrupted}
           /\ bcStep = "grace" => bcTermed = TRUE

(* A SIGTERM leaves a flag behind, and only a stop sends it.               *)
CauseInv == /\ bcTermed = TRUE => TRUE \in {bcOverflow, bcTimedOut, bcInterrupted, bcLingering}
            /\ bcEnd = "stopped" => bcTermed = TRUE

(* A way to a return goes past Popen.                                      *)
StartedInv == \/ bcStep \in {"read", "wait", "sync", "returned"}
              \/ bcStep = "finally" /\ bcReturn # "raise"
              \/ Stopping /\ bcReturn \in {"sync", "finally", "returned"}
              => bcLeader # "none"

EndInv == bcStep \in {"returned", "raised", "died"} =>
    bcLeader \in {"none", "reaped"} /\ bcChild # "running"

(* The type invariant but for the pipe and the count of signals.          *)
PlaceInv == /\ bcStep \in {"open", "spawn", "read", "wait", "sync", "finally", "stop", "grace",
                           "returned", "raised", "escaped", "died"}
            /\ bcReturn \in {"", "sync", "finally", "raise", "raised", "returned"}
            /\ bcLeader \in {"none", "running", "zombie", "reaped"}
            /\ bcChild \in {"none", "running", "gone"}

FlagInv == /\ bcTermed \in BOOLEAN /\ bcOverflow \in BOOLEAN /\ bcTimedOut \in BOOLEAN
           /\ bcInterrupted \in BOOLEAN /\ bcLingering \in BOOLEAN /\ bcPending \in BOOLEAN

TypeInv == PlaceInv /\ FlagInv

BoundedInv == /\ TypeInv /\ StartInv /\ GroupInv /\ StopInv
              /\ CauseInv /\ StartedInv /\ EndInv

-----------------------------------------------------------------------------
LEMMA BoundedStarts == BoundedInit => BoundedInv
  BY DEF BoundedInit, BoundedInv, TypeInv, PlaceInv, FlagInv, StartInv, GroupInv, StopInv, CauseInv,
         StartedInv, EndInv, Stopping, BoundedOver

LEMMA InstallHandlersKeeps == BoundedInv /\ InstallHandlers => BoundedInv'
<1> SUFFICES ASSUME BoundedInv, InstallHandlers PROVE BoundedInv'
  OBVIOUS
<1> USE DEF BoundedInv, InstallHandlers, bcFlags, bcGroup
<1>1. TypeInv'
  <2>1. PlaceInv'
    BY DEF TypeInv, PlaceInv
  <2>2. FlagInv'
    BY DEF TypeInv, FlagInv
  <2> QED  BY <2>1, <2>2 DEF TypeInv
<1>2. StartInv'
  BY DEF TypeInv, PlaceInv, FlagInv, StartInv
<1>3. GroupInv'
  BY DEF TypeInv, PlaceInv, FlagInv, StartInv, GroupInv
<1>4. StopInv'
  BY DEF TypeInv, PlaceInv, FlagInv, StopInv, Stopping
<1>5. CauseInv'
  BY DEF TypeInv, PlaceInv, FlagInv, CauseInv, StartInv, StopInv, Stopping
<1>6. StartedInv'
  BY DEF TypeInv, PlaceInv, FlagInv, StartInv, StartedInv, StopInv, Stopping
<1>7. EndInv'
  BY DEF TypeInv, PlaceInv, FlagInv, StartInv, EndInv
<1> QED  BY <1>1, <1>2, <1>3, <1>4, <1>5, <1>6, <1>7

LEMMA SpawnKeeps == BoundedInv /\ Spawn => BoundedInv'
<1> SUFFICES ASSUME BoundedInv, Spawn PROVE BoundedInv'
  OBVIOUS
<1> USE DEF BoundedInv, Spawn, bcFlags, bcGroup
<1>1. TypeInv'
  <2>1. PlaceInv'
    BY DEF TypeInv, PlaceInv
  <2>2. FlagInv'
    BY DEF TypeInv, FlagInv
  <2> QED  BY <2>1, <2>2 DEF TypeInv
<1>2. StartInv'
  BY DEF TypeInv, PlaceInv, FlagInv, StartInv
<1>3. GroupInv'
  BY DEF TypeInv, PlaceInv, FlagInv, StartInv, GroupInv
<1>4. StopInv'
  BY DEF TypeInv, PlaceInv, FlagInv, StopInv, Stopping
<1>5. CauseInv'
  BY DEF TypeInv, PlaceInv, FlagInv, CauseInv, StartInv, StopInv, Stopping
<1>6. StartedInv'
  BY DEF TypeInv, PlaceInv, FlagInv, StartInv, StartedInv, StopInv, Stopping
<1>7. EndInv'
  BY DEF TypeInv, PlaceInv, FlagInv, StartInv, EndInv
<1> QED  BY <1>1, <1>2, <1>3, <1>4, <1>5, <1>6, <1>7

LEMMA EndOfOutputKeeps == BoundedInv /\ EndOfOutput => BoundedInv'
<1> SUFFICES ASSUME BoundedInv, EndOfOutput PROVE BoundedInv'
  OBVIOUS
<1> USE DEF BoundedInv, EndOfOutput, bcFlags, bcGroup
<1>1. TypeInv'
  <2>1. PlaceInv'
    BY DEF TypeInv, PlaceInv
  <2>2. FlagInv'
    BY DEF TypeInv, FlagInv
  <2> QED  BY <2>1, <2>2 DEF TypeInv
<1>2. StartInv'
  BY DEF TypeInv, PlaceInv, FlagInv, StartInv
<1>3. GroupInv'
  BY DEF TypeInv, PlaceInv, FlagInv, StartInv, GroupInv
<1>4. StopInv'
  BY DEF TypeInv, PlaceInv, FlagInv, StopInv, Stopping
<1>5. CauseInv'
  BY DEF TypeInv, PlaceInv, FlagInv, CauseInv, StartInv, StopInv, Stopping
<1>6. StartedInv'
  BY DEF TypeInv, PlaceInv, FlagInv, StartInv, StartedInv, Stopping
<1>7. EndInv'
  BY DEF TypeInv, PlaceInv, FlagInv, StartInv, EndInv
<1> QED  BY <1>1, <1>2, <1>3, <1>4, <1>5, <1>6, <1>7

LEMMA WaitCommandKeeps == BoundedInv /\ WaitCommand => BoundedInv'
<1> SUFFICES ASSUME BoundedInv, WaitCommand PROVE BoundedInv'
  OBVIOUS
<1> USE DEF BoundedInv, WaitCommand, Reap, bcFlags, bcGroup
<1>1. TypeInv'
  <2>1. PlaceInv'
    BY DEF TypeInv, PlaceInv
  <2>2. FlagInv'
    BY DEF TypeInv, FlagInv
  <2> QED  BY <2>1, <2>2 DEF TypeInv
<1>2. StartInv'
  BY DEF TypeInv, PlaceInv, FlagInv, StartInv
<1>3. GroupInv'
  BY DEF TypeInv, PlaceInv, FlagInv, StartInv, GroupInv
<1>4. StopInv'
  BY DEF TypeInv, PlaceInv, FlagInv, StopInv, Stopping
<1>5. CauseInv'
  BY DEF TypeInv, PlaceInv, FlagInv, CauseInv, StartInv, StopInv, Stopping
<1>6. StartedInv'
  BY DEF TypeInv, PlaceInv, FlagInv, StartInv, StartedInv, StopInv, Stopping
<1>7. EndInv'
  BY DEF TypeInv, PlaceInv, FlagInv, StartInv, EndInv
<1> QED  BY <1>1, <1>2, <1>3, <1>4, <1>5, <1>6, <1>7

LEMMA SyncOutputKeeps == BoundedInv /\ SyncOutput => BoundedInv'
<1> SUFFICES ASSUME BoundedInv, SyncOutput PROVE BoundedInv'
  OBVIOUS
<1> USE DEF BoundedInv, SyncOutput, bcFlags, bcGroup
<1>1. TypeInv'
  <2>1. PlaceInv'
    BY DEF TypeInv, PlaceInv
  <2>2. FlagInv'
    BY DEF TypeInv, FlagInv
  <2> QED  BY <2>1, <2>2 DEF TypeInv
<1>2. StartInv'
  BY DEF TypeInv, PlaceInv, FlagInv, StartInv
<1>3. GroupInv'
  BY DEF TypeInv, PlaceInv, FlagInv, StartInv, GroupInv
<1>4. StopInv'
  BY DEF TypeInv, PlaceInv, FlagInv, StopInv, Stopping
<1>5. CauseInv'
  BY DEF TypeInv, PlaceInv, FlagInv, CauseInv, StartInv, StopInv, Stopping
<1>6. StartedInv'
  BY DEF TypeInv, PlaceInv, FlagInv, StartInv, StartedInv, Stopping
<1>7. EndInv'
  BY DEF TypeInv, PlaceInv, FlagInv, StartInv, EndInv
<1> QED  BY <1>1, <1>2, <1>3, <1>4, <1>5, <1>6, <1>7

LEMMA EnterFinallyKeeps == BoundedInv /\ EnterFinally => BoundedInv'
<1> SUFFICES ASSUME BoundedInv, EnterFinally PROVE BoundedInv'
  OBVIOUS
<1> USE DEF BoundedInv, EnterFinally, bcFlags, bcGroup
<1>1. TypeInv'
  <2>1. PlaceInv'
    BY DEF TypeInv, PlaceInv
  <2>2. FlagInv'
    BY DEF TypeInv, FlagInv
  <2> QED  BY <2>1, <2>2 DEF TypeInv
<1>2. StartInv'
  BY DEF TypeInv, PlaceInv, FlagInv, StartInv
<1>3. GroupInv'
  BY DEF TypeInv, PlaceInv, FlagInv, StartInv, GroupInv
<1>4. StopInv'
  BY DEF TypeInv, PlaceInv, FlagInv, StopInv, Stopping
<1>5. CauseInv'
  BY DEF TypeInv, PlaceInv, FlagInv, CauseInv, StartInv, StopInv, Stopping
<1>6. StartedInv'
  BY DEF TypeInv, PlaceInv, FlagInv, StartInv, StartedInv, StopInv, Stopping
<1>7. EndInv'
  BY DEF TypeInv, PlaceInv, FlagInv, StartInv, EndInv
<1> QED  BY <1>1, <1>2, <1>3, <1>4, <1>5, <1>6, <1>7

LEMMA NothingToStopKeeps == BoundedInv /\ NothingToStop => BoundedInv'
<1> SUFFICES ASSUME BoundedInv, NothingToStop PROVE BoundedInv'
  OBVIOUS
<1> USE DEF BoundedInv, NothingToStop, StopReturns, GroupExists, BoundedOver, bcFlags, bcGroup
<1>1. TypeInv'
  <2>1. PlaceInv'
    BY DEF TypeInv, PlaceInv, FlagInv, StopInv, Stopping
  <2>2. FlagInv'
    BY DEF TypeInv, FlagInv
  <2> QED  BY <2>1, <2>2 DEF TypeInv
<1>2. StartInv'
  BY DEF TypeInv, PlaceInv, FlagInv, StartInv
<1>3. GroupInv'
  BY DEF TypeInv, PlaceInv, FlagInv, StartInv, GroupInv
<1>4. StopInv'
  BY DEF TypeInv, PlaceInv, FlagInv, StopInv, Stopping
<1>5. CauseInv'
  BY DEF TypeInv, PlaceInv, FlagInv, CauseInv, StartInv, StopInv, Stopping
<1>6. StartedInv'
  BY DEF TypeInv, PlaceInv, FlagInv, StartInv, StartedInv, StopInv, Stopping
<1>7. EndInv'
  BY DEF TypeInv, PlaceInv, FlagInv, StartInv, EndInv
<1> QED  BY <1>1, <1>2, <1>3, <1>4, <1>5, <1>6, <1>7

LEMMA TerminateKeeps == BoundedInv /\ Terminate => BoundedInv'
<1> SUFFICES ASSUME BoundedInv, Terminate PROVE BoundedInv'
  OBVIOUS
<1> USE DEF BoundedInv, Terminate, GroupExists, Deferred, BoundedOver, bcFlags, bcGroup
<1>1. TypeInv'
  <2>1. PlaceInv'
    BY DEF TypeInv, PlaceInv
  <2>2. FlagInv'
    BY DEF TypeInv, FlagInv
  <2> QED  BY <2>1, <2>2 DEF TypeInv
<1>2. StartInv'
  BY DEF TypeInv, PlaceInv, FlagInv, StartInv
<1>3. GroupInv'
  BY DEF TypeInv, PlaceInv, FlagInv, StartInv, GroupInv
<1>4. StopInv'
  BY DEF TypeInv, PlaceInv, FlagInv, StopInv, Stopping
<1>5. CauseInv'
  BY DEF TypeInv, PlaceInv, FlagInv, CauseInv, StartInv, StopInv, Stopping
<1>6. StartedInv'
  BY DEF TypeInv, PlaceInv, FlagInv, StartInv, StartedInv, StopInv, Stopping
<1>7. EndInv'
  BY DEF TypeInv, PlaceInv, FlagInv, StartInv, EndInv
<1> QED  BY <1>1, <1>2, <1>3, <1>4, <1>5, <1>6, <1>7

LEMMA PollKeeps == BoundedInv /\ Poll => BoundedInv'
<1> SUFFICES ASSUME BoundedInv, Poll PROVE BoundedInv'
  OBVIOUS
<1> USE DEF BoundedInv, Poll, Reap, bcControl, bcFlags
<1>1. TypeInv'
  <2>1. PlaceInv'
    BY DEF TypeInv, PlaceInv
  <2>2. FlagInv'
    BY DEF TypeInv, FlagInv
  <2> QED  BY <2>1, <2>2 DEF TypeInv
<1>2. StartInv'
  BY DEF TypeInv, PlaceInv, FlagInv, StartInv
<1>3. GroupInv'
  BY DEF TypeInv, PlaceInv, FlagInv, StartInv, GroupInv
<1>4. StopInv'
  BY DEF TypeInv, PlaceInv, FlagInv, StopInv, Stopping
<1>5. CauseInv'
  BY DEF TypeInv, PlaceInv, FlagInv, CauseInv, StartInv, StopInv, Stopping
<1>6. StartedInv'
  BY DEF TypeInv, PlaceInv, FlagInv, StartInv, StartedInv, StopInv, Stopping
<1>7. EndInv'
  BY DEF TypeInv, PlaceInv, FlagInv, StartInv, EndInv
<1> QED  BY <1>1, <1>2, <1>3, <1>4, <1>5, <1>6, <1>7

LEMMA GroupGoneKeeps == BoundedInv /\ GroupGone => BoundedInv'
<1> SUFFICES ASSUME BoundedInv, GroupGone PROVE BoundedInv'
  OBVIOUS
<1> USE DEF BoundedInv, GroupGone, StopReturns, GroupExists, BoundedOver, bcFlags, bcGroup
<1>1. TypeInv'
  <2>1. PlaceInv'
    BY DEF TypeInv, PlaceInv, FlagInv, StopInv, Stopping
  <2>2. FlagInv'
    BY DEF TypeInv, FlagInv
  <2> QED  BY <2>1, <2>2 DEF TypeInv
<1>2. StartInv'
  BY DEF TypeInv, PlaceInv, FlagInv, StartInv
<1>3. GroupInv'
  BY DEF TypeInv, PlaceInv, FlagInv, StartInv, GroupInv
<1>4. StopInv'
  BY DEF TypeInv, PlaceInv, FlagInv, StopInv, Stopping
<1>5. CauseInv'
  BY DEF TypeInv, PlaceInv, FlagInv, CauseInv, StartInv, StopInv, Stopping
<1>6. StartedInv'
  BY DEF TypeInv, PlaceInv, FlagInv, StartInv, StartedInv, StopInv, Stopping
<1>7. EndInv'
  BY DEF TypeInv, PlaceInv, FlagInv, StartInv, EndInv
<1> QED  BY <1>1, <1>2, <1>3, <1>4, <1>5, <1>6, <1>7

LEMMA KillGroupKeeps == BoundedInv /\ KillGroup => BoundedInv'
<1> SUFFICES ASSUME BoundedInv, KillGroup PROVE BoundedInv'
  OBVIOUS
<1> USE DEF BoundedInv, KillGroup, StopReturns, GroupExists, BoundedOver, bcFlags, bcGroup
<1>1. TypeInv'
  <2>1. PlaceInv'
    BY DEF TypeInv, PlaceInv, FlagInv, StopInv, Stopping
  <2>2. FlagInv'
    BY DEF TypeInv, FlagInv
  <2> QED  BY <2>1, <2>2 DEF TypeInv
<1>2. StartInv'
  BY DEF TypeInv, PlaceInv, FlagInv, StartInv
<1>3. GroupInv'
  BY DEF TypeInv, PlaceInv, FlagInv, StartInv, GroupInv
<1>4. StopInv'
  BY DEF TypeInv, PlaceInv, FlagInv, StopInv, Stopping
<1>5. CauseInv'
  BY DEF TypeInv, PlaceInv, FlagInv, CauseInv, StartInv, StopInv, Stopping
<1>6. StartedInv'
  BY DEF TypeInv, PlaceInv, FlagInv, StartInv, StartedInv, StopInv, Stopping
<1>7. EndInv'
  BY DEF TypeInv, PlaceInv, FlagInv, StartInv, EndInv
<1> QED  BY <1>1, <1>2, <1>3, <1>4, <1>5, <1>6, <1>7

LEMMA DeadlineKeeps == BoundedInv /\ Deadline => BoundedInv'
<1> SUFFICES ASSUME BoundedInv, Deadline PROVE BoundedInv'
  OBVIOUS
<1> USE DEF BoundedInv, Deadline, bcFlags, bcGroup
<1>1. TypeInv'
  <2>1. PlaceInv'
    BY DEF TypeInv, PlaceInv
  <2>2. FlagInv'
    BY DEF TypeInv, FlagInv
  <2> QED  BY <2>1, <2>2 DEF TypeInv
<1>2. StartInv'
  BY DEF TypeInv, PlaceInv, FlagInv, StartInv
<1>3. GroupInv'
  BY DEF TypeInv, PlaceInv, FlagInv, StartInv, GroupInv
<1>4. StopInv'
  BY DEF TypeInv, PlaceInv, FlagInv, StopInv, Stopping
<1>5. CauseInv'
  BY DEF TypeInv, PlaceInv, FlagInv, CauseInv, StartInv, StopInv, Stopping
<1>6. StartedInv'
  BY DEF TypeInv, PlaceInv, FlagInv, StartInv, StartedInv, StopInv, Stopping
<1>7. EndInv'
  BY DEF TypeInv, PlaceInv, FlagInv, StartInv, EndInv
<1> QED  BY <1>1, <1>2, <1>3, <1>4, <1>5, <1>6, <1>7

LEMMA OverflowKeeps == BoundedInv /\ Overflow => BoundedInv'
<1> SUFFICES ASSUME BoundedInv, Overflow PROVE BoundedInv'
  OBVIOUS
<1> USE DEF BoundedInv, Overflow, bcFlags, bcGroup
<1>1. TypeInv'
  <2>1. PlaceInv'
    BY DEF TypeInv, PlaceInv
  <2>2. FlagInv'
    BY DEF TypeInv, FlagInv
  <2> QED  BY <2>1, <2>2 DEF TypeInv
<1>2. StartInv'
  BY DEF TypeInv, PlaceInv, FlagInv, StartInv
<1>3. GroupInv'
  BY DEF TypeInv, PlaceInv, FlagInv, StartInv, GroupInv
<1>4. StopInv'
  BY DEF TypeInv, PlaceInv, FlagInv, StopInv, Stopping
<1>5. CauseInv'
  BY DEF TypeInv, PlaceInv, FlagInv, CauseInv, StartInv, StopInv, Stopping
<1>6. StartedInv'
  BY DEF TypeInv, PlaceInv, FlagInv, StartInv, StartedInv, StopInv, Stopping
<1>7. EndInv'
  BY DEF TypeInv, PlaceInv, FlagInv, StartInv, EndInv
<1> QED  BY <1>1, <1>2, <1>3, <1>4, <1>5, <1>6, <1>7

LEMMA OutputFailsKeeps == BoundedInv /\ OutputFails => BoundedInv'
<1> SUFFICES ASSUME BoundedInv, OutputFails PROVE BoundedInv'
  OBVIOUS
<1> USE DEF BoundedInv, OutputFails, bcFlags, bcGroup
<1>1. TypeInv'
  <2>1. PlaceInv'
    BY DEF TypeInv, PlaceInv
  <2>2. FlagInv'
    BY DEF TypeInv, FlagInv
  <2> QED  BY <2>1, <2>2 DEF TypeInv
<1>2. StartInv'
  BY DEF TypeInv, PlaceInv, FlagInv, StartInv
<1>3. GroupInv'
  BY DEF TypeInv, PlaceInv, FlagInv, StartInv, GroupInv
<1>4. StopInv'
  BY DEF TypeInv, PlaceInv, FlagInv, StopInv, Stopping
<1>5. CauseInv'
  BY DEF TypeInv, PlaceInv, FlagInv, CauseInv, StartInv, StopInv, Stopping
<1>6. StartedInv'
  BY DEF TypeInv, PlaceInv, FlagInv, StartInv, StartedInv, StopInv, Stopping
<1>7. EndInv'
  BY DEF TypeInv, PlaceInv, FlagInv, StartInv, EndInv
<1> QED  BY <1>1, <1>2, <1>3, <1>4, <1>5, <1>6, <1>7

LEMMA CommandEndsKeeps == BoundedInv /\ CommandEnds => BoundedInv'
<1> SUFFICES ASSUME BoundedInv, CommandEnds PROVE BoundedInv'
  OBVIOUS
<1> USE DEF BoundedInv, CommandEnds, bcControl, bcFlags
<1>1. TypeInv'
  <2>1. PlaceInv'
    BY DEF TypeInv, PlaceInv
  <2>2. FlagInv'
    BY DEF TypeInv, FlagInv
  <2> QED  BY <2>1, <2>2 DEF TypeInv
<1>2. StartInv'
  BY DEF TypeInv, PlaceInv, FlagInv, StartInv
<1>3. GroupInv'
  BY DEF TypeInv, PlaceInv, FlagInv, StartInv, GroupInv
<1>4. StopInv'
  BY DEF TypeInv, PlaceInv, FlagInv, StopInv, Stopping
<1>5. CauseInv'
  BY DEF TypeInv, PlaceInv, FlagInv, CauseInv, StartInv, StopInv, Stopping
<1>6. StartedInv'
  BY DEF TypeInv, PlaceInv, FlagInv, StartInv, StartedInv, Stopping
<1>7. EndInv'
  BY DEF TypeInv, PlaceInv, FlagInv, StartInv, EndInv
<1> QED  BY <1>1, <1>2, <1>3, <1>4, <1>5, <1>6, <1>7

LEMMA CommandForksKeeps == BoundedInv /\ CommandForks => BoundedInv'
<1> SUFFICES ASSUME BoundedInv, CommandForks PROVE BoundedInv'
  OBVIOUS
<1> USE DEF BoundedInv, CommandForks, bcControl, bcFlags
<1>1. TypeInv'
  <2>1. PlaceInv'
    BY DEF TypeInv, PlaceInv
  <2>2. FlagInv'
    BY DEF TypeInv, FlagInv
  <2> QED  BY <2>1, <2>2 DEF TypeInv
<1>2. StartInv'
  BY DEF TypeInv, PlaceInv, FlagInv, StartInv
<1>3. GroupInv'
  BY DEF TypeInv, PlaceInv, FlagInv, StartInv, GroupInv
<1>4. StopInv'
  BY DEF TypeInv, PlaceInv, FlagInv, StopInv, Stopping
<1>5. CauseInv'
  BY DEF TypeInv, PlaceInv, FlagInv, CauseInv, StartInv, StopInv, Stopping
<1>6. StartedInv'
  BY DEF TypeInv, PlaceInv, FlagInv, StartInv, StartedInv, Stopping
<1>7. EndInv'
  BY DEF TypeInv, PlaceInv, FlagInv, StartInv, EndInv
<1> QED  BY <1>1, <1>2, <1>3, <1>4, <1>5, <1>6, <1>7

LEMMA ChildEndsKeeps == BoundedInv /\ ChildEnds => BoundedInv'
<1> SUFFICES ASSUME BoundedInv, ChildEnds PROVE BoundedInv'
  OBVIOUS
<1> USE DEF BoundedInv, ChildEnds, bcControl, bcFlags
<1>1. TypeInv'
  <2>1. PlaceInv'
    BY DEF TypeInv, PlaceInv
  <2>2. FlagInv'
    BY DEF TypeInv, FlagInv
  <2> QED  BY <2>1, <2>2 DEF TypeInv
<1>2. StartInv'
  BY DEF TypeInv, PlaceInv, FlagInv, StartInv
<1>3. GroupInv'
  BY DEF TypeInv, PlaceInv, FlagInv, StartInv, GroupInv
<1>4. StopInv'
  BY DEF TypeInv, PlaceInv, FlagInv, StopInv, Stopping
<1>5. CauseInv'
  BY DEF TypeInv, PlaceInv, FlagInv, CauseInv, StartInv, StopInv, Stopping
<1>6. StartedInv'
  BY DEF TypeInv, PlaceInv, FlagInv, StartInv, StartedInv, Stopping
<1>7. EndInv'
  BY DEF TypeInv, PlaceInv, FlagInv, StartInv, EndInv
<1> QED  BY <1>1, <1>2, <1>3, <1>4, <1>5, <1>6, <1>7

LEMMA ClosePipeKeeps == BoundedInv /\ ClosePipe => BoundedInv'
<1> SUFFICES ASSUME BoundedInv, ClosePipe PROVE BoundedInv'
  OBVIOUS
<1> USE DEF BoundedInv, ClosePipe, bcControl, bcFlags
<1>1. TypeInv'
  <2>1. PlaceInv'
    BY DEF TypeInv, PlaceInv
  <2>2. FlagInv'
    BY DEF TypeInv, FlagInv
  <2> QED  BY <2>1, <2>2 DEF TypeInv
<1>2. StartInv'
  BY DEF TypeInv, PlaceInv, FlagInv, StartInv
<1>3. GroupInv'
  BY DEF TypeInv, PlaceInv, FlagInv, StartInv, GroupInv
<1>4. StopInv'
  BY DEF TypeInv, PlaceInv, FlagInv, StopInv, Stopping
<1>5. CauseInv'
  BY DEF TypeInv, PlaceInv, FlagInv, CauseInv, StartInv, StopInv, Stopping
<1>6. StartedInv'
  BY DEF TypeInv, PlaceInv, FlagInv, StartInv, StartedInv, Stopping
<1>7. EndInv'
  BY DEF TypeInv, PlaceInv, FlagInv, StartInv, EndInv
<1> QED  BY <1>1, <1>2, <1>3, <1>4, <1>5, <1>6, <1>7

LEMMA SignalKeeps == BoundedInv /\ Signal => BoundedInv'
<1> SUFFICES ASSUME BoundedInv, Signal PROVE BoundedInv'
  OBVIOUS
<1> USE DEF BoundedInv, Signal, bcGroup, Deferred, BoundedOver
<1>1. TypeInv'
  <2>1. PlaceInv'
    BY DEF TypeInv, PlaceInv
  <2>2. FlagInv'
    BY DEF TypeInv, FlagInv
  <2> QED  BY <2>1, <2>2 DEF TypeInv
<1>2. StartInv'
  BY DEF TypeInv, PlaceInv, FlagInv, StartInv
<1>3. GroupInv'
  BY DEF TypeInv, PlaceInv, FlagInv, StartInv, GroupInv
<1>4. StopInv'
  BY DEF TypeInv, PlaceInv, FlagInv, StopInv, Stopping
<1>5. CauseInv'
  BY DEF TypeInv, PlaceInv, FlagInv, CauseInv, StartInv, StopInv, Stopping
<1>6. StartedInv'
  BY DEF TypeInv, PlaceInv, FlagInv, StartInv, StopInv, StartedInv, Stopping
<1>7. EndInv'
  BY DEF TypeInv, PlaceInv, FlagInv, StartInv, EndInv
<1> QED  BY <1>1, <1>2, <1>3, <1>4, <1>5, <1>6, <1>7

LEMMA BoundedKept == BoundedInv /\ [BoundedNext]_bcVars => BoundedInv'
<1>1. BoundedInv /\ UNCHANGED bcVars => BoundedInv'
  <2> SUFFICES ASSUME BoundedInv, UNCHANGED bcVars PROVE BoundedInv'
    OBVIOUS
  <2>1. /\ UNCHANGED <<bcStep, bcReturn, bcLeader, bcChild, bcEnd>>
        /\ UNCHANGED <<bcTermed, bcOverflow, bcTimedOut, bcInterrupted, bcLingering, bcPending>>
    BY DEF bcVars, bcControl, bcFlags, bcGroup
  <2>2. TypeInv'
    <3>1. PlaceInv'
      BY <2>1 DEF BoundedInv, TypeInv, PlaceInv
    <3>2. FlagInv'
      BY <2>1 DEF BoundedInv, TypeInv, FlagInv
    <3> QED  BY <3>1, <3>2 DEF TypeInv
  <2>3. StartInv' /\ GroupInv'
    BY <2>1 DEF BoundedInv, StartInv, GroupInv
  <2>4. StopInv'
    BY <2>1 DEF BoundedInv, StopInv, Stopping
  <2>5. CauseInv'
    BY <2>1 DEF BoundedInv, CauseInv
  <2>6. StartedInv' /\ EndInv'
    BY <2>1 DEF BoundedInv, StartedInv, EndInv, Stopping
  <2> QED  BY <2>2, <2>3, <2>4, <2>5, <2>6 DEF BoundedInv
<1> QED
  BY <1>1, InstallHandlersKeeps, SpawnKeeps, EndOfOutputKeeps, WaitCommandKeeps,
     SyncOutputKeeps, EnterFinallyKeeps, NothingToStopKeeps, TerminateKeeps, PollKeeps,
     GroupGoneKeeps, KillGroupKeeps, DeadlineKeeps, OverflowKeeps, OutputFailsKeeps,
     CommandEndsKeeps, CommandForksKeeps, ChildEndsKeeps, ClosePipeKeeps, SignalKeeps
  DEF BoundedNext, BoundedStep

-----------------------------------------------------------------------------
(* The status 0 is reported without a flag only.                           *)
LEMMA CleanStatus ==
  BoundedInv /\ bcStep = "returned" /\ Status = 0 => bcEnd = "itself" /\ bcTermed = FALSE
<1> SUFFICES ASSUME BoundedInv, bcStep = "returned", Status = 0
             PROVE  bcEnd = "itself" /\ bcTermed = FALSE
  OBVIOUS
<1>1. ~bcOverflow /\ ~bcInterrupted /\ ~bcTimedOut /\ ~bcLingering
  BY DEF Status
<1>2. TRUE \notin {bcOverflow, bcTimedOut, bcInterrupted, bcLingering}
  BY <1>1 DEF BoundedInv, TypeInv, FlagInv
<1>3. bcTermed = FALSE
  BY <1>2 DEF BoundedInv, CauseInv, TypeInv, FlagInv
<1>4. bcLeader = "reaped"
  BY DEF BoundedInv, StartedInv, EndInv
<1> QED  BY <1>3, <1>4 DEF BoundedInv, GroupInv, CauseInv

LEMMA BoundedMeans == BoundedInv => NothingOutlives
<1>1. ASSUME BoundedInv, bcStep = "returned", Status = 0
      PROVE  bcEnd = "itself" /\ ~bcTermed
  BY <1>1, CleanStatus
<1> QED  BY <1>1 DEF NothingOutlives, BoundedInv, EndInv

(* run_bounded keeps its promise however many signals arrive: when it ends *)
(* by a return, an error or a deferred signal, nothing of the command's    *)
(* group is left, and a status of its own is reported only of a group that *)
(* was left alone.                                                         *)
THEOREM NothingIsLeft == BoundedSpec => []NothingOutlives
  BY BoundedMeans, BoundedStarts, BoundedKept, PTL DEF BoundedSpec

(* The two variables the argument above does not look at.                  *)
PipeInv == bcPipe \subseteq {"leader", "child"} /\ bcSignals \in 0 .. MaxSignals

LEMMA PipeStarts == BoundedInit => PipeInv
<1> SUFFICES ASSUME BoundedInit PROVE PipeInv
  OBVIOUS
<1>1. bcPipe = {} /\ bcSignals = 0
  BY DEF BoundedInit
<1> QED  BY <1>1, SignalsAssumption DEF PipeInv

LEMMA PipeKept == PipeInv /\ [BoundedNext]_bcVars => PipeInv'
<1> SUFFICES ASSUME PipeInv, [BoundedNext]_bcVars PROVE PipeInv'
  OBVIOUS
<1>1. CASE Signal
  <2>1. bcSignals < MaxSignals /\ bcSignals' = bcSignals + 1 /\ bcPipe' = bcPipe
    BY <1>1 DEF Signal, bcGroup
  <2> QED  BY <2>1, SignalsAssumption DEF PipeInv
<1>2. ASSUME ~Signal PROVE bcSignals' = bcSignals
  <2>1. CASE Spawn \/ EndOfOutput \/ WaitCommand \/ SyncOutput \/ EnterFinally \/ InstallHandlers
    BY <2>1 DEF InstallHandlers, Spawn, EndOfOutput, WaitCommand, SyncOutput, EnterFinally
  <2>2. CASE NothingToStop \/ Terminate \/ Poll \/ GroupGone \/ KillGroup
    BY <2>2 DEF NothingToStop, Terminate, Poll, GroupGone, KillGroup
  <2>3. CASE Deadline \/ Overflow \/ OutputFails \/ UNCHANGED bcVars
    BY <2>3 DEF Deadline, Overflow, OutputFails, bcVars
  <2>4. CASE CommandEnds \/ CommandForks \/ ChildEnds \/ ClosePipe
    BY <2>4 DEF CommandEnds, CommandForks, ChildEnds, ClosePipe
  <2> QED  BY <1>2, <2>1, <2>2, <2>3, <2>4 DEF BoundedNext, BoundedStep
<1>3. ASSUME ~Signal PROVE bcPipe' \subseteq {"leader", "child"}
  <2>1. CASE EndOfOutput \/ WaitCommand \/ SyncOutput \/ EnterFinally \/ InstallHandlers
    BY <2>1 DEF InstallHandlers, EndOfOutput, WaitCommand, SyncOutput, EnterFinally, bcGroup, PipeInv
  <2>2. CASE NothingToStop \/ Terminate \/ Poll \/ GroupGone
    BY <2>2 DEF NothingToStop, Terminate, Poll, GroupGone, bcGroup, PipeInv
  <2>3. CASE Deadline \/ Overflow \/ OutputFails \/ UNCHANGED bcVars
    BY <2>3 DEF Deadline, Overflow, OutputFails, bcVars, bcGroup, PipeInv
  <2>4. CASE Spawn \/ KillGroup \/ CommandEnds \/ CommandForks \/ ChildEnds \/ ClosePipe
    BY <2>4 DEF Spawn, KillGroup, CommandEnds, CommandForks, ChildEnds, ClosePipe, PipeInv
  <2> QED  BY <1>3, <2>1, <2>2, <2>3, <2>4 DEF BoundedNext, BoundedStep
<1> QED  BY <1>1, <1>2, <1>3 DEF PipeInv

LEMMA BoundedTypes == BoundedInv /\ PipeInv => BoundedTypeOK
  BY DEF BoundedInv, TypeInv, PlaceInv, FlagInv, PipeInv, BoundedTypeOK, BoundedOver

(* The variables of run_bounded and of the group keep their types.         *)
THEOREM BoundedTypeCorrect == BoundedSpec => []BoundedTypeOK
  BY BoundedStarts, BoundedKept, PipeStarts, PipeKept, BoundedTypes, PTL DEF BoundedSpec

-----------------------------------------------------------------------------
(* A bank that is composed is the edit of the directory.  The invariant    *)
(* follows the directory to its manifest, which is of the bank it was      *)
(* extracted from, and the composition from table to payload: no payload   *)
(* is written over another, as the streams of a bank lie apart.            *)

(* What a header and an entry of a bank point at is in the bank.           *)
IsBank(bank) ==
    /\ bank = [c \in Cell |-> bank[c]]
    /\ \A h \in Headers(bank) : /\ h \in Cell /\ bank[h][2] \in Nat /\ bank[h][3] \in Nat \ {0}
                                /\ bank[h][2] + bank[h][3] <= BankCells
    /\ Extractable(bank)

InTable(bank, c) == \E h \in Headers(bank) : c \in Table(bank, h)
Listed(bank, c) == \E e \in Inventory(bank) : c \in PayloadSpan(bank, e)

DirectoryInv == DOMAIN zxDir = {"files", "bank", "manifest", "whole"}

StartDirInv == zxStep = "start" => zxDir = NoDir

ExtractInv == zxStep = "extract" =>
    /\ zxTemplate \in Templates /\ ReadsAsBank(zxTemplate)
    /\ zxDir.whole \subseteq {"bank"}
    /\ \A e \in DOMAIN zxDir.files : zxDir.files[e] \in PayloadData
    /\ "bank" \in zxDir.whole => /\ DOMAIN zxDir.files = Inventory(SourceBank)
                                 /\ Extractable(SourceBank)

ManifestInv == "manifest" \in zxDir.whole =>
    /\ zxTemplate \in Templates /\ ReadsAsBank(zxTemplate)
    /\ "bank" \in zxDir.whole
    /\ DOMAIN zxDir.manifest = {"records", "payloads", "digest"}
    /\ DOMAIN zxDir.manifest.payloads \subseteq DOMAIN zxDir.files
    /\ \A e \in DOMAIN zxDir.files : zxDir.files[e] \in PayloadData
    /\ zxDir.manifest.digest = SourceBank
    /\ DOMAIN zxDir.manifest.records = Headers(SourceBank)
    /\ \A h \in Headers(SourceBank) :
         zxDir.manifest.records[h] = [k \in 1 .. SourceBank[h][3] |-> zxDir.manifest.records[h][k]]

(* The composition starts from a directory that was not spoilt.            *)
ComposeInv == zxStep \in {"tables", "payloads"} =>
    /\ Loads /\ ValidManifest(zxDir.manifest, zxDir.bank) /\ TablesClear(zxDir.bank)

(* The bank being composed, with the entries of todo still to come: the    *)
(* tables are in place, the headers are as they were, an entry to come is  *)
(* where it was unless a table is over it, and one that was applied is the *)
(* stream of its file, for the destination the bank has for it.            *)
Progress(bank, records, files, out, todo) ==
    /\ out = [c \in Cell |-> out[c]] /\ todo \subseteq Inventory(bank)
    /\ \A h \in Headers(bank) : ~SharesCells(bank, h) =>
         \A k \in 1 .. bank[h][3] : out[bank[h][2] + k - 1] = records[h][k]
    /\ \A c \in Protected(bank) : out[c] = bank[c]
    /\ \A c \in Cell : out[c] = bank[c] \/ InTable(bank, c) \/ Listed(bank, c)
    /\ \A e \in todo : \A c \in PayloadSpan(bank, e) : out[c] = bank[c] \/ InTable(bank, c)
    /\ \A e \in Inventory(bank) \ todo : ~Overwritten(bank, e) =>
         /\ files[e] \in PayloadData
         /\ StoredSize[files[e]] <= StoredSize[DataAt(bank, e[2])]
         /\ Holds(out, e[1], e[2], files[e], DestinationAt(bank, e[2]))

PayloadsInv == zxStep = "payloads" =>
    Progress(zxDir.bank, zxDir.manifest.records, zxDir.files, zxOut, zxTodo)

OutInv == zxStep \in {"payloads", "composed"} => DOMAIN zxOut = Cell

EditInv == /\ BankEditTypeOK /\ DirectoryInv /\ StartDirInv /\ ExtractInv /\ ManifestInv
           /\ ComposeInv /\ PayloadsInv /\ OutInv /\ ComposedIsTheEdit

-----------------------------------------------------------------------------
(* Facts about banks.                                                      *)
LEMMA SpanFacts ==
  ASSUME NEW from \in Nat, NEW size \in Nat, NEW c
  PROVE  /\ c \in Span(from, size) => c \in Nat /\ from <= c /\ c < from + size
         /\ c \in Nat /\ from <= c /\ c < from + size => c \in Span(from, size)
  BY DEF Span

LEMMA StoredFacts ==
  ASSUME NEW d \in PayloadData
  PROVE  StoredSize[d] \in Nat /\ StoredSize[d] > 0
  BY BankAssumption

(* A stream says what it is in its first cell.                             *)
LEMMA ParseFacts ==
  ASSUME NEW bank, NEW kind, NEW at \in Nat, ParsesAt(bank, kind, at)
  PROVE  /\ at \in Cell /\ DataAt(bank, at) \in PayloadData
         /\ at + StoredSize[DataAt(bank, at)] <= BankCells
         /\ Holds(bank, kind, at, DataAt(bank, at), DestinationAt(bank, at))
         /\ DestinationAt(bank, at) \in Destinations(kind)
<1>1. PICK data \in PayloadData, dest \in Destinations(kind) : Holds(bank, kind, at, data, dest)
  BY DEF ParsesAt
<1>2. bank[at] = <<"stream", kind, data, dest>>
  <2>1. 1 \in 1 .. StoredSize[data] /\ at + 1 - 1 = at
    BY StoredFacts
  <2>2. bank[at] = Stream(kind, data, dest)[1]
    BY <1>1, <2>1 DEF Holds
  <2> QED  BY <2>1, <2>2 DEF Stream
<1>3. DataAt(bank, at) = data /\ DestinationAt(bank, at) = dest
  BY <1>2 DEF DataAt, DestinationAt
<1>4. at + StoredSize[data] <= BankCells
  BY <1>1 DEF Holds
<1>5. BankCells \in Nat /\ StoredSize[data] \in Nat /\ StoredSize[data] > 0
  BY StoredFacts, BankAssumption
<1>6. at \in Cell
  BY <1>4, <1>5 DEF Cell
<1> QED  BY <1>1, <1>3, <1>4, <1>6

(* And a stream that is held parses, if it expands.                        *)
LEMMA HeldParses ==
  ASSUME NEW out, NEW kind, NEW at, NEW data \in PayloadData, NEW dest \in Destinations(kind),
         Holds(out, kind, at, data, dest), Expands(data, dest)
  PROVE  ParsesAt(out, kind, at)
  BY DEF ParsesAt

LEMMA EntryFacts ==
  ASSUME NEW bank, Extractable(bank), NEW e \in Inventory(bank)
  PROVE  /\ e = <<e[1], e[2]>> /\ e[2] \in Cell /\ e[2] \in Nat
         /\ ParsesAt(bank, e[1], e[2])
<1>1. CASE e \in {<<"type8", c>> : c \in Type8At(bank)}
  <2>1. PICK c \in Type8At(bank) : e = <<"type8", c>>
    BY <1>1
  <2>2. c \in Cell /\ ParsesAt(bank, "type8", c)
    BY DEF Extractable
  <2> QED  BY <2>1, <2>2, BankAssumption DEF Cell
<1>2. CASE e \in {<<"nested", c>> : c \in NestedAt(bank)}
  <2>1. PICK c \in NestedAt(bank) : e = <<"nested", c>>
    BY <1>2
  <2>2. c \in Cell /\ ParsesAt(bank, "nested", c)
    BY DEF NestedAt
  <2> QED  BY <2>1, <2>2, BankAssumption DEF Cell
<1> QED  BY <1>1, <1>2 DEF Inventory

(* The cells of an entry, and what is in them.                             *)
LEMMA PayloadSpanFacts ==
  ASSUME NEW bank, Extractable(bank), NEW e \in Inventory(bank)
  PROVE  /\ DataAt(bank, e[2]) \in PayloadData /\ e[2] \in PayloadSpan(bank, e)
         /\ e[2] + StoredSize[DataAt(bank, e[2])] <= BankCells
         /\ Holds(bank, e[1], e[2], DataAt(bank, e[2]), DestinationAt(bank, e[2]))
         /\ DestinationAt(bank, e[2]) \in Destinations(e[1])
         /\ bank[e[2]] = <<"stream", e[1], DataAt(bank, e[2]), DestinationAt(bank, e[2])>>
         /\ \A c \in PayloadSpan(bank, e) :
              /\ c \in Cell /\ bank[c][1] \in {"stream", "body"}
              /\ c # e[2] => bank[c][1] = "body"
<1> DEFINE at == e[2]
           data == DataAt(bank, e[2])
           dest == DestinationAt(bank, e[2])
           n == StoredSize[data]
<1>1. at \in Cell /\ at \in Nat /\ ParsesAt(bank, e[1], at)
  BY EntryFacts
<1>2. /\ data \in PayloadData /\ at + n <= BankCells
      /\ Holds(bank, e[1], at, data, dest) /\ dest \in Destinations(e[1])
  BY <1>1, ParseFacts
<1>3. n \in Nat /\ n > 0
  BY <1>2, StoredFacts
<1>4. PayloadSpan(bank, e) = at .. at + n - 1
  BY DEF PayloadSpan, SpanAt, Span
<1>5. ASSUME NEW c \in PayloadSpan(bank, e)
      PROVE  /\ c \in Cell
             /\ bank[c] = IF c = at THEN <<"stream", e[1], data, dest>> ELSE <<"body", e[1], data>>
  <2> DEFINE k == c - at + 1
  <2>1. c \in at .. at + n - 1
    BY <1>4
  <2> HIDE DEF n, at
  <2>2. k \in 1 .. n /\ c = at + k - 1 /\ c \in Cell
    BY <2>1, <1>1, <1>2, <1>3, BankAssumption DEF Cell
  <2>3. k = 1 <=> c = at
    BY <2>1, <1>1, <1>3
  <2>4. bank[c] = Stream(e[1], data, dest)[k]
    BY <2>2, <1>2 DEF Holds, n
  <2>5. Stream(e[1], data, dest)[k]
          = IF k = 1 THEN <<"stream", e[1], data, dest>> ELSE <<"body", e[1], data>>
    BY <2>2 DEF Stream, n
  <2> QED  BY <2>2, <2>3, <2>4, <2>5
<1>6. at \in PayloadSpan(bank, e)
  BY <1>1, <1>3, <1>4
<1>7. bank[at] = <<"stream", e[1], data, dest>>
  BY <1>5, <1>6
<1>8. \A c \in PayloadSpan(bank, e) : /\ c \in Cell /\ bank[c][1] \in {"stream", "body"}
                                      /\ c # at => bank[c][1] = "body"
  BY <1>5
<1> QED  BY <1>2, <1>6, <1>7, <1>8

(* Two entries of a bank do not share a cell.                              *)
LEMMA SpansApart ==
  ASSUME NEW bank, Extractable(bank), NEW e \in Inventory(bank), NEW f \in Inventory(bank),
         NEW c \in PayloadSpan(bank, e), c \in PayloadSpan(bank, f)
  PROVE  e = f
<1> DEFINE m == StoredSize[DataAt(bank, e[2])]
           n == StoredSize[DataAt(bank, f[2])]
<1>1. e[2] \in Nat /\ f[2] \in Nat /\ e = <<e[1], e[2]>> /\ f = <<f[1], f[2]>>
  BY EntryFacts
<1>2. m \in Nat /\ n \in Nat
  BY PayloadSpanFacts, StoredFacts
<1>3. /\ PayloadSpan(bank, e) = e[2] .. e[2] + m - 1
      /\ PayloadSpan(bank, f) = f[2] .. f[2] + n - 1
  BY DEF PayloadSpan, SpanAt, Span
<1>4. /\ bank[e[2]] = <<"stream", e[1], DataAt(bank, e[2]), DestinationAt(bank, e[2])>>
      /\ bank[f[2]] = <<"stream", f[1], DataAt(bank, f[2]), DestinationAt(bank, f[2])>>
  BY PayloadSpanFacts
<1>5. f[2] \in PayloadSpan(bank, e) => f[2] = e[2]
  BY <1>4, PayloadSpanFacts
<1>6. e[2] \in PayloadSpan(bank, f) => f[2] = e[2]
  BY <1>4, PayloadSpanFacts
<1> HIDE DEF m, n
<1>7. e[2] = f[2]
  BY <1>1, <1>2, <1>3, <1>5, <1>6
<1>8. e[1] = f[1]
  BY <1>4, <1>7
<1> QED  BY <1>1, <1>7, <1>8

LEMMA TableFacts ==
  ASSUME NEW bank, IsBank(bank), NEW h \in Headers(bank)
  PROVE  /\ h \in Cell /\ bank[h][2] \in Nat /\ bank[h][3] \in Nat \ {0}
         /\ Table(bank, h) = bank[h][2] .. bank[h][2] + bank[h][3] - 1
         /\ Table(bank, h) \subseteq Cell
<1>1. /\ h \in Cell /\ bank[h][2] \in Nat /\ bank[h][3] \in Nat \ {0}
      /\ bank[h][2] + bank[h][3] <= BankCells
  BY DEF IsBank
<1>2. Table(bank, h) = bank[h][2] .. bank[h][2] + bank[h][3] - 1
  BY DEF Table, Span
<1>3. BankCells \in Nat
  BY BankAssumption
<1> QED  BY <1>1, <1>2, <1>3 DEF Cell

(* The bank of a package is one, if its payloads are there.                *)
LEMMA SourceIsBank ==
  ASSUME NEW p \in Templates, ReadsAsBank(p), Extractable(BuildBank(p))
  PROVE  IsBank(BuildBank(p))
<1> DEFINE bank == BuildBank(p)
<1>1. bank = [c \in Cell |-> bank[c]]
  <2> DEFINE content(c) ==
        IF c \notin Mapped(p) THEN Blank
        ELSE LET i == CHOOSE k \in 1 .. Len(p.regions) :
                         c \in Span(p.regions[k].to, p.regions[k].size)
             IN Contents(p, i)[c - p.regions[i].to + 1]
  <2>1. bank = [c \in Cell |-> content(c)]
    BY DEF BuildBank
  <2> HIDE DEF content, bank
  <2> QED  BY <2>1
<1> HIDE DEF bank
<1>2. ASSUME NEW h \in Headers(bank)
      PROVE  /\ h \in Cell /\ bank[h][2] \in Nat /\ bank[h][3] \in Nat \ {0}
             /\ bank[h][2] + bank[h][3] <= BankCells
  <2>1. h \in HeaderCells /\ bank[h][1] = "header" /\ bank[h][3] > 0
        /\ bank[h][2] + bank[h][3] <= BankCells
    BY DEF Headers
  <2>2. h \in Cell /\ bank[h][2] \in Nat /\ bank[h][3] \in Nat
    BY <2>1, BankAssumption DEF bank
  <2> QED  BY <2>1, <2>2
<1> QED  BY <1>1, <1>2 DEF IsBank, bank

-----------------------------------------------------------------------------
(* The composition.                                                        *)
LEMMA TablesWritten ==
  ASSUME NEW bank, IsBank(bank), TablesClear(bank), NEW records, NEW files,
         \A g, h \in Headers(bank) : TableAt(bank, g) = TableAt(bank, h) => records[g] = records[h]
  PROVE  Progress(bank, records, files, WithTables(bank, records), Inventory(bank))
<1> DEFINE out == WithTables(bank, records)
           content(c) == IF TablesOver(bank, c) = {} THEN bank[c]
                         ELSE records[LastOver(bank, c)][c - TableAt(bank, LastOver(bank, c)) + 1]
<1>1. out = [c \in Cell |-> content(c)]
  BY DEF WithTables
<1> HIDE DEF content, out
<1>2. out = [c \in Cell |-> out[c]]
  BY <1>1
<1>3. \A c \in Cell : out[c] = content(c)
  BY <1>1
<1>4. \A c \in Cell : ~InTable(bank, c) => out[c] = bank[c]
  BY <1>3 DEF content, InTable, TablesOver
<1>5. ASSUME NEW h \in Headers(bank), ~SharesCells(bank, h), NEW k \in 1 .. bank[h][3]
      PROVE  out[bank[h][2] + k - 1] = records[h][k]
  <2> DEFINE c == bank[h][2] + k - 1
             win == LastOver(bank, c)
  <2>1. c \in Table(bank, h) /\ c \in Cell /\ c - bank[h][2] + 1 = k
    BY TableFacts
  <2> HIDE DEF c
  <2>2. h \in TablesOver(bank, c)
    BY <2>1 DEF TablesOver
  <2>3. \A g \in TablesOver(bank, c) : TableAt(bank, g) = TableAt(bank, h)
    BY <1>5, <2>1 DEF TablesOver, SharesCells
  <2>4. \A g \in TablesOver(bank, c) : TableAt(bank, g) <= TableAt(bank, h)
    BY <2>3, TableFacts DEF TableAt
  <2>5. win \in TablesOver(bank, c)
    BY <2>2, <2>4 DEF LastOver
  <2>6. TableAt(bank, win) = TableAt(bank, h) /\ win \in Headers(bank)
    BY <2>3, <2>5 DEF TablesOver
  <2>7. records[win] = records[h]
    BY <2>6
  <2>8. out[c] = records[win][c - TableAt(bank, win) + 1]
    BY <1>3, <2>1, <2>2 DEF content
  <2>9. out[c] = records[h][k]
    BY <2>1, <2>6, <2>7, <2>8 DEF TableAt
  <2> QED  BY <2>9 DEF c
<1>6. ASSUME NEW c \in Protected(bank)
      PROVE  out[c] = bank[c]
  <2>1. c \in Cell
    BY BankAssumption, TableFacts DEF Protected
  <2>2. ~InTable(bank, c)
    BY DEF TablesClear, InTable
  <2> QED  BY <2>1, <2>2, <1>4
<1>7. \A e \in Inventory(bank) : \A c \in PayloadSpan(bank, e) : out[c] = bank[c] \/ InTable(bank, c)
  BY <1>4, PayloadSpanFacts DEF IsBank
<1> QED  BY <1>2, <1>4, <1>5, <1>6, <1>7 DEF Progress, out

(* An entry of which neither the file nor the manifest changed stays.      *)
LEMMA UnchangedApplied ==
  ASSUME NEW bank, IsBank(bank), NEW records, NEW files, NEW out, NEW todo, NEW e \in todo,
         Progress(bank, records, files, out, todo), files[e] = DataAt(bank, e[2])
  PROVE  Progress(bank, records, files, out, todo \ {e})
<1>1. e \in Inventory(bank)
  BY DEF Progress
<1>2. ASSUME ~Overwritten(bank, e)
      PROVE  /\ files[e] \in PayloadData
             /\ StoredSize[files[e]] <= StoredSize[DataAt(bank, e[2])]
             /\ Holds(out, e[1], e[2], files[e], DestinationAt(bank, e[2]))
  <2> DEFINE data == DataAt(bank, e[2])
             dest == DestinationAt(bank, e[2])
  <2>1. /\ data \in PayloadData /\ e[2] \in Nat /\ StoredSize[data] \in Nat
        /\ Holds(bank, e[1], e[2], data, dest)
    BY <1>1, PayloadSpanFacts, EntryFacts, StoredFacts DEF IsBank
  <2>2. PayloadSpan(bank, e) = e[2] .. e[2] + StoredSize[data] - 1
    BY DEF PayloadSpan, SpanAt, Span
  <2>3. \A c \in PayloadSpan(bank, e) : out[c] = bank[c]
    BY <1>2 DEF Progress, Overwritten, InTable
  <2> HIDE DEF data, dest
  <2>4. ASSUME NEW k \in 1 .. StoredSize[data]
        PROVE  out[e[2] + k - 1] = Stream(e[1], data, dest)[k]
    <3>1. e[2] + k - 1 \in PayloadSpan(bank, e)
      BY <2>1, <2>2
    <3> QED  BY <3>1, <2>1, <2>3 DEF Holds
  <2>5. Holds(out, e[1], e[2], data, dest)
    BY <2>1, <2>4 DEF Holds
  <2> QED  BY <2>1, <2>5 DEF data, dest
<1> QED  BY <1>2 DEF Progress

(* One that is replaced stays in its span, so that nothing else moves.     *)
LEMMA ReplacedFacts ==
  ASSUME NEW bank, IsBank(bank), NEW records, NEW files, NEW out, NEW todo, NEW e \in todo,
         Progress(bank, records, files, out, todo), NEW new \in PayloadData,
         Replaceable(bank, out, e, new)
  PROVE  /\ SpanAt(out, e[2]) = PayloadSpan(bank, e)
         /\ StoredSize[new] <= StoredSize[DataAt(bank, e[2])]
         /\ Holds(Replaced(out, e, new), e[1], e[2], new, DestinationAt(bank, e[2]))
         /\ Replaced(out, e, new) = [c \in Cell |-> Replaced(out, e, new)[c]]
         /\ \A c \in Cell \ PayloadSpan(bank, e) : Replaced(out, e, new)[c] = out[c]
<1> DEFINE at == e[2]
           data == DataAt(bank, at)
           dest == DestinationAt(bank, at)
           next == Replaced(out, e, new)
<1>1. e \in Inventory(bank)
  BY DEF Progress
<1>2. /\ at \in Nat /\ at \in Cell /\ at \in PayloadSpan(bank, e) /\ data \in PayloadData
      /\ at + StoredSize[data] <= BankCells
  BY <1>1, EntryFacts, PayloadSpanFacts DEF IsBank
<1>3. /\ StoredSize[data] \in Nat /\ StoredSize[new] \in Nat /\ StoredSize[new] > 0
  BY <1>2, StoredFacts
<1>4. at \in SpanAt(out, at)
  <2>1. DataAt(out, at) \in PayloadData
    BY <1>2, ParseFacts DEF Replaceable
  <2>2. StoredSize[DataAt(out, at)] \in Nat /\ StoredSize[DataAt(out, at)] > 0
    BY <2>1, StoredFacts
  <2> QED  BY <1>2, <2>2, SpanFacts DEF SpanAt
<1>5. ~InTable(bank, at)
  BY <1>4 DEF Replaceable, Locked, InTable
<1>6. out[at] = bank[at]
  BY <1>2, <1>5 DEF Progress
<1>7. DataAt(out, at) = data /\ DestinationAt(out, at) = dest
  BY <1>6 DEF DataAt, DestinationAt
<1>8. SpanAt(out, at) = PayloadSpan(bank, e) /\ StoredSize[new] <= StoredSize[data]
  BY <1>7 DEF PayloadSpan, SpanAt, Replaceable, Fits
<1>9. PayloadSpan(bank, e) = at .. at + StoredSize[data] - 1
  BY DEF PayloadSpan, SpanAt, Span
<1>10. Span(at, StoredSize[new]) = at .. at + StoredSize[new] - 1
  BY DEF Span
<1> DEFINE content(c) ==
      CASE c \in Span(at, StoredSize[new]) -> Stream(e[1], new, dest)[c - at + 1]
        [] c \in SpanAt(out, at) \ Span(at, StoredSize[new]) -> Blank
        [] OTHER -> out[c]
<1>11. next = [c \in Cell |-> content(c)]
  BY <1>7 DEF Replaced
<1> HIDE DEF next, at, data, dest
<1>12. ASSUME NEW c \in Cell, c \in Span(at, StoredSize[new])
       PROVE  next[c] = Stream(e[1], new, dest)[c - at + 1]
  <2>1. next[c] = content(c)
    BY <1>11
  <2> QED  BY <1>12, <2>1
<1>13. ASSUME NEW c \in Cell, c \notin PayloadSpan(bank, e)
       PROVE  next[c] = out[c]
  <2>1. next[c] = content(c)
    BY <1>11
  <2>2. c \notin Span(at, StoredSize[new])
    BY <1>13, <1>2, <1>3, <1>8, <1>9, <1>10
  <2>3. c \notin SpanAt(out, at)
    BY <1>13, <1>8
  <2> QED  BY <2>1, <2>2, <2>3
<1>14. next = [c \in Cell |-> next[c]]
  <2> HIDE DEF content
  <2> QED  BY <1>11
<1>15. ASSUME NEW k \in 1 .. StoredSize[new]
       PROVE  next[at + k - 1] = Stream(e[1], new, dest)[k]
  <2>1. /\ at + k - 1 \in Cell /\ at + k - 1 \in Span(at, StoredSize[new])
        /\ (at + k - 1) - at + 1 = k
    BY <1>2, <1>3, <1>8, <1>10, BankAssumption DEF Cell
  <2> QED  BY <2>1, <1>12
<1>16. at + StoredSize[new] <= BankCells
  BY <1>2, <1>3, <1>8, BankAssumption
<1>17. Holds(next, e[1], at, new, dest)
  BY <1>15, <1>16 DEF Holds
<1> QED  BY <1>8, <1>13, <1>14, <1>17 DEF next, at, data, dest

LEMMA ReplacedApplied ==
  ASSUME NEW bank, IsBank(bank), NEW records, NEW files, NEW out, NEW todo, NEW e \in todo,
         Progress(bank, records, files, out, todo), files[e] \in PayloadData,
         Replaceable(bank, out, e, files[e])
  PROVE  Progress(bank, records, files, Replaced(out, e, files[e]), todo \ {e})
<1> DEFINE new == files[e]
           next == Replaced(out, e, new)
<1>1. e \in Inventory(bank) /\ e[2] \in Nat /\ Extractable(bank)
  BY EntryFacts DEF Progress, IsBank
<1>2. /\ SpanAt(out, e[2]) = PayloadSpan(bank, e)
      /\ StoredSize[new] <= StoredSize[DataAt(bank, e[2])]
      /\ Holds(next, e[1], e[2], new, DestinationAt(bank, e[2]))
      /\ next = [c \in Cell |-> next[c]]
      /\ \A c \in Cell \ PayloadSpan(bank, e) : next[c] = out[c]
  BY ReplacedFacts
<1> HIDE DEF next
<1>3. PayloadSpan(bank, e) \cap Locked(bank) = {}
  BY <1>2 DEF Replaceable
<1>4. ASSUME NEW h \in Headers(bank), ~SharesCells(bank, h), NEW k \in 1 .. bank[h][3]
      PROVE  next[bank[h][2] + k - 1] = records[h][k]
  <2>1. bank[h][2] + k - 1 \in Table(bank, h) /\ bank[h][2] + k - 1 \in Cell
    BY TableFacts
  <2>2. bank[h][2] + k - 1 \notin PayloadSpan(bank, e)
    BY <2>1, <1>3 DEF Locked
  <2>3. next[bank[h][2] + k - 1] = out[bank[h][2] + k - 1]
    BY <2>1, <2>2, <1>2
  <2> QED  BY <2>3, <1>4 DEF Progress
<1>5. ASSUME NEW c \in Protected(bank)
      PROVE  next[c] = bank[c]
  <2>1. c \in Cell
    BY BankAssumption, TableFacts DEF Protected
  <2>2. c \notin PayloadSpan(bank, e)
    BY <1>3 DEF Locked
  <2> QED  BY <2>1, <2>2, <1>2 DEF Progress
<1>6. ASSUME NEW c \in Cell
      PROVE  next[c] = bank[c] \/ InTable(bank, c) \/ Listed(bank, c)
  <2>1. CASE c \in PayloadSpan(bank, e)
    BY <2>1, <1>1 DEF Listed
  <2>2. CASE c \notin PayloadSpan(bank, e)
    BY <2>2, <1>2 DEF Progress
  <2> QED  BY <2>1, <2>2
<1>7. ASSUME NEW f \in Inventory(bank), f # e, NEW c \in PayloadSpan(bank, f)
      PROVE  next[c] = out[c]
  <2>1. c \notin PayloadSpan(bank, e)
    BY <1>1, <1>7, SpansApart
  <2>2. c \in Cell
    BY <1>1, PayloadSpanFacts
  <2> QED  BY <2>1, <2>2, <1>2
<1>8. ASSUME NEW f \in todo \ {e}, NEW c \in PayloadSpan(bank, f)
      PROVE  next[c] = bank[c] \/ InTable(bank, c)
  <2>1. f \in Inventory(bank) /\ f # e
    BY DEF Progress
  <2> QED  BY <2>1, <1>7 DEF Progress
<1>9. ASSUME NEW f \in Inventory(bank) \ (todo \ {e}), ~Overwritten(bank, f)
      PROVE  /\ files[f] \in PayloadData
             /\ StoredSize[files[f]] <= StoredSize[DataAt(bank, f[2])]
             /\ Holds(next, f[1], f[2], files[f], DestinationAt(bank, f[2]))
  <2>1. CASE f = e
    BY <2>1, <1>2
  <2>2. CASE f # e
    <3> DEFINE data == files[f]
               dest == DestinationAt(bank, f[2])
               size == StoredSize[DataAt(bank, f[2])]
    <3>1. data \in PayloadData /\ StoredSize[data] <= size /\ Holds(out, f[1], f[2], data, dest)
      BY <2>2, <1>9 DEF Progress
    <3>2. f[2] \in Nat /\ StoredSize[data] \in Nat /\ size \in Nat
      BY <3>1, <1>1, EntryFacts, PayloadSpanFacts, StoredFacts
    <3>3. PayloadSpan(bank, f) = f[2] .. f[2] + size - 1
      BY DEF PayloadSpan, SpanAt, Span
    <3> HIDE DEF data, dest, size
    <3>4. ASSUME NEW k \in 1 .. StoredSize[data]
          PROVE  next[f[2] + k - 1] = Stream(f[1], data, dest)[k]
      <4>1. f[2] + k - 1 \in PayloadSpan(bank, f)
        BY <3>1, <3>2, <3>3
      <4>2. next[f[2] + k - 1] = out[f[2] + k - 1]
        BY <4>1, <2>2, <1>7
      <4> QED  BY <4>2, <3>1 DEF Holds
    <3>5. Holds(next, f[1], f[2], data, dest)
      BY <3>1, <3>4 DEF Holds
    <3> QED  BY <3>1, <3>5 DEF data, dest, size
  <2> QED  BY <2>1, <2>2
<1>10. todo \ {e} \subseteq Inventory(bank)
  BY DEF Progress
<1> QED  BY <1>2, <1>4, <1>5, <1>6, <1>8, <1>9, <1>10 DEF Progress, next

(* The repair of the section changes its header only, which is no payload  *)
(* and in no table.                                                        *)
LEMMA RepairFacts ==
  ASSUME NEW bank, IsBank(bank), TablesClear(bank), NEW records, NEW files, NEW out,
         Progress(bank, records, files, out, {})
  PROVE  /\ Repaired(out) = [c \in Cell |-> Repaired(out)[c]]
         /\ HasSection(Repaired(out)) <=> HasSection(bank)
         /\ \A c \in Cell : c # SectionCell => Repaired(out)[c] = out[c]
         /\ ~HasSection(bank) => Repaired(out) = out
<1> DEFINE next == Repaired(out)
<1>1. SectionCell \in Cell /\ out[SectionCell] = bank[SectionCell]
  BY BankAssumption DEF Progress, Protected
<1>2. out = [c \in Cell |-> out[c]]
  BY DEF Progress
<1>3. HasSection(out) <=> HasSection(bank)
  BY <1>1 DEF HasSection
<1>4. CASE ~HasSection(bank)
  <2>1. next = out
    BY <1>3, <1>4 DEF Repaired
  <2> QED  BY <2>1, <1>2, <1>3, <1>4
<1>5. CASE HasSection(bank)
  <2> DEFINE header == <<"section", Checksum(out), Covered(out)>>
  <2>1. next = [out EXCEPT ![SectionCell] = header]
    BY <1>3, <1>5 DEF Repaired
  <2>2. header[1] = "section"
    OBVIOUS
  <2> HIDE DEF header, next
  <2>3. next[SectionCell] = header /\ \A c \in Cell : c # SectionCell => next[c] = out[c]
    BY <2>1, <1>1, <1>2
  <2>4. next = [c \in Cell |-> next[c]]
    BY <2>1, <1>2
  <2>5. HasSection(next)
    BY <2>2, <2>3 DEF HasSection
  <2> QED  BY <2>3, <2>4, <2>5, <1>5 DEF next
<1> QED  BY <1>4, <1>5

LEMMA RepairCompletes ==
  ASSUME NEW bank, IsBank(bank), TablesClear(bank), NEW records, NEW files, NEW out,
         Progress(bank, records, files, out, {}),
         \A h \in Headers(bank) : records[h] = [k \in 1 .. bank[h][3] |-> records[h][k]]
  PROVE  /\ \A h \in Headers(bank) :
              ~SharesCells(bank, h) => RecordsAt(Repaired(out), h) = records[h]
         /\ \A e \in Inventory(bank) : ~Overwritten(bank, e) =>
              /\ Holds(Repaired(out), e[1], e[2], files[e], DestinationAt(bank, e[2]))
              /\ Expands(files[e], DestinationAt(bank, e[2]))
                   => ParsesAt(Repaired(out), e[1], e[2])
         /\ HasSection(bank) <=> HasSection(Repaired(out))
         /\ \A c \in Cell : Repaired(out)[c] # bank[c] =>
              c = SectionCell \/ InTable(bank, c) \/ Listed(bank, c)
<1> DEFINE next == Repaired(out)
<1>1. /\ next = [c \in Cell |-> next[c]]
      /\ HasSection(next) <=> HasSection(bank)
      /\ \A c \in Cell : c # SectionCell => next[c] = out[c]
      /\ ~HasSection(bank) => next = out
  BY RepairFacts
<1> HIDE DEF next
<1>2. ASSUME NEW h \in Headers(bank), ~SharesCells(bank, h)
      PROVE  RecordsAt(next, h) = records[h]
  <2>1. h \in Cell /\ bank[h][1] = "header"
    BY TableFacts DEF Headers
  <2>2. HasSection(bank) => h # SectionCell
    BY <2>1 DEF HasSection
  <2>3. out[h] = bank[h]
    BY DEF Progress, Protected
  <2>4. next[h] = bank[h]
    BY <2>1, <2>2, <2>3, <1>1
  <2>5. ASSUME NEW k \in 1 .. bank[h][3]
        PROVE  next[bank[h][2] + k - 1] = records[h][k]
    <3>1. bank[h][2] + k - 1 \in Table(bank, h) /\ bank[h][2] + k - 1 \in Cell
      BY TableFacts
    <3>2. bank[h][2] + k - 1 # SectionCell
      BY <3>1 DEF TablesClear, Protected
    <3>3. next[bank[h][2] + k - 1] = out[bank[h][2] + k - 1]
      BY <3>1, <3>2, <1>1
    <3> QED  BY <3>3, <1>2 DEF Progress
  <2>6. RecordsAt(next, h) = [k \in 1 .. bank[h][3] |-> next[bank[h][2] + k - 1]]
    BY <2>4 DEF RecordsAt
  <2>7. [k \in 1 .. bank[h][3] |-> next[bank[h][2] + k - 1]] = [k \in 1 .. bank[h][3] |-> records[h][k]]
    BY <2>5
  <2>8. records[h] = [k \in 1 .. bank[h][3] |-> records[h][k]]
    OBVIOUS
  <2> QED  BY <2>6, <2>7, <2>8
<1>3. ASSUME NEW e \in Inventory(bank), ~Overwritten(bank, e)
      PROVE  /\ Holds(next, e[1], e[2], files[e], DestinationAt(bank, e[2]))
             /\ Expands(files[e], DestinationAt(bank, e[2])) => ParsesAt(next, e[1], e[2])
  <2> DEFINE data == files[e]
             dest == DestinationAt(bank, e[2])
             size == StoredSize[DataAt(bank, e[2])]
  <2>1. data \in PayloadData /\ StoredSize[data] <= size /\ Holds(out, e[1], e[2], data, dest)
    BY <1>3 DEF Progress
  <2>2. /\ e[2] \in Nat /\ StoredSize[data] \in Nat /\ size \in Nat /\ e[2] + size <= BankCells
        /\ dest \in Destinations(e[1])
    BY <2>1, EntryFacts, PayloadSpanFacts, StoredFacts DEF IsBank
  <2>3. PayloadSpan(bank, e) = e[2] .. e[2] + size - 1
    BY DEF PayloadSpan, SpanAt, Span
  <2> HIDE DEF data, dest, size
  <2>4. ASSUME NEW k \in 1 .. StoredSize[data]
        PROVE  next[e[2] + k - 1] = Stream(e[1], data, dest)[k]
    <3>1. e[2] + k - 1 \in PayloadSpan(bank, e)
      BY <2>1, <2>2, <2>3
    <3>2. e[2] + k - 1 \in Cell /\ bank[e[2] + k - 1][1] \in {"stream", "body"}
      BY <3>1, PayloadSpanFacts DEF IsBank
    <3>3. HasSection(bank) => e[2] + k - 1 # SectionCell
      BY <3>2 DEF HasSection
    <3>4. next[e[2] + k - 1] = out[e[2] + k - 1]
      BY <3>2, <3>3, <1>1
    <3> QED  BY <3>4, <2>1 DEF Holds
  <2>5. Holds(next, e[1], e[2], data, dest)
    BY <2>1, <2>4 DEF Holds
  <2>6. Expands(data, dest) => ParsesAt(next, e[1], e[2])
    BY <2>1, <2>2, <2>5, HeldParses
  <2> QED  BY <2>5, <2>6 DEF data, dest
<1>4. ASSUME NEW c \in Cell, next[c] # bank[c]
      PROVE  c = SectionCell \/ InTable(bank, c) \/ Listed(bank, c)
  BY <1>1, <1>4 DEF Progress
<1> QED  BY <1>1, <1>2, <1>3, <1>4 DEF next

-----------------------------------------------------------------------------
(* The invariant is kept.                                                  *)
LEMMA EditStarts == BankEditInit => EditInv
<1> SUFFICES ASSUME BankEditInit
             PROVE  EditInv
  OBVIOUS
<1>1. DOMAIN NoDir.files = {} /\ NoDir.whole = {}
  BY DEF NoDir
<1>2. 0 \in 0 .. MaxBankEdits
  BY BankAssumption
<1>3. BankEditTypeOK
  BY <1>1, <1>2 DEF BankEditInit, BankEditTypeOK
<1>4. DirectoryInv
  BY DEF BankEditInit, DirectoryInv, NoDir
<1> QED  BY <1>1, <1>3, <1>4 DEF BankEditInit, EditInv, StartDirInv, ExtractInv, ManifestInv,
                               ComposeInv, PayloadsInv, OutInv, ComposedIsTheEdit

(* What the composition may rely on.                                       *)
LEMMA ComposeFacts ==
  ASSUME EditInv, zxStep \in {"tables", "payloads"}
  PROVE  /\ IsBank(zxDir.bank) /\ TablesClear(zxDir.bank)
         /\ \A g, h \in Headers(zxDir.bank) : TableAt(zxDir.bank, g) = TableAt(zxDir.bank, h)
              => zxDir.manifest.records[g] = zxDir.manifest.records[h]
         /\ \A h \in Headers(zxDir.bank) : zxDir.manifest.records[h]
              = [k \in 1 .. zxDir.bank[h][3] |-> zxDir.manifest.records[h][k]]
         /\ DOMAIN zxDir.manifest.payloads = Inventory(zxDir.bank)
         /\ \A e \in Inventory(zxDir.bank) :
              /\ zxDir.manifest.payloads[e] = DataAt(zxDir.bank, e[2])
              /\ zxDir.files[e] \in PayloadData
<1>1. /\ Loads /\ ValidManifest(zxDir.manifest, zxDir.bank) /\ TablesClear(zxDir.bank)
  BY DEF EditInv, ComposeInv
<1>2. "manifest" \in zxDir.whole
  BY <1>1 DEF Loads
<1>3. /\ zxTemplate \in Templates /\ ReadsAsBank(zxTemplate)
      /\ DOMAIN zxDir.manifest.payloads \subseteq DOMAIN zxDir.files
      /\ \A e \in DOMAIN zxDir.files : zxDir.files[e] \in PayloadData
      /\ zxDir.manifest.digest = SourceBank
      /\ \A h \in Headers(SourceBank) : zxDir.manifest.records[h]
           = [k \in 1 .. SourceBank[h][3] |-> zxDir.manifest.records[h][k]]
  BY <1>2 DEF EditInv, ManifestInv
<1>4. /\ zxDir.manifest.digest = zxDir.bank /\ Extractable(zxDir.bank)
      /\ zxDir.manifest.payloads = Manifest(zxDir.bank).payloads
      /\ \A g, h \in Headers(zxDir.bank) : TableAt(zxDir.bank, g) = TableAt(zxDir.bank, h)
           => zxDir.manifest.records[g] = zxDir.manifest.records[h]
  BY <1>1 DEF ValidManifest
<1>5. zxDir.bank = SourceBank
  BY <1>3, <1>4
<1>6. IsBank(zxDir.bank)
  BY <1>3, <1>4, <1>5, SourceIsBank DEF SourceBank
<1>7. zxDir.manifest.payloads = [e \in Inventory(zxDir.bank) |-> DataAt(zxDir.bank, e[2])]
  BY <1>4 DEF Manifest
<1>8. DOMAIN zxDir.manifest.payloads = Inventory(zxDir.bank)
  BY <1>7
<1>9. \A e \in Inventory(zxDir.bank) : /\ zxDir.manifest.payloads[e] = DataAt(zxDir.bank, e[2])
                                       /\ zxDir.files[e] \in PayloadData
  BY <1>3, <1>7, <1>8
<1> QED  BY <1>1, <1>3, <1>4, <1>5, <1>6, <1>8, <1>9

(* What an extraction takes from the bank is contents of a payload.        *)
LEMMA SourceData ==
  ASSUME NEW bank, NEW written, NEW e, NextPayload(bank, written, e)
  PROVE  /\ e \in Inventory(bank) \ written
         /\ DataAt(bank, e[2]) \in PayloadData
<1>1. /\ Type8At(bank) \subseteq Cell /\ e \in Inventory(bank) \ written
      /\ ParsesAt(bank, e[1], e[2])
  BY DEF NextPayload
<1>2. e[2] \in Cell
  BY <1>1 DEF Inventory, NestedAt
<1>3. e[2] \in Nat
  BY <1>2, BankAssumption DEF Cell
<1> QED  BY <1>1, <1>3, ParseFacts

(* A step that leaves the directory alone, by where it leads.              *)
LEMMA DirectoryKept ==
  EditInv /\ UNCHANGED <<zxTemplate, zxDir>> => DirectoryInv' /\ ManifestInv'
  BY DEF EditInv, DirectoryInv, ManifestInv, SourceBank

LEMMA StartExtractionKeeps == EditInv /\ StartExtraction => EditInv'
<1> SUFFICES ASSUME EditInv, StartExtraction
             PROVE  EditInv'
  OBVIOUS
<1>1. /\ zxStep = "start" /\ zxTemplate' \in Templates
      /\ zxStep' \in {"extract", "refused"}
      /\ zxStep' = "extract" => ReadsAsBank(zxTemplate')
      /\ zxDir' = NoDir /\ zxOut' = zxOut /\ zxEdits' = zxEdits
  BY DEF StartExtraction, EditInv, StartDirInv
<1>2. DOMAIN NoDir.files = {} /\ NoDir.whole = {} /\ DOMAIN NoDir = {"files", "bank", "manifest", "whole"}
  BY DEF NoDir
<1>3. BankEditTypeOK'
  BY <1>1, <1>2 DEF EditInv, BankEditTypeOK
<1>4. DirectoryInv' /\ ManifestInv'
  BY <1>1, <1>2 DEF DirectoryInv, ManifestInv
<1>5. ExtractInv'
  BY <1>1, <1>2 DEF ExtractInv
<1> QED  BY <1>1, <1>3, <1>4, <1>5 DEF EditInv, StartDirInv, ComposeInv, PayloadsInv, OutInv,
                                     ComposedIsTheEdit

LEMMA ExtractFileKeeps == EditInv /\ ExtractFile => EditInv'
<1> SUFFICES ASSUME EditInv, ExtractFile
             PROVE  EditInv'
  OBVIOUS
<1>1. PICK e \in Inventory(SourceBank) :
        /\ NextPayload(SourceBank, DOMAIN zxDir.files, e)
        /\ zxDir' = [zxDir EXCEPT !.files = WrittenWith(@, e, DataAt(SourceBank, e[2]))]
  BY DEF ExtractFile
<1>2. /\ zxStep = "extract" /\ zxStep' = zxStep
      /\ e \notin DOMAIN zxDir.files /\ DataAt(SourceBank, e[2]) \in PayloadData
      /\ zxTemplate' = zxTemplate /\ zxOut' = zxOut /\ zxEdits' = zxEdits
  BY <1>1, SourceData DEF ExtractFile
<1>3. DOMAIN zxDir = {"files", "bank", "manifest", "whole"}
  BY DEF EditInv, DirectoryInv
<1>4. /\ zxDir'.files = [f \in DOMAIN zxDir.files \cup {e} |->
                           IF f = e THEN DataAt(SourceBank, e[2]) ELSE zxDir.files[f]]
      /\ zxDir'.whole = zxDir.whole
      /\ DOMAIN zxDir' = {"files", "bank", "manifest", "whole"}
  BY <1>1, <1>3 DEF WrittenWith
<1>5. /\ zxTemplate \in Templates /\ ReadsAsBank(zxTemplate)
      /\ zxDir.whole \subseteq {"bank"} /\ "bank" \notin zxDir.whole
      /\ \A f \in DOMAIN zxDir.files : zxDir.files[f] \in PayloadData
  BY <1>1, <1>2 DEF EditInv, ExtractInv
<1>6. \A f \in DOMAIN zxDir'.files : zxDir'.files[f] \in PayloadData
  BY <1>2, <1>4, <1>5
<1>7. BankEditTypeOK'
  BY <1>2, <1>6 DEF EditInv, BankEditTypeOK
<1>8. ExtractInv' /\ ManifestInv' /\ DirectoryInv'
  BY <1>2, <1>4, <1>5, <1>6 DEF ExtractInv, ManifestInv, DirectoryInv
<1> QED  BY <1>2, <1>7, <1>8 DEF EditInv, StartDirInv, ComposeInv, PayloadsInv, OutInv, ComposedIsTheEdit

LEMMA ExtractBankKeeps == EditInv /\ ExtractBank => EditInv'
<1> SUFFICES ASSUME EditInv, ExtractBank
             PROVE  EditInv'
  OBVIOUS
<1>1. /\ zxStep = "extract" /\ Extractable(SourceBank) /\ zxStep' = zxStep
      /\ DOMAIN zxDir.files = Inventory(SourceBank)
      /\ zxDir' = [zxDir EXCEPT !.bank = SourceBank, !.whole = {"bank"}]
      /\ zxTemplate' = zxTemplate /\ zxOut' = zxOut /\ zxEdits' = zxEdits
  BY DEF ExtractBank
<1>2. DOMAIN zxDir = {"files", "bank", "manifest", "whole"}
  BY DEF EditInv, DirectoryInv
<1>3. /\ zxDir'.files = zxDir.files /\ zxDir'.whole = {"bank"}
      /\ DOMAIN zxDir' = {"files", "bank", "manifest", "whole"}
  BY <1>1, <1>2
<1>4. SourceBank' = SourceBank
  BY <1>1 DEF SourceBank
<1>5. BankEditTypeOK'
  BY <1>1, <1>3 DEF EditInv, BankEditTypeOK
<1>6. ExtractInv' /\ ManifestInv' /\ DirectoryInv'
  BY <1>1, <1>3, <1>4 DEF EditInv, ExtractInv, ManifestInv, DirectoryInv
<1> QED  BY <1>1, <1>5, <1>6 DEF EditInv, StartDirInv, ComposeInv, PayloadsInv, OutInv, ComposedIsTheEdit

LEMMA ExtractManifestKeeps == EditInv /\ ExtractManifest => EditInv'
<1> SUFFICES ASSUME EditInv, ExtractManifest
             PROVE  EditInv'
  OBVIOUS
<1>1. /\ zxStep = "extract" /\ "bank" \in zxDir.whole /\ zxStep' = "extracted"
      /\ zxDir' = [zxDir EXCEPT !.manifest = Manifest(SourceBank),
                                !.whole = @ \cup {"manifest"}]
      /\ zxTemplate' = zxTemplate /\ zxOut' = zxOut /\ zxEdits' = zxEdits
  BY DEF ExtractManifest
<1>2. DOMAIN zxDir = {"files", "bank", "manifest", "whole"}
  BY DEF EditInv, DirectoryInv
<1>3. /\ zxDir'.files = zxDir.files /\ zxDir'.whole = zxDir.whole \cup {"manifest"}
      /\ zxDir'.manifest = Manifest(SourceBank)
      /\ DOMAIN zxDir' = {"files", "bank", "manifest", "whole"}
  BY <1>1, <1>2
<1>4. SourceBank' = SourceBank
  BY <1>1 DEF SourceBank
<1>5. BankEditTypeOK'
  BY <1>1, <1>3 DEF EditInv, BankEditTypeOK
<1>6. /\ zxTemplate \in Templates /\ ReadsAsBank(zxTemplate)
      /\ DOMAIN zxDir.files = Inventory(SourceBank)
      /\ \A e \in DOMAIN zxDir.files : zxDir.files[e] \in PayloadData
  BY <1>1 DEF EditInv, ExtractInv
<1> DEFINE m == Manifest(SourceBank)
<1>7. /\ DOMAIN m = {"records", "payloads", "digest"} /\ m.digest = SourceBank
      /\ DOMAIN m.payloads = Inventory(SourceBank)
      /\ DOMAIN m.records = Headers(SourceBank)
      /\ \A h \in Headers(SourceBank) : m.records[h] = RecordsAt(SourceBank, h)
  BY DEF Manifest
<1> HIDE DEF m
<1>8. ASSUME NEW h \in Headers(SourceBank)
      PROVE  m.records[h] = [k \in 1 .. SourceBank[h][3] |-> m.records[h][k]]
  BY <1>7 DEF RecordsAt
<1>9. zxDir'.manifest = m
  BY <1>3 DEF m
<1>10. ManifestInv'
  BY <1>1, <1>3, <1>4, <1>6, <1>7, <1>8, <1>9 DEF ManifestInv
<1>11. DirectoryInv'
  BY <1>3 DEF DirectoryInv
<1> QED  BY <1>1, <1>5, <1>10, <1>11 DEF EditInv, StartDirInv, ExtractInv, ComposeInv, PayloadsInv,
                                       OutInv, ComposedIsTheEdit

LEMMA ExtractionStopsKeeps == EditInv /\ ExtractionStops => EditInv'
<1> SUFFICES ASSUME EditInv, ExtractionStops
             PROVE  EditInv'
  OBVIOUS
<1>1. /\ zxStep = "extract" /\ zxStep' = "extracted"
      /\ zxTemplate' = zxTemplate /\ zxOut' = zxOut /\ zxEdits' = zxEdits
  BY DEF ExtractionStops
<1>2. DOMAIN zxDir = {"files", "bank", "manifest", "whole"}
  BY DEF EditInv, DirectoryInv
<1>3. /\ zxDir.whole \subseteq {"bank"}
      /\ \A e \in DOMAIN zxDir.files : zxDir.files[e] \in PayloadData
  BY <1>1 DEF EditInv, ExtractInv
<1>4. /\ \A f \in DOMAIN zxDir'.files : zxDir'.files[f] \in PayloadData \cup {Torn}
      /\ zxDir'.whole = zxDir.whole
      /\ DOMAIN zxDir' = {"files", "bank", "manifest", "whole"}
  <2>1. CASE UNCHANGED zxDir
    BY <2>1, <1>2, <1>3
  <2>2. CASE ~UNCHANGED zxDir
    <3>1. PICK e \in Inventory(SourceBank) :
            zxDir' = [zxDir EXCEPT !.files = WrittenWith(@, e, Torn)]
      BY <2>2 DEF ExtractionStops
    <3>2. /\ zxDir'.files = [f \in DOMAIN zxDir.files \cup {e} |->
                               IF f = e THEN Torn ELSE zxDir.files[f]]
          /\ zxDir'.whole = zxDir.whole
          /\ DOMAIN zxDir' = {"files", "bank", "manifest", "whole"}
      BY <3>1, <1>2 DEF WrittenWith
    <3> QED  BY <3>2, <1>3
  <2> QED  BY <2>1, <2>2
<1>5. BankEditTypeOK'
  BY <1>1, <1>4 DEF EditInv, BankEditTypeOK
<1>6. ManifestInv' /\ DirectoryInv'
  BY <1>3, <1>4 DEF ManifestInv, DirectoryInv
<1> QED  BY <1>1, <1>5, <1>6 DEF EditInv, StartDirInv, ExtractInv, ComposeInv, PayloadsInv,
                               OutInv, ComposedIsTheEdit

(* The edits of a person keep the shape of the manifest.                   *)
LEMMA EditRecordKeeps == EditInv /\ EditRecord => EditInv'
<1> SUFFICES ASSUME EditInv, EditRecord
             PROVE  EditInv'
  OBVIOUS
<1>1. /\ zxStep = "extracted" /\ "manifest" \in zxDir.whole /\ zxEdits < MaxBankEdits
      /\ zxStep' = zxStep /\ zxEdits' = zxEdits + 1
      /\ zxTemplate' = zxTemplate /\ zxOut' = zxOut
  BY DEF EditRecord
<1>2. PICK h \in DOMAIN zxDir.manifest.records, r \in RecordEdits :
        \E k \in 1 .. Len(zxDir.manifest.records[h]) :
          zxDir' = [zxDir EXCEPT !.manifest.records[h][k] = r]
  BY DEF EditRecord
<1>3. PICK k \in 1 .. Len(zxDir.manifest.records[h]) :
        zxDir' = [zxDir EXCEPT !.manifest.records[h][k] = r]
  BY <1>2
<1>4. DOMAIN zxDir = {"files", "bank", "manifest", "whole"}
  BY DEF EditInv, DirectoryInv
<1> DEFINE m == zxDir.manifest
<1>5. /\ zxTemplate \in Templates /\ ReadsAsBank(zxTemplate)
      /\ "bank" \in zxDir.whole
      /\ DOMAIN m = {"records", "payloads", "digest"}
      /\ DOMAIN m.payloads \subseteq DOMAIN zxDir.files
      /\ \A e \in DOMAIN zxDir.files : zxDir.files[e] \in PayloadData
      /\ m.digest = SourceBank /\ DOMAIN m.records = Headers(SourceBank)
      /\ \A g \in Headers(SourceBank) :
           m.records[g] = [j \in 1 .. SourceBank[g][3] |-> m.records[g][j]]
  BY <1>1 DEF EditInv, ManifestInv
<1>6. /\ zxDir'.manifest = [m EXCEPT !.records = [m.records EXCEPT ![h] = [m.records[h] EXCEPT ![k] = r]]]
      /\ zxDir'.files = zxDir.files /\ zxDir'.whole = zxDir.whole
      /\ DOMAIN zxDir' = {"files", "bank", "manifest", "whole"}
  BY <1>3, <1>4
<1> DEFINE edited == [m.records[h] EXCEPT ![k] = r]
<1> HIDE DEF m
<1>7. /\ zxDir'.manifest.records = [m.records EXCEPT ![h] = edited]
      /\ zxDir'.manifest.payloads = m.payloads /\ zxDir'.manifest.digest = m.digest
      /\ DOMAIN zxDir'.manifest = {"records", "payloads", "digest"}
  BY <1>5, <1>6
<1>8. h \in Headers(SourceBank)
  BY <1>2, <1>5 DEF m
<1>9. edited = [j \in 1 .. SourceBank[h][3] |-> edited[j]]
  BY <1>5, <1>8
<1> HIDE DEF edited
<1>10. ASSUME NEW g \in Headers(SourceBank)
       PROVE  zxDir'.manifest.records[g]
                = [j \in 1 .. SourceBank[g][3] |-> zxDir'.manifest.records[g][j]]
  <2>1. CASE g = h
    <3>1. zxDir'.manifest.records[g] = edited
      BY <2>1, <1>5, <1>7
    <3> QED  BY <3>1, <2>1, <1>9
  <2>2. CASE g # h
    <3>1. zxDir'.manifest.records[g] = m.records[g]
      BY <2>2, <1>5, <1>7
    <3> QED  BY <3>1, <1>5
  <2> QED  BY <2>1, <2>2
<1>11. DOMAIN zxDir'.manifest.records = Headers(SourceBank)
  BY <1>5, <1>7
<1>12. SourceBank' = SourceBank
  BY <1>1 DEF SourceBank
<1>13. ManifestInv' /\ DirectoryInv'
  BY <1>1, <1>5, <1>6, <1>7, <1>10, <1>11, <1>12 DEF ManifestInv, DirectoryInv
<1>14. BankEditTypeOK'
  BY <1>1, <1>6, BankAssumption DEF EditInv, BankEditTypeOK
<1> QED  BY <1>1, <1>13, <1>14 DEF EditInv, StartDirInv, ExtractInv, ComposeInv, PayloadsInv,
                                 OutInv, ComposedIsTheEdit

LEMMA EditPayloadKeeps == EditInv /\ EditPayload => EditInv'
<1> SUFFICES ASSUME EditInv, EditPayload
             PROVE  EditInv'
  OBVIOUS
<1>1. /\ zxStep = "extracted" /\ "manifest" \in zxDir.whole /\ zxEdits < MaxBankEdits
      /\ zxStep' = zxStep /\ zxEdits' = zxEdits + 1
      /\ zxTemplate' = zxTemplate /\ zxOut' = zxOut
  BY DEF EditPayload
<1>2. PICK e \in DOMAIN zxDir.files, data \in PayloadData :
        zxDir' = [zxDir EXCEPT !.files[e] = data]
  BY DEF EditPayload
<1>3. DOMAIN zxDir = {"files", "bank", "manifest", "whole"}
  BY DEF EditInv, DirectoryInv
<1>4. /\ zxDir'.files = [zxDir.files EXCEPT ![e] = data]
      /\ zxDir'.manifest = zxDir.manifest /\ zxDir'.whole = zxDir.whole
      /\ DOMAIN zxDir' = {"files", "bank", "manifest", "whole"}
  BY <1>2, <1>3
<1>5. \A f \in DOMAIN zxDir.files : zxDir.files[f] \in PayloadData
  BY <1>1 DEF EditInv, ManifestInv
<1>6. /\ DOMAIN zxDir'.files = DOMAIN zxDir.files
      /\ \A f \in DOMAIN zxDir'.files : zxDir'.files[f] \in PayloadData
  BY <1>4, <1>5
<1>7. SourceBank' = SourceBank
  BY <1>1 DEF SourceBank
<1>8. ManifestInv' /\ DirectoryInv'
  <2>1. ManifestInv
    BY DEF EditInv
  <2>2. ManifestInv'
    BY <2>1, <1>1, <1>4, <1>6, <1>7 DEF ManifestInv
  <2> QED  BY <2>2, <1>4 DEF DirectoryInv
<1>9. BankEditTypeOK'
  BY <1>1, <1>6, BankAssumption DEF EditInv, BankEditTypeOK
<1> QED  BY <1>1, <1>8, <1>9 DEF EditInv, StartDirInv, ExtractInv, ComposeInv, PayloadsInv,
                               OutInv, ComposedIsTheEdit

LEMMA SpoilInventoryKeeps == EditInv /\ SpoilInventory => EditInv'
<1> SUFFICES ASSUME EditInv, SpoilInventory
             PROVE  EditInv'
  OBVIOUS
<1>1. /\ zxStep = "extracted" /\ "manifest" \in zxDir.whole /\ zxEdits < MaxBankEdits
      /\ zxStep' = zxStep /\ zxEdits' = zxEdits + 1
      /\ zxTemplate' = zxTemplate /\ zxOut' = zxOut
  BY DEF SpoilInventory
<1>2. PICK e \in DOMAIN zxDir.manifest.payloads :
        \/ zxDir' = [zxDir EXCEPT !.manifest.payloads = [f \in DOMAIN @ \ {e} |-> @[f]]]
        \/ zxDir' = [zxDir EXCEPT !.bank[e[2]] = Blank]
  BY DEF SpoilInventory
<1>3. DOMAIN zxDir = {"files", "bank", "manifest", "whole"}
  BY DEF EditInv, DirectoryInv
<1>4. SourceBank' = SourceBank
  BY <1>1 DEF SourceBank
<1>5. DOMAIN zxDir.manifest = {"records", "payloads", "digest"}
  BY <1>1 DEF EditInv, ManifestInv
<1>6. /\ zxDir'.files = zxDir.files /\ zxDir'.whole = zxDir.whole
      /\ zxDir'.manifest.records = zxDir.manifest.records
      /\ zxDir'.manifest.digest = zxDir.manifest.digest
      /\ DOMAIN zxDir'.manifest = {"records", "payloads", "digest"}
      /\ DOMAIN zxDir'.manifest.payloads \subseteq DOMAIN zxDir.manifest.payloads
      /\ DOMAIN zxDir' = {"files", "bank", "manifest", "whole"}
  <2>1. CASE zxDir' = [zxDir EXCEPT !.bank[e[2]] = Blank]
    BY <2>1, <1>3, <1>5
  <2>2. CASE zxDir' = [zxDir EXCEPT !.manifest.payloads = [f \in DOMAIN @ \ {e} |-> @[f]]]
    <3> DEFINE m == zxDir.manifest
               left == [f \in DOMAIN m.payloads \ {e} |-> m.payloads[f]]
    <3>1. /\ zxDir'.manifest = [m EXCEPT !.payloads = left]
          /\ zxDir'.files = zxDir.files /\ zxDir'.whole = zxDir.whole
          /\ DOMAIN zxDir' = {"files", "bank", "manifest", "whole"}
      BY <2>2, <1>3
    <3>2. DOMAIN left \subseteq DOMAIN m.payloads
      OBVIOUS
    <3> HIDE DEF left
    <3> QED  BY <3>1, <3>2, <1>5
  <2> QED  BY <1>2, <2>1, <2>2
<1>7. ManifestInv' /\ DirectoryInv'
  BY <1>1, <1>4, <1>6 DEF EditInv, ManifestInv, DirectoryInv
<1>8. BankEditTypeOK'
  BY <1>1, <1>6, BankAssumption DEF EditInv, BankEditTypeOK
<1> QED  BY <1>1, <1>7, <1>8 DEF EditInv, StartDirInv, ExtractInv, ComposeInv, PayloadsInv,
                               OutInv, ComposedIsTheEdit

LEMMA StartComposeKeeps == EditInv /\ StartCompose => EditInv'
<1> SUFFICES ASSUME EditInv, StartCompose
             PROVE  EditInv'
  OBVIOUS
<1>1. /\ zxStep' = "tables" => /\ Loads /\ ValidManifest(zxDir.manifest, zxDir.bank)
                               /\ TablesClear(zxDir.bank)
      /\ zxStep' \in {"tables", "refused"}
      /\ UNCHANGED <<zxTemplate, zxDir, zxOut, zxTodo, zxEdits>>
  BY DEF StartCompose
<1>2. BankEditTypeOK'
  BY <1>1 DEF EditInv, BankEditTypeOK
<1>3. ComposeInv'
  BY <1>1 DEF ComposeInv, Loads
<1> QED  BY <1>1, <1>2, <1>3, DirectoryKept DEF EditInv, StartDirInv, ExtractInv, PayloadsInv,
                                              OutInv, ComposedIsTheEdit

LEMMA WriteTablesKeeps == EditInv /\ WriteTables => EditInv'
<1> SUFFICES ASSUME EditInv, WriteTables
             PROVE  EditInv'
  OBVIOUS
<1>1. /\ zxStep = "tables" /\ zxStep' = "payloads"
      /\ zxOut' = WithTables(zxDir.bank, zxDir.manifest.records)
      /\ zxTodo' = DOMAIN zxDir.manifest.payloads
      /\ zxTemplate' = zxTemplate /\ zxDir' = zxDir /\ zxEdits' = zxEdits
  BY DEF WriteTables
<1>2. Progress(zxDir.bank, zxDir.manifest.records, zxDir.files, zxOut', zxTodo')
  BY <1>1, ComposeFacts, TablesWritten
<1>3. PayloadsInv'
  BY <1>1, <1>2 DEF PayloadsInv
<1>4. OutInv' /\ BankEditTypeOK'
  BY <1>1 DEF EditInv, BankEditTypeOK, OutInv, WithTables
<1>5. ComposeInv'
  BY <1>1 DEF EditInv, ComposeInv, Loads
<1> QED  BY <1>1, <1>3, <1>4, <1>5, DirectoryKept DEF EditInv, StartDirInv, ExtractInv,
                                                    ComposedIsTheEdit

LEMMA WritePayloadKeeps == EditInv /\ WritePayload => EditInv'
<1> SUFFICES ASSUME EditInv, WritePayload
             PROVE  EditInv'
  OBVIOUS
<1> DEFINE bank == zxDir.bank
           records == zxDir.manifest.records
           files == zxDir.files
<1>1. PICK e \in zxTodo :
        /\ zxTodo' = zxTodo \ {e}
        /\ \/ files[e] = zxDir.manifest.payloads[e] /\ UNCHANGED <<zxOut, zxStep>>
           \/ /\ files[e] # zxDir.manifest.payloads[e] /\ Replaceable(bank, zxOut, e, files[e])
              /\ zxOut' = Replaced(zxOut, e, files[e]) /\ UNCHANGED zxStep
           \/ zxStep' = "refused" /\ UNCHANGED zxOut
  BY DEF WritePayload
<1>2. /\ zxStep = "payloads" /\ zxTemplate' = zxTemplate /\ zxDir' = zxDir /\ zxEdits' = zxEdits
  BY DEF WritePayload
<1>3. Progress(bank, records, files, zxOut, zxTodo) /\ DOMAIN zxOut = Cell
  BY <1>2 DEF EditInv, PayloadsInv, OutInv
<1>4. e \in Inventory(bank)
  BY <1>3 DEF Progress
<1>5. /\ IsBank(bank) /\ zxDir.manifest.payloads[e] = DataAt(bank, e[2])
      /\ files[e] \in PayloadData
  BY <1>2, <1>4, ComposeFacts
<1>6. DOMAIN zxOut' = Cell
  BY <1>1, <1>3 DEF Replaced
<1>7. /\ zxStep' \in {"payloads", "refused"}
      /\ zxStep' = "payloads" => Progress(bank, records, files, zxOut', zxTodo')
  <2>1. PICK out : out = zxOut
    OBVIOUS
  <2>2. PICK todo : todo = zxTodo
    OBVIOUS
  <2>3. CASE files[e] = zxDir.manifest.payloads[e] /\ UNCHANGED <<zxOut, zxStep>>
    BY <2>1, <2>2, <2>3, <1>1, <1>2, <1>3, <1>5, UnchangedApplied
  <2>4. CASE /\ files[e] # zxDir.manifest.payloads[e] /\ Replaceable(bank, zxOut, e, files[e])
             /\ zxOut' = Replaced(zxOut, e, files[e]) /\ UNCHANGED zxStep
    BY <2>1, <2>2, <2>4, <1>1, <1>2, <1>3, <1>5, ReplacedApplied
  <2>5. CASE zxStep' = "refused" /\ UNCHANGED zxOut
    BY <2>5
  <2> QED  BY <1>1, <2>3, <2>4, <2>5
<1>8. PayloadsInv'
  BY <1>2, <1>7 DEF PayloadsInv
<1>9. BankEditTypeOK' /\ OutInv'
  BY <1>2, <1>6, <1>7 DEF EditInv, BankEditTypeOK, OutInv
<1>10. ComposeInv'
  BY <1>2, <1>7 DEF EditInv, ComposeInv, Loads
<1> QED  BY <1>2, <1>7, <1>8, <1>9, <1>10, DirectoryKept DEF EditInv, StartDirInv, ExtractInv,
                                                           ComposedIsTheEdit

LEMMA RepairSectionKeeps == EditInv /\ RepairSection => EditInv'
<1> SUFFICES ASSUME EditInv, RepairSection
             PROVE  EditInv'
  OBVIOUS
<1> DEFINE bank == zxDir.bank
           records == zxDir.manifest.records
           files == zxDir.files
<1>1. /\ zxStep = "payloads" /\ zxTodo = {} /\ zxOut' = Repaired(zxOut)
      /\ zxStep' \in {"refused", "composed"}
      /\ zxStep' = "composed" => ~(HasSection(zxOut') /\ zxOut'[SectionCell][2] # Checksum(zxOut'))
      /\ zxTemplate' = zxTemplate /\ zxDir' = zxDir /\ zxEdits' = zxEdits
  BY DEF RepairSection
<1>2. Progress(bank, records, files, zxOut, {})
  BY <1>1 DEF EditInv, PayloadsInv
<1>3. /\ IsBank(bank) /\ TablesClear(bank)
      /\ \A h \in Headers(bank) : records[h] = [k \in 1 .. bank[h][3] |-> records[h][k]]
  BY <1>1, ComposeFacts
<1>4. /\ \A h \in Headers(bank) :
           ~SharesCells(bank, h) => RecordsAt(zxOut', h) = records[h]
      /\ \A e \in Inventory(bank) : ~Overwritten(bank, e) =>
           /\ Holds(zxOut', e[1], e[2], files[e], DestinationAt(bank, e[2]))
           /\ Expands(files[e], DestinationAt(bank, e[2])) => ParsesAt(zxOut', e[1], e[2])
      /\ HasSection(bank) <=> HasSection(zxOut')
      /\ \A c \in Cell : zxOut'[c] # bank[c] =>
           c = SectionCell \/ InTable(bank, c) \/ Listed(bank, c)
  BY <1>1, <1>2, <1>3, RepairCompletes
<1>5. zxOut' = [c \in Cell |-> zxOut'[c]]
  BY <1>1, <1>2, <1>3, RepairFacts
<1>6. ComposedIsTheEdit'
  BY <1>1, <1>4 DEF ComposedIsTheEdit, InTable, Listed
<1>7. BankEditTypeOK' /\ OutInv'
  BY <1>1, <1>5 DEF EditInv, BankEditTypeOK, OutInv
<1> QED  BY <1>1, <1>6, <1>7, DirectoryKept DEF EditInv, StartDirInv, ExtractInv, ComposeInv,
                                              PayloadsInv

LEMMA RebuildingKeeps == EditInv /\ (EditBank \/ \E preserve \in BOOLEAN : Rebuild(preserve)) => EditInv'
<1> SUFFICES ASSUME EditInv, EditBank \/ \E preserve \in BOOLEAN : Rebuild(preserve)
             PROVE  EditInv'
  OBVIOUS
<1>1. /\ zxStep' \in {"edited", "rebuilt", "unrepresented"}
      /\ zxTemplate' = zxTemplate /\ zxDir' = zxDir /\ zxEdits' = zxEdits
  BY DEF EditBank, Rebuild
<1>2. zxOut' = <<>> \/ DOMAIN zxOut' = Cell
  <2>1. CASE EditBank
    BY <2>1 DEF EditInv, OutInv, EditBank
  <2>2. CASE \E preserve \in BOOLEAN : Rebuild(preserve)
    BY <2>2 DEF EditInv, BankEditTypeOK, Rebuild
  <2> QED  BY <2>1, <2>2
<1>3. BankEditTypeOK'
  BY <1>1, <1>2 DEF EditInv, BankEditTypeOK
<1> QED  BY <1>1, <1>3, DirectoryKept DEF EditInv, StartDirInv, ExtractInv, ComposeInv,
                                        PayloadsInv, OutInv, ComposedIsTheEdit

LEMMA EditInvKept == EditInv /\ [BankEditNext]_zxVars => EditInv'
<1> SUFFICES ASSUME EditInv, [BankEditNext]_zxVars
             PROVE  EditInv'
  OBVIOUS
<1>1. CASE StartExtraction
  BY <1>1, StartExtractionKeeps
<1>2. CASE ExtractFile
  BY <1>2, ExtractFileKeeps
<1>3. CASE ExtractBank
  BY <1>3, ExtractBankKeeps
<1>4. CASE ExtractManifest
  BY <1>4, ExtractManifestKeeps
<1>5. CASE ExtractionStops
  BY <1>5, ExtractionStopsKeeps
<1>6. CASE EditRecord
  BY <1>6, EditRecordKeeps
<1>7. CASE EditPayload
  BY <1>7, EditPayloadKeeps
<1>8. CASE SpoilInventory
  BY <1>8, SpoilInventoryKeeps
<1>9. CASE StartCompose
  BY <1>9, StartComposeKeeps
<1>10. CASE WriteTables
  BY <1>10, WriteTablesKeeps
<1>11. CASE WritePayload
  BY <1>11, WritePayloadKeeps
<1>12. CASE RepairSection
  BY <1>12, RepairSectionKeeps
<1>13. CASE EditBank \/ \E preserve \in BOOLEAN : Rebuild(preserve)
  BY <1>13, RebuildingKeeps
<1>14. CASE UNCHANGED zxVars
  <2>1. UNCHANGED <<zxStep, zxTemplate, zxDir, zxOut, zxTodo, zxEdits>>
    BY <1>14 DEF zxVars
  <2>2. BankEditTypeOK' /\ OutInv' /\ StartDirInv' /\ ComposeInv' /\ PayloadsInv'
    BY <2>1 DEF EditInv, BankEditTypeOK, OutInv, StartDirInv, ComposeInv, Loads, PayloadsInv
  <2>3. ExtractInv'
    BY <2>1 DEF EditInv, ExtractInv, SourceBank
  <2>4. ComposedIsTheEdit'
    BY <2>1 DEF EditInv, ComposedIsTheEdit
  <2> QED  BY <2>1, <2>2, <2>3, <2>4, DirectoryKept DEF EditInv
<1> QED  BY <1>1, <1>2, <1>3, <1>4, <1>5, <1>6, <1>7, <1>8, <1>9, <1>10, <1>11, <1>12, <1>13,
            <1>14 DEF BankEditNext

LEMMA AlwaysEditInv == BankEditSpec => []EditInv
<1> QED  BY EditStarts, EditInvKept, PTL DEF BankEditSpec

LEMMA EditMeans == EditInv => ManifestMeansComplete /\ ComposedIsTheEdit
<1>1. ASSUME EditInv, "manifest" \in zxDir.whole
      PROVE  /\ "bank" \in zxDir.whole
             /\ \A e \in DOMAIN zxDir.manifest.payloads :
                   e \in DOMAIN zxDir.files /\ zxDir.files[e] # Torn
  <2>1. Torn \notin PayloadData
    BY BankAssumption
  <2> QED  BY <1>1, <2>1 DEF EditInv, ManifestInv
<1> QED  BY <1>1 DEF EditInv, ManifestMeansComplete

(* The editing of a bank keeps its types.                                  *)
THEOREM BankEditTypeCorrect == BankEditSpec => []BankEditTypeOK
<1>1. EditInv => BankEditTypeOK
  BY DEF EditInv
<1> QED  BY <1>1, AlwaysEditInv, PTL

(* Wherever an extraction is stopped, a manifest that can be read stands   *)
(* for a whole directory.                                                  *)
THEOREM ManifestIsComplete == BankEditSpec => []ManifestMeansComplete
<1> QED  BY EditMeans, AlwaysEditInv, PTL

(* Whatever a person edits, and in whatever order the manifest lists the   *)
(* payloads, a bank that is composed holds the edited records, the streams *)
(* of the payload files, which read back if they expand within the         *)
(* destinations they had, and a right checksum, and is otherwise the bank  *)
(* of the package.                                                         *)
THEOREM ComposedIsEdited == BankEditSpec => []ComposedIsTheEdit
<1> QED  BY EditMeans, AlwaysEditInv, PTL

-----------------------------------------------------------------------------
(* The rebuild: the package made of an edited bank reads back as it.       *)
LEMMA PieceCounted ==
  ASSUME NEW j, NEW m \in Nat
  PROVE  IsFiniteSet({j} \X (1 .. m)) /\ Cardinality({j} \X (1 .. m)) = m
<1>1. IsFiniteSet(1 .. m) /\ Cardinality(1 .. m) = IF 1 > m THEN 0 ELSE m - 1 + 1
  BY FS_Interval
<1>2. Cardinality(1 .. m) = m
  BY <1>1
<1>3. IsFiniteSet({j}) /\ Cardinality({j}) = 1
  BY FS_Singleton
<1> DEFINE one == {j}
           all == 1 .. m
<1>4. /\ IsFiniteSet(one) /\ IsFiniteSet(all)
      /\ Cardinality(one) = 1 /\ Cardinality(all) = m
  BY <1>1, <1>2, <1>3
<1> HIDE DEF one, all
<1>5. IsFiniteSet(one \X all) /\ Cardinality(one \X all) = Cardinality(one) * Cardinality(all)
  BY <1>4, FS_Product
<1>6. Cardinality(one \X all) = m
  BY <1>4, <1>5
<1> QED  BY <1>5, <1>6 DEF one, all

(* Pieces laid end to end.                                                 *)
LEMMA BeforeFacts ==
  ASSUME NEW n \in Nat, NEW sizes \in [1 .. n -> Nat]
  PROVE  /\ Before(sizes, 1) = 0
         /\ \A i \in 1 .. n + 1 : Before(sizes, i) \in Nat
         /\ \A i \in 1 .. n : Before(sizes, i + 1) = Before(sizes, i) + sizes[i]
         /\ \A i \in 1 .. n, j \in 1 .. n + 1 : i < j => Before(sizes, i) + sizes[i] <= Before(sizes, j)
<1> DEFINE piece(j) == {j} \X (1 .. sizes[j])
           pieces(i) == {piece(j) : j \in 1 .. i - 1}
           places(i) == UNION pieces(i)
<1>1. ASSUME NEW j \in 1 .. n PROVE IsFiniteSet(piece(j)) /\ Cardinality(piece(j)) = sizes[j]
  <2>1. sizes[j] \in Nat
    OBVIOUS
  <2> QED  BY <2>1, PieceCounted
<1>2. ASSUME NEW i \in 1 .. n + 1 PROVE IsFiniteSet(places(i))
  <2> DEFINE f == [j \in 1 .. i - 1 |-> piece(j)]
  <2>1. f \in Surjection(1 .. i - 1, pieces(i))
    BY DEF Surjection
  <2>2. IsFiniteSet(1 .. i - 1)
    BY FS_Interval
  <2> HIDE DEF f
  <2>3. IsFiniteSet(pieces(i))
    BY <2>1, <2>2, FS_Surjection
  <2>4. \A T \in pieces(i) : IsFiniteSet(T)
    <3>1. \A j \in 1 .. i - 1 : j \in 1 .. n
      OBVIOUS
    <3> HIDE DEF piece
    <3> QED  BY <3>1, <1>1
  <2> HIDE DEF pieces
  <2>5. IsFiniteSet(UNION pieces(i))
    BY <2>3, <2>4, FS_UNION
  <2> QED  BY <2>5
<1>3. \A i : Before(sizes, i) = Cardinality(places(i))
  BY DEF Before
<1>4. \A i \in 1 .. n + 1 : Before(sizes, i) \in Nat
  BY <1>2, <1>3, FS_CardinalityType
<1>5. Before(sizes, 1) = 0
  <2>1. places(1) = {}
    OBVIOUS
  <2> QED  BY <2>1, <1>3, FS_EmptySet
<1>6. ASSUME NEW i \in 1 .. n
      PROVE  /\ IsFiniteSet(places(i) \cup piece(i))
             /\ Cardinality(places(i) \cup piece(i)) = Before(sizes, i) + sizes[i]
  <2>1. places(i) \cap piece(i) = {}
    OBVIOUS
  <2>2. /\ IsFiniteSet(places(i)) /\ IsFiniteSet(piece(i)) /\ Cardinality(piece(i)) = sizes[i]
        /\ Cardinality(places(i)) = Before(sizes, i) /\ Before(sizes, i) \in Nat /\ sizes[i] \in Nat
    <3>1. sizes[i] \in Nat /\ i \in 1 .. n + 1
      OBVIOUS
    <3> HIDE DEF places, piece
    <3> QED  BY <3>1, <1>1, <1>2, <1>3, <1>4
  <2> HIDE DEF places, piece
  <2>3. /\ IsFiniteSet(places(i) \cup piece(i))
        /\ Cardinality(places(i) \cup piece(i)) = Before(sizes, i) + sizes[i] - Cardinality({})
    BY <2>1, <2>2, FS_Union
  <2> QED  BY <2>2, <2>3, FS_EmptySet
<1>7. ASSUME NEW i \in 1 .. n PROVE places(i + 1) = places(i) \cup piece(i)
  <2>1. 1 .. (i + 1) - 1 = (1 .. i - 1) \cup {i}
    OBVIOUS
  <2>2. pieces(i + 1) = pieces(i) \cup {piece(i)}
    BY <2>1
  <2> QED  BY <2>2
<1>8. ASSUME NEW i \in 1 .. n, NEW j \in 1 .. n + 1, i < j
      PROVE  Before(sizes, i) + sizes[i] <= Before(sizes, j)
  <2>1. 1 .. i - 1 \subseteq 1 .. j - 1 /\ i \in 1 .. j - 1
    BY <1>8
  <2>2. pieces(i) \cup {piece(i)} \subseteq pieces(j)
    BY <2>1
  <2>3. places(i) \cup piece(i) \subseteq places(j)
    BY <2>2
  <2>4. IsFiniteSet(places(j))
    BY <1>2
  <2>5. Cardinality(places(i) \cup piece(i)) <= Cardinality(places(j))
    BY <2>3, <2>4, FS_Subset
  <2> QED  BY <2>5, <1>3, <1>6
<1>9. ASSUME NEW i \in 1 .. n PROVE Before(sizes, i + 1) = Before(sizes, i) + sizes[i]
  BY <1>3, <1>6, <1>7
<1> QED  BY <1>4, <1>5, <1>8, <1>9

(* Each place is in one piece.                                             *)
LEMMA PieceOf ==
  ASSUME NEW n \in Nat, NEW sizes \in [1 .. n -> Nat], NEW u \in 1 .. Before(sizes, n + 1)
  PROVE  \E i \in 1 .. n : Before(sizes, i) < u /\ u <= Before(sizes, i) + sizes[i]
<1> DEFINE Ends == {i \in 1 .. n + 1 : u <= Before(sizes, i)}
           f == [i \in Ends |-> i]
<1>1. n + 1 \in Ends /\ f \in [Ends -> Nat]
  BY BeforeFacts
<1> HIDE DEF f
<1>2. PICK x \in Ends : \A y \in Ends : f[x] <= f[y]
  BY <1>1, LeastNumber
<1>3. \A y \in Ends : x <= y
  BY <1>2 DEF f
<1>4. x # 1
  BY BeforeFacts
<1>5. x - 1 \in 1 .. n /\ x - 1 \notin Ends
  BY <1>3, <1>4
<1>6. Before(sizes, x - 1) < u
  <2>1. x - 1 \in 1 .. n + 1 /\ n + 1 \in 1 .. n + 1
    BY <1>5
  <2>2. Before(sizes, x - 1) \in Nat /\ Before(sizes, n + 1) \in Nat
    BY <2>1, BeforeFacts
  <2>3. ASSUME u <= Before(sizes, x - 1) PROVE FALSE
    <3> DEFINE y == x - 1
    <3>1. y \in 1 .. n + 1 /\ u <= Before(sizes, y)
      BY <2>1, <2>3
    <3> HIDE DEF y
    <3>2. y \in Ends
      BY <3>1
    <3> QED  BY <1>5, <3>2 DEF y
  <2> HIDE DEF Ends
  <2> QED  BY <2>2, <2>3
<1>7. Before(sizes, x) = Before(sizes, x - 1) + sizes[x - 1]
  <2>1. x = (x - 1) + 1
    OBVIOUS
  <2> QED  BY <2>1, <1>5, BeforeFacts
<1> QED  BY <1>5, <1>6, <1>7

LEMMA OnePiece ==
  ASSUME NEW n \in Nat, NEW sizes \in [1 .. n -> Nat], NEW i \in 1 .. n, NEW j \in 1 .. n, NEW u \in Nat,
         Before(sizes, i) < u, u <= Before(sizes, i) + sizes[i],
         Before(sizes, j) < u, u <= Before(sizes, j) + sizes[j]
  PROVE  i = j
<1>1. /\ Before(sizes, i) \in Nat /\ Before(sizes, j) \in Nat /\ sizes[i] \in Nat /\ sizes[j] \in Nat
      /\ i < j => Before(sizes, i) + sizes[i] <= Before(sizes, j)
      /\ j < i => Before(sizes, j) + sizes[j] <= Before(sizes, i)
  <2>1. i \in 1 .. n + 1 /\ j \in 1 .. n + 1
    OBVIOUS
  <2> QED  BY <2>1, BeforeFacts
<1> QED  BY <1>1

(* What is joined can be cut out again.                                    *)
LEMMA JoinedFacts ==
  ASSUME NEW n \in Nat, NEW sizes \in [1 .. n -> Nat], NEW streams,
         Len(streams) = n, \A i \in 1 .. n : Len(streams[i]) = sizes[i]
  PROVE  /\ Joined(streams) = [u \in 1 .. Before(sizes, n + 1) |-> Joined(streams)[u]]
         /\ \A i \in 1 .. n : \A k \in 1 .. sizes[i] :
              Joined(streams)[Before(sizes, i) + k] = streams[i][k]
<1> DEFINE PieceAt(u) == CHOOSE i \in 1 .. n : Before(sizes, i) < u /\ u <= Before(sizes, i) + sizes[i]
           at(u) == streams[PieceAt(u)][u - Before(sizes, PieceAt(u))]
<1>1. [i \in 1 .. Len(streams) |-> Len(streams[i])] = sizes
  OBVIOUS
<1>2. Joined(streams) = [u \in 1 .. Before(sizes, n + 1) |-> at(u)]
  <2> DEFINE told == [i \in 1 .. Len(streams) |-> Len(streams[i])]
             Told(u) == CHOOSE i \in 1 .. Len(streams) :
                          Before(told, i) < u /\ u <= Before(told, i) + told[i]
  <2>1. Joined(streams) = [u \in 1 .. Before(told, Len(streams) + 1) |->
                             streams[Told(u)][u - Before(told, Told(u))]]
    BY DEF Joined
  <2>2. told = sizes
    BY <1>1
  <2> HIDE DEF told
  <2>3. \A u : Told(u) = PieceAt(u)
    BY <2>2
  <2> HIDE DEF Told, PieceAt
  <2> QED  BY <2>1, <2>2, <2>3
<1> HIDE DEF at
<1>3. Joined(streams) = [u \in 1 .. Before(sizes, n + 1) |-> Joined(streams)[u]]
  BY <1>2
<1>4. ASSUME NEW i \in 1 .. n, NEW k \in 1 .. sizes[i]
      PROVE  Joined(streams)[Before(sizes, i) + k] = streams[i][k]
  <2> DEFINE u == Before(sizes, i) + k
  <2>1. /\ Before(sizes, i) \in Nat /\ Before(sizes, n + 1) \in Nat /\ sizes[i] \in Nat
        /\ Before(sizes, i) + sizes[i] <= Before(sizes, n + 1)
    BY BeforeFacts
  <2>2. u \in 1 .. Before(sizes, n + 1) /\ u \in Nat /\ Before(sizes, i) < u /\ u <= Before(sizes, i) + sizes[i]
    BY <2>1
  <2>3. u - Before(sizes, i) = k
    BY <2>1
  <2> HIDE DEF u
  <2>4. PieceAt(u) \in 1 .. n /\ Before(sizes, PieceAt(u)) < u /\ u <= Before(sizes, PieceAt(u)) + sizes[PieceAt(u)]
    BY <2>2
  <2> HIDE DEF PieceAt
  <2>5. PieceAt(u) = i
    BY <2>2, <2>4, OnePiece
  <2>6. at(u) = streams[i][k]
    BY <2>3, <2>5 DEF at
  <2> QED  BY <1>2, <2>2, <2>6 DEF u
<1> QED  BY <1>3, <1>4

-----------------------------------------------------------------------------
(* Packages.                                                               *)
RegionOf == [to : Nat, size : Nat, packed : BOOLEAN, stored : Nat]
Sizes(p) == [j \in 1 .. Len(p.regions) |-> SizeIn(p.regions[j])]

LEMMA SizesTyped ==
  ASSUME NEW p, p.regions \in Seq(RegionOf)
  PROVE  /\ Len(p.regions) \in Nat /\ Sizes(p) \in [1 .. Len(p.regions) -> Nat]
         /\ \A i \in 1 .. Len(p.regions) : p.regions[i] \in RegionOf
         /\ \A i : StartOf(p.regions, i) = Before(Sizes(p), i)
<1>1. Len(p.regions) \in Nat /\ \A i \in 1 .. Len(p.regions) : p.regions[i] \in RegionOf
  BY LenProperties, ElementOfSeq
<1>2. \A i \in 1 .. Len(p.regions) : SizeIn(p.regions[i]) \in Nat
  BY <1>1 DEF SizeIn, RegionOf
<1> QED  BY <1>1, <1>2 DEF Sizes, StartOf

LEMMA SeqOfOwn ==
  ASSUME NEW s, Len(s) \in Nat, s = [u \in 1 .. Len(s) |-> s[u]]
  PROVE  s \in Seq(Range(s))
<1>1. s \in [1 .. Len(s) -> Range(s)]
  BY DEF Range
<1> QED  BY <1>1, SeqDef

LEMMA UnitsCut ==
  ASSUME NEW p, p.regions \in Seq(RegionOf), p.units \in Seq(Range(p.units)),
         Len(p.units) = StartOf(p.regions, Len(p.regions) + 1),
         NEW i \in 1 .. Len(p.regions)
  PROVE  /\ Len(UnitsOf(p, i)) = SizeIn(p.regions[i])
         /\ UnitsOf(p, i) = [k \in 1 .. SizeIn(p.regions[i]) |-> p.units[StartOf(p.regions, i) + k]]
<1> DEFINE n == Len(p.regions)
           start == StartOf(p.regions, i)
           size == SizeIn(p.regions[i])
<1>1. n \in Nat /\ Sizes(p) \in [1 .. n -> Nat] /\ Sizes(p)[i] = size
  BY SizesTyped DEF Sizes
<1>2. /\ start = Before(Sizes(p), i) /\ Len(p.units) = Before(Sizes(p), n + 1)
  BY SizesTyped
<1>3. start \in Nat /\ size \in Nat /\ Len(p.units) \in Nat /\ start + size <= Len(p.units)
  <2>1. i < n + 1 /\ n + 1 \in 1 .. n + 1 /\ i \in 1 .. n + 1
    BY <1>1
  <2> HIDE DEF n, start, size
  <2>2. /\ Before(Sizes(p), i) \in Nat /\ Before(Sizes(p), n + 1) \in Nat
        /\ Before(Sizes(p), i) + Sizes(p)[i] <= Before(Sizes(p), n + 1)
    BY <1>1, <2>1, BeforeFacts DEF n
  <2>3. size \in Nat
    BY <1>1 DEF n
  <2> QED  BY <1>1, <1>2, <2>2, <2>3
<1> HIDE DEF start, size, n
<1>4. UnitsOf(p, i) = SubSeq(p.units, start + 1, start + size)
  BY DEF UnitsOf, start, size
<1>5. \A k \in start + 1 .. start + size : p.units[k] \in Range(p.units)
  <2>1. \A k \in start + 1 .. start + size : k \in 1 .. Len(p.units)
    BY <1>3
  <2> QED  BY <2>1, ElementOfSeq
<1>6. /\ UnitsOf(p, i) \in Seq(Range(p.units))
      /\ Len(UnitsOf(p, i)) = size
      /\ \A k \in 1 .. size : UnitsOf(p, i)[k] = p.units[start + k]
  <2>1. start + 1 \in Int /\ start + size \in Int
    BY <1>3
  <2>2. /\ SubSeq(p.units, start + 1, start + size) \in Seq(Range(p.units))
        /\ Len(SubSeq(p.units, start + 1, start + size)) =
             IF start + 1 <= start + size THEN (start + size) - (start + 1) + 1 ELSE 0
        /\ \A k \in 1 .. (start + size) - (start + 1) + 1 :
             SubSeq(p.units, start + 1, start + size)[k] = p.units[(start + 1) + k - 1]
    BY <1>5, <2>1, SubSeqProperties
  <2>3. /\ (start + size) - (start + 1) + 1 = size
        /\ (IF start + 1 <= start + size THEN (start + size) - (start + 1) + 1 ELSE 0) = size
        /\ \A k \in 1 .. size : (start + 1) + k - 1 = start + k
    BY <1>3
  <2>4. \A k \in 1 .. size : SubSeq(p.units, start + 1, start + size)[k] = p.units[start + k]
    BY <2>2, <2>3
  <2> QED  BY <1>4, <2>2, <2>3, <2>4
<1>7. UnitsOf(p, i) = [k \in 1 .. size |-> UnitsOf(p, i)[k]]
  <2>1. UnitsOf(p, i) \in [1 .. Len(UnitsOf(p, i)) -> Range(p.units)]
    BY <1>6, LenProperties
  <2> QED  BY <1>6, <2>1
<1> QED  BY <1>6, <1>7 DEF start, size

(* What the rebuild makes of one region.                                   *)
CellsOf(p, i, bank) == [k \in 1 .. p.regions[i].size |-> bank[p.regions[i].to + k - 1]]

(* A stream that inflates to the given cells.                              *)
InflatesTo(stream, cells) ==
    /\ stream = [k \in 1 .. Len(stream) |-> stream[k]] /\ Len(stream) \in Nat \ {0}
    /\ stream[1][1] = "packed" /\ stream[1][2] = cells /\ stream[1][3] = Len(stream)
    /\ \A k \in 2 .. Len(stream) : stream[k] = <<"rest">>

LEMMA PackedInflates ==
  ASSUME NEW cells, NEW size \in Nat \ {0}
  PROVE  InflatesTo(Packed(cells, size), cells)
<1> DEFINE stream == Packed(cells, size)
<1>1. stream = [k \in 1 .. size |-> IF k = 1 THEN <<"packed", cells, size>> ELSE <<"rest">>]
  BY DEF Packed
<1>2. Len(stream) = size
  BY <1>1
<1>3. stream[1] = <<"packed", cells, size>>
  BY <1>1
<1>4. \A k \in 2 .. size : stream[k] = <<"rest">>
  BY <1>1
<1>5. stream = [k \in 1 .. size |-> stream[k]]
  BY <1>1
<1> HIDE DEF stream
<1>6. InflatesTo(stream, cells)
  <2>1. stream[1][1] = "packed" /\ stream[1][2] = cells /\ stream[1][3] = size
    BY <1>3
  <2> QED  BY <1>2, <1>4, <1>5, <2>1 DEF InflatesTo
<1> QED  BY <1>6 DEF stream

LEMMA DeflatedSizes ==
  ASSUME NEW n \in Nat, NEW cells, DOMAIN cells = 1 .. n
  PROVE  DeflatedSize(cells) \in Nat \ {0}
<1>1. IsFiniteSet(1 .. n)
  BY FS_Interval
<1> DEFINE f == [k \in 1 .. n |-> cells[k]]
<1>2. f \in Surjection(1 .. n, Range(cells))
  BY DEF Surjection, Range
<1> HIDE DEF f
<1>3. IsFiniteSet(Range(cells))
  BY <1>1, <1>2, FS_Surjection
<1>4. Cardinality(Range(cells)) \in Nat
  BY <1>3, FS_CardinalityType
<1> QED  BY <1>4 DEF DeflatedSize

(* A package that reads as a bank, and the units of each of its regions.   *)
LEMMA PackageFacts ==
  ASSUME NEW p \in Templates, ReadsAsBank(p)
  PROVE  /\ p.regions \in Seq(RegionOf) /\ p.units \in Seq(Range(p.units))
         /\ p.gap \in BOOLEAN /\ p.mapAt \in Nat /\ WellFormed(p)
         /\ Len(p.units) = StartOf(p.regions, Len(p.regions) + 1)
         /\ \A i \in 1 .. Len(p.regions) :
              /\ Len(UnitsOf(p, i)) = SizeIn(p.regions[i])
              /\ UnitsOf(p, i) = [k \in 1 .. SizeIn(p.regions[i]) |->
                                    p.units[StartOf(p.regions, i) + k]]
<1>1. WellFormed(p)
  BY BankAssumption
<1>2. /\ p.regions \in Seq(RegionOf) /\ p.units \in Seq(Range(p.units))
      /\ p.gap \in BOOLEAN /\ p.mapAt \in Nat
  BY <1>1 DEF WellFormed, RegionOf
<1>3. Len(p.units) = StartOf(p.regions, Len(p.regions) + 1)
  <2>1. /\ p.mapAt = StartOf(p.regions, Len(p.regions) + 1) + (IF p.gap THEN 1 ELSE 0)
        /\ p.mapAt = Len(p.units) + (IF p.gap THEN 1 ELSE 0)
    BY DEF ReadsAsBank
  <2>2. Len(p.units) \in Nat
    BY <1>2, LenProperties
  <2>3. StartOf(p.regions, Len(p.regions) + 1) \in Nat
    <3>1. Len(p.regions) \in Nat /\ Sizes(p) \in [1 .. Len(p.regions) -> Nat]
      BY <1>2, SizesTyped
    <3>2. Len(p.regions) + 1 \in 1 .. Len(p.regions) + 1
      BY <3>1
    <3>3. Before(Sizes(p), Len(p.regions) + 1) \in Nat
      BY <3>1, <3>2, BeforeFacts
    <3> QED  BY <1>2, <3>3, SizesTyped
  <2> DEFINE end == StartOf(p.regions, Len(p.regions) + 1)
             size == Len(p.units)
             spare == IF p.gap THEN 1 ELSE 0
  <2>4. end \in Nat /\ size \in Nat /\ spare \in Nat /\ end + spare = size + spare
    BY <2>1, <2>2, <2>3
  <2> HIDE DEF end, size, spare
  <2>5. size = end
    BY <2>4
  <2> QED  BY <2>5 DEF end, size
<1>4. ASSUME NEW i \in 1 .. Len(p.regions)
      PROVE  /\ Len(UnitsOf(p, i)) = SizeIn(p.regions[i])
             /\ UnitsOf(p, i) = [k \in 1 .. SizeIn(p.regions[i]) |->
                                   p.units[StartOf(p.regions, i) + k]]
  BY <1>2, <1>3, UnitsCut
<1> QED  BY <1>1, <1>2, <1>3, <1>4

LEMMA StreamMade ==
  ASSUME NEW p \in Templates, ReadsAsBank(p), NEW bank, NEW preserve,
         NEW i \in 1 .. Len(p.regions)
  PROVE  LET stream == NewUnits(p, i, bank, preserve) IN
         /\ ~p.regions[i].packed => stream = CellsOf(p, i, bank) /\ Len(stream) = p.regions[i].size
         /\ p.regions[i].packed => InflatesTo(stream, CellsOf(p, i, bank))
<1> DEFINE stream == NewUnits(p, i, bank, preserve)
           cells == CellsOf(p, i, bank)
<1>1. p.regions[i] \in RegionOf
  BY PackageFacts, SizesTyped
<1>2. p.regions[i].size \in Nat
  BY <1>1 DEF RegionOf
<1>3. stream = IF ~p.regions[i].packed THEN cells
               ELSE IF preserve /\ cells = Contents(p, i) THEN UnitsOf(p, i)
               ELSE Packed(cells, DeflatedSize(cells))
  BY DEF NewUnits, CellsOf
<1>4. DOMAIN cells = 1 .. p.regions[i].size /\ Len(cells) = p.regions[i].size
  BY <1>2 DEF CellsOf
<1>5. CASE ~p.regions[i].packed
  BY <1>3, <1>4, <1>5
<1>6. CASE p.regions[i].packed /\ preserve /\ cells = Contents(p, i)
  <2>1. stream = UnitsOf(p, i)
    BY <1>3, <1>6
  <2>2. UnitsOf(p, i)[1][2] = cells
    BY <1>6 DEF Contents
  <2>3. Inflates(p, i)
    BY <1>6 DEF ReadsAsBank
  <2>4. /\ Len(UnitsOf(p, i)) = SizeIn(p.regions[i])
        /\ UnitsOf(p, i) = [k \in 1 .. SizeIn(p.regions[i]) |-> p.units[StartOf(p.regions, i) + k]]
    BY PackageFacts
  <2>5. UnitsOf(p, i) = [k \in 1 .. Len(UnitsOf(p, i)) |-> UnitsOf(p, i)[k]]
    BY <2>4
  <2>6. Len(UnitsOf(p, i)) \in Nat \ {0}
    <3>1. SizeIn(p.regions[i]) \in Nat
      BY <1>1 DEF SizeIn, RegionOf
    <3>2. Len(UnitsOf(p, i)) > 0
      BY <2>3 DEF Inflates
    <3> QED  BY <2>4, <3>1, <3>2
  <2>7. /\ UnitsOf(p, i)[1][1] = "packed" /\ UnitsOf(p, i)[1][3] = Len(UnitsOf(p, i))
        /\ \A k \in 2 .. Len(UnitsOf(p, i)) : UnitsOf(p, i)[k] = <<"rest">>
    BY <2>3 DEF Inflates
  <2>8. InflatesTo(UnitsOf(p, i), cells)
    BY <2>2, <2>5, <2>6, <2>7 DEF InflatesTo
  <2> QED  BY <1>6, <2>1, <2>8
<1>7. CASE p.regions[i].packed /\ ~(preserve /\ cells = Contents(p, i))
  <2>1. stream = Packed(cells, DeflatedSize(cells))
    BY <1>3, <1>7
  <2>2. DeflatedSize(cells) \in Nat \ {0}
    BY <1>2, <1>4, DeflatedSizes
  <2>3. InflatesTo(Packed(cells, DeflatedSize(cells)), cells)
    BY <2>2, PackedInflates
  <2> QED  BY <1>7, <2>1, <2>3
<1> QED  BY <1>5, <1>6, <1>7

(* The package that is made: its regions are those of the old one, and the *)
(* units of each are its new stream.                                       *)
MadeOf(q, p, bank, preserve) ==
    /\ q = [regions |-> q.regions, units |-> q.units, gap |-> p.gap, mapAt |-> q.mapAt]
    /\ q.mapAt = Len(q.units) + (IF p.gap THEN 1 ELSE 0)
    /\ q.regions \in Seq(RegionOf) /\ Len(q.regions) = Len(p.regions)
    /\ Len(q.units) \in Nat /\ Len(q.units) = StartOf(q.regions, Len(q.regions) + 1)
    /\ q.units = [u \in 1 .. Len(q.units) |-> q.units[u]]
    /\ \A i \in 1 .. Len(p.regions) :
         LET stream == NewUnits(p, i, bank, preserve) IN
         /\ q.regions[i] = [p.regions[i] EXCEPT !.stored =
                              IF p.regions[i].packed THEN Len(stream) ELSE 0]
         /\ SizeIn(q.regions[i]) = Len(stream)
         /\ UnitsOf(q, i) = stream

LEMMA RebuiltFacts ==
  ASSUME NEW p \in Templates, ReadsAsBank(p), NEW bank, NEW preserve
  PROVE  MadeOf(Rebuilt(p, bank, preserve), p, bank, preserve)
<1> DEFINE q == Rebuilt(p, bank, preserve)
<1> DEFINE n == Len(p.regions)
           stream(i) == NewUnits(p, i, bank, preserve)
           streams == NewStreams(p, bank, preserve)
           map == NewMap(p, streams)
           sizes == [i \in 1 .. n |-> Len(stream(i))]
<1>1. n \in Nat /\ \A i \in 1 .. n : p.regions[i] \in RegionOf
  BY PackageFacts, SizesTyped
<1>2. streams = [i \in 1 .. n |-> stream(i)]
  BY DEF NewStreams
<1>3. ASSUME NEW i \in 1 .. n
      PROVE  /\ Len(stream(i)) \in Nat /\ stream(i) = [k \in 1 .. Len(stream(i)) |-> stream(i)[k]]
             /\ ~p.regions[i].packed => Len(stream(i)) = p.regions[i].size
  <2>1. CASE ~p.regions[i].packed
    <3>1. stream(i) = CellsOf(p, i, bank) /\ Len(stream(i)) = p.regions[i].size
      BY <2>1, StreamMade
    <3>2. p.regions[i].size \in Nat
      BY <1>1 DEF RegionOf
    <3>3. CellsOf(p, i, bank) = [k \in 1 .. p.regions[i].size |-> CellsOf(p, i, bank)[k]]
      BY DEF CellsOf
    <3> QED  BY <3>1, <3>2, <3>3
  <2>2. CASE p.regions[i].packed
    <3>1. InflatesTo(stream(i), CellsOf(p, i, bank))
      BY <2>2, StreamMade
    <3> HIDE DEF stream
    <3> QED  BY <2>2, <3>1 DEF InflatesTo
  <2> QED  BY <2>1, <2>2
<1> HIDE DEF stream
<1>4. Len(streams) = n
  BY <1>1, <1>2
<1>5. sizes \in [1 .. n -> Nat]
  BY <1>3
<1> HIDE DEF streams
<1>6. map = [i \in 1 .. n |-> [p.regions[i] EXCEPT !.stored =
                                 IF p.regions[i].packed THEN Len(streams[i]) ELSE 0]]
  BY DEF NewMap
<1> HIDE DEF map
<1>7. q = [regions |-> map, units |-> Joined(streams), gap |-> p.gap,
           mapAt |-> Len(Joined(streams)) + (IF p.gap THEN 1 ELSE 0)]
  BY DEF Rebuilt, map, streams
<1> HIDE DEF q
<1>8. /\ q.regions = map /\ q.units = Joined(streams) /\ q.gap = p.gap
      /\ q.mapAt = Len(q.units) + (IF p.gap THEN 1 ELSE 0)
      /\ q = [regions |-> q.regions, units |-> q.units, gap |-> p.gap, mapAt |-> q.mapAt]
  BY <1>7
<1>9. ASSUME NEW i \in 1 .. n
      PROVE  /\ map[i] = [p.regions[i] EXCEPT !.stored =
                            IF p.regions[i].packed THEN Len(stream(i)) ELSE 0]
             /\ map[i] \in RegionOf /\ SizeIn(map[i]) = Len(stream(i))
  <2>1. map[i] = [p.regions[i] EXCEPT !.stored = IF p.regions[i].packed THEN Len(stream(i)) ELSE 0]
    BY <1>2, <1>6
  <2>2. map[i] \in RegionOf
    BY <1>1, <1>3, <2>1 DEF RegionOf
  <2>3. SizeIn(map[i]) = Len(stream(i))
    <3>1. map[i].packed = p.regions[i].packed /\ map[i].size = p.regions[i].size
      BY <1>1, <2>1 DEF RegionOf
    <3>2. map[i].stored = IF p.regions[i].packed THEN Len(stream(i)) ELSE 0
      BY <1>1, <2>1 DEF RegionOf
    <3> QED  BY <1>3, <3>1, <3>2 DEF SizeIn
  <2> QED  BY <2>1, <2>2, <2>3
<1>10. Len(map) = n /\ map \in Seq(RegionOf)
  <2>1. map \in [1 .. n -> RegionOf]
    BY <1>6, <1>9
  <2>2. map \in Seq(RegionOf)
    BY <1>1, <2>1, SeqDef
  <2> QED  BY <1>1, <2>1, <2>2, LenProperties
<1>11. Sizes(q) = sizes
  BY <1>8, <1>9, <1>10 DEF Sizes
<1>12. \A i \in 1 .. n : Len(streams[i]) = sizes[i] /\ streams[i] = stream(i)
  BY <1>2
<1>13. /\ Joined(streams) = [u \in 1 .. Before(sizes, n + 1) |-> Joined(streams)[u]]
       /\ \A i \in 1 .. n : \A k \in 1 .. sizes[i] :
            Joined(streams)[Before(sizes, i) + k] = streams[i][k]
  <2> HIDE DEF n, sizes
  <2> QED  BY <1>1, <1>4, <1>5, <1>12, JoinedFacts
<1>14. Before(sizes, n + 1) \in Nat
  <2>1. n + 1 \in 1 .. n + 1
    BY <1>1
  <2> QED  BY <1>1, <1>5, <2>1, BeforeFacts
<1>15. Len(q.units) = Before(sizes, n + 1) /\ q.units = [u \in 1 .. Len(q.units) |-> q.units[u]]
  <2> HIDE DEF sizes
  <2>1. Len(Joined(streams)) = Before(sizes, n + 1)
    BY <1>13, <1>14
  <2> QED  BY <1>8, <1>13, <2>1
<1>16. Len(q.units) = StartOf(q.regions, Len(q.regions) + 1)
  <2>1. q.regions \in Seq(RegionOf)
    BY <1>8, <1>10
  <2>2. \A i : StartOf(q.regions, i) = Before(Sizes(q), i)
    BY <2>1, SizesTyped
  <2>3. StartOf(q.regions, n + 1) = Before(sizes, n + 1)
    BY <2>2, <1>11
  <2>4. Len(q.regions) = n
    BY <1>8, <1>10
  <2> HIDE DEF n, sizes
  <2> QED  BY <1>15, <2>3, <2>4
<1>17. ASSUME NEW i \in 1 .. n PROVE UnitsOf(q, i) = stream(i)
  <2>1. q.units \in Seq(Range(q.units))
    <3>1. Len(q.units) \in Nat
      BY <1>14, <1>15
    <3> QED  BY <1>15, <3>1, SeqOfOwn
  <2>2. UnitsOf(q, i) = [k \in 1 .. SizeIn(q.regions[i]) |-> q.units[StartOf(q.regions, i) + k]]
    <3>1. q.regions \in Seq(RegionOf) /\ i \in 1 .. Len(q.regions)
      BY <1>8, <1>10
    <3> HIDE DEF n, sizes
    <3> QED  BY <1>16, <2>1, <3>1, UnitsCut
  <2>3. SizeIn(q.regions[i]) = Len(stream(i)) /\ sizes[i] = Len(stream(i))
    BY <1>8, <1>9
  <2>4. StartOf(q.regions, i) = Before(sizes, i)
    BY <1>8, <1>10, <1>11, SizesTyped
  <2>5. \A k \in 1 .. Len(stream(i)) : q.units[Before(sizes, i) + k] = stream(i)[k]
    BY <1>8, <1>12, <1>13, <2>3
  <2> HIDE DEF sizes
  <2>6. UnitsOf(q, i) = [k \in 1 .. Len(stream(i)) |-> stream(i)[k]]
    BY <2>2, <2>3, <2>4, <2>5
  <2> QED  BY <1>3, <2>6
<1>18. MadeOf(q, p, bank, preserve)
  BY <1>8, <1>9, <1>10, <1>14, <1>15, <1>16, <1>17 DEF MadeOf, stream
<1> QED  BY <1>18 DEF q

LEMMA RebuiltReads ==
  ASSUME NEW p \in Templates, ReadsAsBank(p), NEW bank, NEW preserve,
         NEW q, MadeOf(q, p, bank, preserve), q.mapAt <= PackageLimit
  PROVE  ReadsAsBank(q)
<1> DEFINE n == Len(p.regions)
           stream(i) == NewUnits(p, i, bank, preserve)
<1>1. /\ Len(q.regions) = n /\ q.gap = p.gap /\ n \in Nat
      /\ q.mapAt = Len(q.units) + (IF p.gap THEN 1 ELSE 0)
      /\ Len(q.units) = StartOf(q.regions, n + 1)
  <2>1. /\ q = [regions |-> q.regions, units |-> q.units, gap |-> p.gap, mapAt |-> q.mapAt]
        /\ q.mapAt = Len(q.units) + (IF p.gap THEN 1 ELSE 0)
        /\ Len(q.regions) = Len(p.regions) /\ Len(q.units) = StartOf(q.regions, Len(q.regions) + 1)
    BY DEF MadeOf
  <2>2. q.gap = p.gap
    BY <2>1
  <2>3. n \in Nat
    BY PackageFacts, SizesTyped
  <2> QED  BY <2>1, <2>2, <2>3
<1>2. ASSUME NEW i \in 1 .. n
      PROVE  /\ q.regions[i].to = p.regions[i].to /\ q.regions[i].size = p.regions[i].size
             /\ q.regions[i].packed = p.regions[i].packed
             /\ UnitsOf(q, i) = stream(i)
  <2>1. p.regions[i] \in RegionOf
    BY PackageFacts, SizesTyped
  <2>2. \A r \in 1 .. Len(p.regions) :
          /\ q.regions[r] = [p.regions[r] EXCEPT !.stored =
                               IF p.regions[r].packed THEN Len(NewUnits(p, r, bank, preserve)) ELSE 0]
          /\ UnitsOf(q, r) = NewUnits(p, r, bank, preserve)
    BY DEF MadeOf
  <2>3. /\ q.regions[i] = [p.regions[i] EXCEPT !.stored =
                             IF p.regions[i].packed THEN Len(stream(i)) ELSE 0]
        /\ UnitsOf(q, i) = stream(i)
    BY <2>2
  <2> HIDE DEF stream
  <2> QED  BY <2>1, <2>3 DEF RegionOf
<1>3. ASSUME NEW i \in 1 .. n, q.regions[i].packed PROVE Inflates(q, i)
  <2>1. InflatesTo(stream(i), CellsOf(p, i, bank))
    BY <1>2, <1>3, StreamMade
  <2>2. Len(CellsOf(p, i, bank)) = q.regions[i].size
    <3>1. p.regions[i].size \in Nat
      BY PackageFacts, SizesTyped DEF RegionOf
    <3> QED  BY <1>2, <3>1 DEF CellsOf
  <2> HIDE DEF stream
  <2>3. UnitsOf(q, i) = stream(i)
    BY <1>2
  <2> QED  BY <2>1, <2>2, <2>3 DEF Inflates, InflatesTo
<1>4. ASSUME NEW i \in 1 .. n
      PROVE  /\ p.regions[i].size > 0 /\ p.regions[i].to + p.regions[i].size <= BankCells
             /\ \A j \in 1 .. i - 1 : Span(p.regions[i].to, p.regions[i].size)
                                        \cap Span(p.regions[j].to, p.regions[j].size) = {}
  BY DEF ReadsAsBank
<1> HIDE DEF n, stream
<1>5. ASSUME NEW i \in 1 .. n
      PROVE  /\ q.regions[i].size > 0 /\ q.regions[i].to + q.regions[i].size <= BankCells
             /\ q.regions[i].packed => Inflates(q, i)
             /\ \A j \in 1 .. i - 1 : Span(q.regions[i].to, q.regions[i].size)
                                        \cap Span(q.regions[j].to, q.regions[j].size) = {}
  <2>1. \A j \in 1 .. i - 1 : j \in 1 .. n
    BY <1>1
  <2> QED  BY <1>2, <1>3, <1>4, <2>1
<1>6. /\ q.mapAt = StartOf(q.regions, Len(q.regions) + 1) + (IF q.gap THEN 1 ELSE 0)
      /\ q.mapAt = Len(q.units) + (IF q.gap THEN 1 ELSE 0)
  BY <1>1
<1> QED  BY <1>1, <1>5, <1>6 DEF ReadsAsBank

(* A cell of the bank is of one region.                                    *)
LEMMA OneRegion ==
  ASSUME NEW p \in Templates, ReadsAsBank(p), NEW i \in 1 .. Len(p.regions), NEW j \in 1 .. Len(p.regions),
         NEW c, c \in Span(p.regions[i].to, p.regions[i].size), c \in Span(p.regions[j].to, p.regions[j].size)
  PROVE  i = j
<1>1. \A a \in 1 .. Len(p.regions) : \A b \in 1 .. a - 1 :
        Span(p.regions[a].to, p.regions[a].size) \cap Span(p.regions[b].to, p.regions[b].size) = {}
  BY DEF ReadsAsBank
<1>2. Len(p.regions) \in Nat
  BY PackageFacts, SizesTyped
<1>3. i < j => i \in 1 .. j - 1
  BY <1>2
<1>4. j < i => j \in 1 .. i - 1
  BY <1>2
<1>5. ~(i < j) /\ ~(j < i)
  BY <1>1, <1>3, <1>4
<1> QED  BY <1>2, <1>5

LEMMA SpanPlaces ==
  ASSUME NEW at \in Nat, NEW size \in Nat
  PROVE  /\ \A k \in 1 .. size : at + k - 1 \in Span(at, size) /\ (at + k - 1) - at + 1 = k
         /\ \A c \in Span(at, size) : c - at + 1 \in 1 .. size /\ c = at + (c - at + 1) - 1
         /\ at + size <= BankCells => Span(at, size) \subseteq Cell
<1>1. Span(at, size) = at .. at + size - 1 /\ Cell = 0 .. BankCells - 1 /\ BankCells \in Nat
  BY BankAssumption DEF Span, Cell
<1>2. at + size <= BankCells => at .. at + size - 1 \subseteq 0 .. BankCells - 1
  BY <1>1
<1>3. \A k \in 1 .. size : at + k - 1 \in at .. at + size - 1 /\ (at + k - 1) - at + 1 = k
  OBVIOUS
<1>4. \A c \in at .. at + size - 1 : c - at + 1 \in 1 .. size /\ c = at + (c - at + 1) - 1
  OBVIOUS
<1> QED  BY <1>1, <1>2, <1>3, <1>4

(* Where a package puts its contents, for any package with these regions.  *)
LEMMA BankCell ==
  ASSUME NEW p \in Templates, ReadsAsBank(p), NEW q, Len(q.regions) = Len(p.regions),
         \A i \in 1 .. Len(p.regions) : q.regions[i].to = p.regions[i].to /\ q.regions[i].size = p.regions[i].size
  PROVE  /\ Mapped(q) = Mapped(p)
         /\ \A c \in Cell \ Mapped(p) : BuildBank(q)[c] = Blank
         /\ \A i \in 1 .. Len(p.regions) : \A k \in 1 .. p.regions[i].size :
              /\ p.regions[i].to + k - 1 \in Cell
              /\ BuildBank(q)[p.regions[i].to + k - 1] = Contents(q, i)[k]
<1> DEFINE n == Len(p.regions)
           span(i) == Span(p.regions[i].to, p.regions[i].size)
           region(c) == CHOOSE i \in 1 .. n : c \in span(i)
           content(c) == Contents(q, region(c))[c - p.regions[region(c)].to + 1]
<1>1. Mapped(p) = UNION {span(i) : i \in 1 .. n}
  BY DEF Mapped
<1>2. Mapped(q) = Mapped(p)
  <2>1. \A i \in 1 .. n : Span(q.regions[i].to, q.regions[i].size) = span(i)
    OBVIOUS
  <2>2. Mapped(q) = UNION {Span(q.regions[i].to, q.regions[i].size) : i \in 1 .. n}
    BY DEF Mapped
  <2> QED  BY <1>1, <2>1, <2>2
<1>3. BuildBank(q) = [c \in Cell |-> IF c \notin Mapped(p) THEN Blank ELSE content(c)]
  <2> DEFINE its(c) == CHOOSE i \in 1 .. n : c \in Span(q.regions[i].to, q.regions[i].size)
  <2>1. BuildBank(q) = [c \in Cell |-> IF c \notin Mapped(q) THEN Blank
                                      ELSE Contents(q, its(c))[c - q.regions[its(c)].to + 1]]
    BY DEF BuildBank
  <2>2. \A c : its(c) = region(c)
    OBVIOUS
  <2>3. ASSUME NEW c \in Mapped(p) PROVE q.regions[its(c)].to = p.regions[its(c)].to
    <3>1. \E i \in 1 .. n : c \in Span(q.regions[i].to, q.regions[i].size)
      BY <1>1
    <3>2. its(c) \in 1 .. n
      BY <3>1
    <3> HIDE DEF its
    <3> QED  BY <3>2
  <2> HIDE DEF its, region
  <2> QED  BY <1>2, <2>1, <2>2, <2>3
<1>4. ASSUME NEW i \in 1 .. n, NEW k \in 1 .. p.regions[i].size
      PROVE  /\ p.regions[i].to + k - 1 \in Cell
             /\ BuildBank(q)[p.regions[i].to + k - 1] = Contents(q, i)[k]
  <2> DEFINE c == p.regions[i].to + k - 1
             at == p.regions[i].to
             size == p.regions[i].size
  <2>1. at \in Nat /\ size \in Nat /\ at + size <= BankCells
    BY PackageFacts, SizesTyped DEF RegionOf, ReadsAsBank
  <2>2. c \in Cell /\ c \in span(i) /\ c - p.regions[i].to + 1 = k
    <3>1. span(i) = Span(at, size) /\ c = at + k - 1 /\ k \in 1 .. size
      OBVIOUS
    <3> HIDE DEF at, size, c, span
    <3>2. Span(at, size) \subseteq Cell
      BY <2>1, SpanPlaces
    <3>3. at + k - 1 \in Span(at, size) /\ (at + k - 1) - at + 1 = k
      BY <2>1, <3>1, SpanPlaces
    <3>4. c \in Cell /\ c \in span(i) /\ c - at + 1 = k
      BY <3>1, <3>2, <3>3
    <3> QED  BY <3>4 DEF at
  <2> HIDE DEF c
  <2>3. region(c) \in 1 .. n /\ c \in span(region(c))
    BY <2>2
  <2> HIDE DEF region
  <2>4. region(c) = i
    BY <2>2, <2>3, OneRegion
  <2>5. c \in Mapped(p)
    BY <1>1, <2>2
  <2> QED  BY <1>3, <2>2, <2>4, <2>5 DEF c
<1>5. \A c \in Cell \ Mapped(p) : BuildBank(q)[c] = Blank
  <2> HIDE DEF content
  <2> QED  BY <1>3
<1> QED  BY <1>2, <1>4, <1>5

LEMMA BankIsFunction ==
  ASSUME NEW q
  PROVE  BuildBank(q) = [c \in Cell |-> BuildBank(q)[c]]
<1> DEFINE content(c) ==
      IF c \notin Mapped(q) THEN Blank
      ELSE LET i == CHOOSE k \in 1 .. Len(q.regions) :
                       c \in Span(q.regions[k].to, q.regions[k].size)
           IN Contents(q, i)[c - q.regions[i].to + 1]
<1>1. BuildBank(q) = [c \in Cell |-> content(c)]
  BY DEF BuildBank
<1> HIDE DEF content
<1> QED  BY <1>1

(* The new package reads back as the bank it was made of.                  *)
LEMMA RebuiltHolds ==
  ASSUME NEW p \in Templates, ReadsAsBank(p), NEW preserve, NEW q, NEW bank,
         bank = [c \in Cell |-> bank[c]], \A c \in Cell \ Mapped(p) : bank[c] = Blank,
         MadeOf(q, p, bank, preserve)
  PROVE  BuildBank(q) = bank
<1> DEFINE n == Len(p.regions)
<1>1. /\ Len(q.regions) = n
      /\ \A i \in 1 .. n : /\ q.regions[i].to = p.regions[i].to /\ q.regions[i].size = p.regions[i].size
                           /\ q.regions[i].packed = p.regions[i].packed
                           /\ UnitsOf(q, i) = NewUnits(p, i, bank, preserve)
  <2>1. \A i \in 1 .. n : p.regions[i] \in RegionOf
    BY PackageFacts, SizesTyped
  <2>2. /\ Len(q.regions) = n
        /\ \A i \in 1 .. n :
             /\ q.regions[i] = [p.regions[i] EXCEPT !.stored =
                                  IF p.regions[i].packed THEN Len(NewUnits(p, i, bank, preserve)) ELSE 0]
             /\ UnitsOf(q, i) = NewUnits(p, i, bank, preserve)
    BY DEF MadeOf
  <2> QED  BY <2>1, <2>2 DEF RegionOf
<1>2. /\ Mapped(q) = Mapped(p)
      /\ \A c \in Cell \ Mapped(p) : BuildBank(q)[c] = Blank
      /\ \A i \in 1 .. n : \A k \in 1 .. p.regions[i].size :
           /\ p.regions[i].to + k - 1 \in Cell
           /\ BuildBank(q)[p.regions[i].to + k - 1] = Contents(q, i)[k]
  BY <1>1, BankCell
<1>3. ASSUME NEW i \in 1 .. n PROVE Contents(q, i) = CellsOf(p, i, bank)
  <2> DEFINE stream == NewUnits(p, i, bank, preserve)
  <2>1. /\ ~p.regions[i].packed => stream = CellsOf(p, i, bank)
        /\ p.regions[i].packed => InflatesTo(stream, CellsOf(p, i, bank))
    BY StreamMade
  <2>2. UnitsOf(q, i) = stream /\ q.regions[i].packed = p.regions[i].packed
    BY <1>1
  <2> HIDE DEF stream
  <2> QED  BY <2>1, <2>2 DEF Contents, InflatesTo
<1>4. ASSUME NEW c \in Cell PROVE BuildBank(q)[c] = bank[c]
  <2>1. CASE c \notin Mapped(p)
    BY <1>2, <2>1
  <2>2. CASE c \in Mapped(p)
    <3>1. PICK i \in 1 .. n : c \in Span(p.regions[i].to, p.regions[i].size)
      BY <2>2 DEF Mapped
    <3> DEFINE at == p.regions[i].to
               size == p.regions[i].size
               k == c - at + 1
    <3>2. p.regions[i].to \in Nat /\ p.regions[i].size \in Nat
      BY PackageFacts, SizesTyped DEF RegionOf
    <3>3. k \in 1 .. size /\ c = at + k - 1
      <4>1. at \in Nat /\ size \in Nat /\ c \in Span(at, size)
        BY <3>1, <3>2
      <4> HIDE DEF at, size
      <4> QED  BY <4>1, SpanPlaces
    <3> HIDE DEF k
    <3>4. BuildBank(q)[c] = CellsOf(p, i, bank)[k]
      BY <1>2, <1>3, <3>3
    <3> QED  BY <3>3, <3>4 DEF CellsOf
  <2> QED  BY <2>1, <2>2
<1>5. BuildBank(q) = [c \in Cell |-> BuildBank(q)[c]]
  BY BankIsFunction
<1> QED  BY <1>4, <1>5

(* An unchanged bank gives the package back.                               *)
LEMMA RebuiltSame ==
  ASSUME NEW p \in Templates, ReadsAsBank(p), NEW q, NEW bank,
         MadeOf(q, p, bank, TRUE), bank = BuildBank(p)
  PROVE  q = p
<1> DEFINE n == Len(p.regions)
           stream(i) == NewUnits(p, i, bank, TRUE)
<1>1. /\ WellFormed(p) /\ p.regions \in Seq(RegionOf) /\ n \in Nat
      /\ \A i \in 1 .. n : p.regions[i] \in RegionOf
  BY PackageFacts, SizesTyped
<1>2. ASSUME NEW i \in 1 .. n PROVE CellsOf(p, i, bank) = Contents(p, i)
  <2> DEFINE size == p.regions[i].size
  <2>1. CellsOf(p, i, bank) = [k \in 1 .. size |-> Contents(p, i)[k]]
    <3>1. \A k \in 1 .. size : BuildBank(p)[p.regions[i].to + k - 1] = Contents(p, i)[k]
      BY BankCell
    <3> QED  BY <3>1 DEF CellsOf
  <2>2. Contents(p, i) = [k \in 1 .. size |-> Contents(p, i)[k]]
    <3>1. /\ Len(UnitsOf(p, i)) = SizeIn(p.regions[i])
          /\ UnitsOf(p, i) = [k \in 1 .. SizeIn(p.regions[i]) |-> p.units[StartOf(p.regions, i) + k]]
      BY PackageFacts
    <3>2. CASE ~p.regions[i].packed
      BY <3>1, <3>2 DEF Contents, SizeIn
    <3>3. CASE p.regions[i].packed
      <4> DEFINE unit == UnitsOf(p, i)[1]
                 at == StartOf(p.regions, i) + 1
      <4>1. Inflates(p, i)
        BY <3>3 DEF ReadsAsBank
      <4>2. Len(unit[2]) = size /\ unit[1] = "packed" /\ Len(UnitsOf(p, i)) > 0
        BY <4>1 DEF Inflates
      <4>3. at \in 1 .. Len(p.units) /\ unit = p.units[at]
        <5>1. SizeIn(p.regions[i]) \in Nat /\ 1 \in 1 .. SizeIn(p.regions[i])
          <6>1. SizeIn(p.regions[i]) \in Nat
            BY <1>1 DEF SizeIn, RegionOf
          <6> QED  BY <6>1, <3>1, <4>2
        <5>2. unit = p.units[at]
          BY <3>1, <5>1
        <5>3. StartOf(p.regions, i) \in Nat /\ at <= Len(p.units) /\ Len(p.units) \in Nat
          <6> DEFINE start(j) == StartOf(p.regions, j)
          <6>1. Sizes(p) \in [1 .. n -> Nat] /\ \A j : start(j) = Before(Sizes(p), j)
            BY <1>1, SizesTyped
          <6>2. i \in 1 .. n + 1 /\ n + 1 \in 1 .. n + 1 /\ i < n + 1
            BY <1>1
          <6> HIDE DEF n
          <6>3. /\ Before(Sizes(p), i) \in Nat /\ Before(Sizes(p), n + 1) \in Nat
                /\ Before(Sizes(p), i) + Sizes(p)[i] <= Before(Sizes(p), n + 1)
            BY <1>1, <6>1, <6>2, BeforeFacts
          <6>4. Sizes(p)[i] = SizeIn(p.regions[i])
            BY DEF Sizes, n
          <6>5. Len(p.units) = start(n + 1)
            BY PackageFacts DEF n
          <6> HIDE DEF start
          <6> QED  BY <5>1, <6>1, <6>3, <6>4, <6>5 DEF start
        <5> HIDE DEF unit
        <5> QED  BY <5>2, <5>3
      <4> HIDE DEF at
      <4>4. unit[2] \in Seq(Range(unit[2]))
        BY <1>1, <4>2, <4>3 DEF WellFormed
      <4>5. unit[2] = [k \in 1 .. size |-> unit[2][k]]
        <5>1. unit[2] \in [1 .. Len(unit[2]) -> Range(unit[2])]
          BY <4>4, LenProperties
        <5> QED  BY <5>1, <4>2
      <4> QED  BY <3>3, <4>5 DEF Contents
    <3> QED  BY <3>2, <3>3
  <2> QED  BY <2>1, <2>2
<1>3. ASSUME NEW i \in 1 .. n PROVE stream(i) = UnitsOf(p, i)
  <2>1. stream(i) = IF ~p.regions[i].packed THEN CellsOf(p, i, bank)
                    ELSE IF CellsOf(p, i, bank) = Contents(p, i) THEN UnitsOf(p, i)
                    ELSE Packed(CellsOf(p, i, bank), DeflatedSize(CellsOf(p, i, bank)))
    BY DEF NewUnits, CellsOf
  <2> HIDE DEF stream
  <2> QED  BY <1>2, <2>1 DEF Contents
<1> HIDE DEF stream
<1>4. q.regions = p.regions
  <2>1. /\ q.regions \in Seq(RegionOf) /\ Len(q.regions) = n
        /\ \A i \in 1 .. n : q.regions[i] = [p.regions[i] EXCEPT !.stored =
             IF p.regions[i].packed THEN Len(stream(i)) ELSE 0]
    BY DEF MadeOf, stream
  <2>2. ASSUME NEW i \in 1 .. n PROVE q.regions[i] = p.regions[i]
    <3>1. Len(UnitsOf(p, i)) = SizeIn(p.regions[i])
      BY PackageFacts
    <3>2. ~p.regions[i].packed => p.regions[i].stored = 0
      BY <1>1 DEF WellFormed
    <3>3. p.regions[i].stored = IF p.regions[i].packed THEN Len(stream(i)) ELSE 0
      BY <1>1, <1>3, <3>1, <3>2 DEF SizeIn, RegionOf
    <3>4. q.regions[i] = [p.regions[i] EXCEPT !.stored = p.regions[i].stored]
      BY <2>1, <3>3
    <3> QED  BY <1>1, <3>4 DEF RegionOf
  <2>3. q.regions = [i \in 1 .. n |-> q.regions[i]] /\ p.regions = [i \in 1 .. n |-> p.regions[i]]
    BY <1>1, <2>1, LenProperties
  <2> QED  BY <2>2, <2>3
<1>5. q.units = p.units
  <2>1. /\ Len(q.units) \in Nat /\ Len(q.units) = StartOf(p.regions, n + 1)
        /\ q.units = [u \in 1 .. Len(q.units) |-> q.units[u]]
    BY <1>4 DEF MadeOf
  <2>2. Len(p.units) = StartOf(p.regions, n + 1) /\ p.units \in Seq(Range(p.units))
    BY PackageFacts
  <2>3. p.units = [u \in 1 .. Len(p.units) |-> p.units[u]]
    <3>1. p.units \in [1 .. Len(p.units) -> Range(p.units)]
      BY <2>2, LenProperties
    <3> QED  BY <3>1
  <2>4. ASSUME NEW u \in 1 .. Len(p.units) PROVE q.units[u] = p.units[u]
    <3>1. Sizes(p) \in [1 .. n -> Nat] /\ \A i : StartOf(p.regions, i) = Before(Sizes(p), i)
      BY <1>1, SizesTyped
    <3>2. u \in 1 .. Before(Sizes(p), n + 1)
      BY <2>2, <3>1
    <3> HIDE DEF n
    <3>3. PICK i \in 1 .. n : Before(Sizes(p), i) < u /\ u <= Before(Sizes(p), i) + Sizes(p)[i]
      BY <1>1, <3>1, <3>2, PieceOf
    <3> DEFINE k == u - Before(Sizes(p), i)
    <3>4. /\ Before(Sizes(p), i) \in Nat /\ Sizes(p)[i] \in Nat /\ Sizes(p)[i] = SizeIn(p.regions[i])
      <4>1. i \in 1 .. n + 1
        BY <1>1
      <4> QED  BY <1>1, <3>1, <4>1, BeforeFacts DEF Sizes, n
    <3>5. k \in 1 .. SizeIn(p.regions[i]) /\ u = Before(Sizes(p), i) + k /\ u \in Nat
      BY <3>3, <3>4, <2>1, <2>2
    <3> HIDE DEF k
    <3>6. UnitsOf(p, i) = [m \in 1 .. SizeIn(p.regions[i]) |-> p.units[StartOf(p.regions, i) + m]]
      BY PackageFacts DEF n
    <3>7. UnitsOf(q, i) = [m \in 1 .. SizeIn(p.regions[i]) |-> q.units[StartOf(p.regions, i) + m]]
      <4>1. q.units \in Seq(Range(q.units))
        BY <2>1, SeqOfOwn
      <4>2. /\ q.regions \in Seq(RegionOf) /\ i \in 1 .. Len(q.regions)
            /\ Len(q.units) = StartOf(q.regions, Len(q.regions) + 1)
        BY DEF MadeOf, n
      <4>3. UnitsOf(q, i) = [m \in 1 .. SizeIn(q.regions[i]) |-> q.units[StartOf(q.regions, i) + m]]
        BY <4>1, <4>2, UnitsCut
      <4> QED  BY <1>4, <4>3
    <3>8. UnitsOf(q, i) = UnitsOf(p, i)
      BY <1>3 DEF MadeOf, stream, n
    <3> QED  BY <3>1, <3>5, <3>6, <3>7, <3>8
  <2> QED  BY <2>1, <2>2, <2>3, <2>4
<1>6. /\ q = [regions |-> q.regions, units |-> q.units, gap |-> p.gap, mapAt |-> q.mapAt]
      /\ q.mapAt = Len(q.units) + (IF p.gap THEN 1 ELSE 0)
  BY DEF MadeOf
<1>7. p.mapAt = Len(p.units) + (IF p.gap THEN 1 ELSE 0)
  BY DEF ReadsAsBank
<1>8. p = [regions |-> p.regions, units |-> p.units, gap |-> p.gap, mapAt |-> p.mapAt]
  BY <1>1 DEF WellFormed
<1> QED  BY <1>4, <1>5, <1>6, <1>7, <1>8

LEMMA RebuiltSize ==
  ASSUME NEW p \in Templates, ReadsAsBank(p), NEW bank, NEW preserve
  PROVE  Rebuilt(p, bank, preserve).mapAt \in Nat
<1> DEFINE q == Rebuilt(p, bank, preserve)
<1>1. MadeOf(q, p, bank, preserve) /\ p.gap \in BOOLEAN
  BY RebuiltFacts, PackageFacts
<1> HIDE DEF q
<1>2. q.mapAt \in Nat
  BY <1>1 DEF MadeOf
<1> QED  BY <1>2 DEF q

LEMMA ReplacedIsBank ==
  ASSUME NEW out, NEW e, NEW new
  PROVE  Replaced(out, e, new) = [c \in Cell |-> Replaced(out, e, new)[c]]
<1> DEFINE content(c) ==
      CASE c \in Span(e[2], StoredSize[new]) ->
             Stream(e[1], new, DestinationAt(out, e[2]))[c - e[2] + 1]
        [] c \in SpanAt(out, e[2]) \ Span(e[2], StoredSize[new]) -> Blank
        [] OTHER -> out[c]
<1>1. Replaced(out, e, new) = [c \in Cell |-> content(c)]
  BY DEF Replaced
<1> HIDE DEF content
<1> QED  BY <1>1

(* What the rebuild checks of its own result holds, if the bank has not    *)
(* changed outside of the regions and the package is not too large.        *)
LEMMA Accepted ==
  ASSUME NEW p \in Templates, ReadsAsBank(p), NEW bank, NEW preserve \in BOOLEAN,
         bank = [c \in Cell |-> bank[c]], \A c \in Cell \ Mapped(p) : bank[c] = Blank,
         Rebuilt(p, bank, preserve).mapAt <= PackageLimit
  PROVE  RebuildAccepts(p, bank, preserve)
<1> DEFINE q == Rebuilt(p, bank, preserve)
<1>1. MadeOf(q, p, bank, preserve) /\ q.mapAt <= PackageLimit
  BY RebuiltFacts
<1>2. RebuildAccepts(p, bank, preserve) <=>
        /\ ReadsAsBank(q) /\ BuildBank(q) = bank
        /\ preserve /\ bank = BuildBank(p) => q = p
  BY DEF RebuildAccepts
<1> HIDE DEF q
<1>3. ReadsAsBank(q)
  BY <1>1, RebuiltReads
<1>4. BuildBank(q) = bank
  BY <1>1, RebuiltHolds
<1>5. ASSUME preserve, bank = BuildBank(p) PROVE q = p
  <2>1. MadeOf(q, p, bank, TRUE)
    BY <1>1, <1>5
  <2> QED  BY <1>5, <2>1, RebuiltSame
<1> QED  BY <1>2, <1>3, <1>4, <1>5

RebuildInv ==
    /\ zxStep \in {"tables", "payloads", "composed", "edited"} =>
         zxTemplate \in Templates /\ ReadsAsBank(zxTemplate)
    /\ zxStep \in {"payloads", "composed", "edited"} => zxOut = [c \in Cell |-> zxOut[c]]
    /\ RebuildRefusesOnlyUnmapped

LEMMA RebuildStarts == BankEditInit => RebuildInv
  BY DEF BankEditInit, RebuildInv, RebuildRefusesOnlyUnmapped

LEMMA RebuildInvKept == EditInv /\ RebuildInv /\ [BankEditNext]_zxVars => RebuildInv'
<1> SUFFICES ASSUME EditInv, RebuildInv, [BankEditNext]_zxVars
             PROVE  RebuildInv'
  OBVIOUS
<1>1. CASE StartExtraction \/ ExtractFile \/ ExtractBank \/ ExtractManifest \/ ExtractionStops
  <2>1. zxStep' \in {"extract", "extracted", "refused"}
    BY <1>1 DEF StartExtraction, ExtractFile, ExtractBank, ExtractManifest, ExtractionStops
  <2> QED  BY <2>1 DEF RebuildInv, RebuildRefusesOnlyUnmapped
<1>2. CASE EditRecord \/ EditPayload \/ SpoilInventory
  <2>1. zxStep' = "extracted"
    BY <1>2 DEF EditRecord, EditPayload, SpoilInventory
  <2> QED  BY <2>1 DEF RebuildInv, RebuildRefusesOnlyUnmapped
<1>3. CASE StartCompose
  <2>1. zxStep' = "refused" \/ (zxStep' = "tables" /\ Loads /\ zxTemplate' = zxTemplate)
    BY <1>3 DEF StartCompose
  <2>2. Loads => zxTemplate \in Templates /\ ReadsAsBank(zxTemplate)
    BY DEF Loads, EditInv, ManifestInv
  <2> QED  BY <2>1, <2>2 DEF RebuildInv, RebuildRefusesOnlyUnmapped
<1>4. CASE WriteTables
  <2>1. /\ zxStep = "tables" /\ zxStep' = "payloads" /\ zxTemplate' = zxTemplate
        /\ zxOut' = WithTables(zxDir.bank, zxDir.manifest.records)
    BY <1>4 DEF WriteTables
  <2>2. zxOut' = [c \in Cell |-> zxOut'[c]]
    <3> DEFINE content(c) ==
          IF TablesOver(zxDir.bank, c) = {} THEN zxDir.bank[c]
          ELSE LET h == LastOver(zxDir.bank, c)
               IN zxDir.manifest.records[h][c - TableAt(zxDir.bank, h) + 1]
    <3>1. zxOut' = [c \in Cell |-> content(c)]
      BY <2>1 DEF WithTables
    <3> HIDE DEF content
    <3> QED  BY <3>1
  <2> QED  BY <2>1, <2>2 DEF RebuildInv, RebuildRefusesOnlyUnmapped
<1>5. CASE WritePayload
  <2>1. zxStep = "payloads" /\ zxStep' \in {"payloads", "refused"} /\ zxTemplate' = zxTemplate
    BY <1>5 DEF WritePayload
  <2>2. zxOut' = [c \in Cell |-> zxOut'[c]]
    <3>1. CASE UNCHANGED zxOut
      BY <2>1, <3>1 DEF RebuildInv
    <3>2. ASSUME NEW e, NEW new, zxOut' = Replaced(zxOut, e, new)
          PROVE  zxOut' = [c \in Cell |-> zxOut'[c]]
      BY <3>2, ReplacedIsBank
    <3> QED  BY <1>5, <3>1, <3>2 DEF WritePayload
  <2> QED  BY <2>1, <2>2 DEF RebuildInv, RebuildRefusesOnlyUnmapped
<1>6. CASE RepairSection
  <2>1. /\ zxStep = "payloads" /\ zxStep' \in {"refused", "composed"} /\ zxTemplate' = zxTemplate
        /\ zxOut' = Repaired(zxOut)
    BY <1>6 DEF RepairSection
  <2>2. zxOut = [c \in Cell |-> zxOut[c]]
    BY <2>1 DEF RebuildInv
  <2>3. zxOut' = [c \in Cell |-> zxOut'[c]]
    BY <2>1, <2>2 DEF Repaired
  <2> QED  BY <2>1, <2>3 DEF RebuildInv, RebuildRefusesOnlyUnmapped
<1>7. CASE EditBank
  <2>1. zxStep = "composed" /\ zxStep' = "edited" /\ zxTemplate' = zxTemplate
    BY <1>7 DEF EditBank
  <2>2. zxOut = [c \in Cell |-> zxOut[c]]
    BY <2>1 DEF RebuildInv
  <2>3. PICK c \in Cell : zxOut' = [zxOut EXCEPT ![c] = <<"word", 9, 0>>]
    BY <1>7 DEF EditBank
  <2>4. zxOut' = [d \in Cell |-> zxOut'[d]]
    BY <2>2, <2>3
  <2> QED  BY <2>1, <2>4 DEF RebuildInv, RebuildRefusesOnlyUnmapped
<1>8. CASE \E preserve \in BOOLEAN : Rebuild(preserve)
  <2>1. PICK preserve \in BOOLEAN : Rebuild(preserve)
    BY <1>8
  <2>2. /\ zxStep \in {"composed", "edited"} /\ zxTemplate' = zxTemplate /\ zxOut' = zxOut
        /\ zxStep' = IF RebuildAccepts(zxTemplate, zxOut, preserve) THEN "rebuilt" ELSE "unrepresented"
    BY <2>1 DEF Rebuild
  <2>3. zxTemplate \in Templates /\ ReadsAsBank(zxTemplate) /\ zxOut = [c \in Cell |-> zxOut[c]]
    BY <2>2 DEF RebuildInv
  <2>4. ASSUME zxStep' = "unrepresented", \A c \in Cell \ Mapped(zxTemplate) : zxOut[c] = Blank
        PROVE  Rebuilt(zxTemplate, zxOut, preserve).mapAt > PackageLimit
    <3>1. ~RebuildAccepts(zxTemplate, zxOut, preserve)
      BY <2>2, <2>4
    <3>2. ~(Rebuilt(zxTemplate, zxOut, preserve).mapAt <= PackageLimit)
      BY <2>3, <2>4, <3>1, Accepted
    <3>3. Rebuilt(zxTemplate, zxOut, preserve).mapAt \in Nat
      BY <2>3, RebuiltSize
    <3> QED  BY <3>2, <3>3, BankAssumption
  <2>5. RebuildRefusesOnlyUnmapped'
    BY <2>2, <2>4 DEF RebuildRefusesOnlyUnmapped
  <2>6. zxStep' \in {"rebuilt", "unrepresented"}
    BY <2>2
  <2> QED  BY <2>5, <2>6 DEF RebuildInv
<1>9. CASE UNCHANGED zxVars
  BY <1>9 DEF zxVars, RebuildInv, RebuildRefusesOnlyUnmapped
<1> QED
  BY <1>1, <1>2, <1>3, <1>4, <1>5, <1>6, <1>7, <1>8, <1>9 DEF BankEditNext

(* Whatever was edited, the rebuild refuses a bank that changed outside of *)
(* the regions or has become too large, and no other.                      *)
THEOREM RefusalIsDue == BankEditSpec => []RebuildRefusesOnlyUnmapped
<1>1. RebuildInv => RebuildRefusesOnlyUnmapped
  BY DEF RebuildInv
<1> QED  BY <1>1, RebuildStarts, RebuildInvKept, AlwaysEditInv, PTL DEF BankEditSpec

-----------------------------------------------------------------------------
(* The qualification's verdict is true of the service, however slow the    *)
(* service is and whatever another process sends.  The responses counted   *)
(* bound the responses on the wire, and the client has heard as many: so   *)
(* the wire carried nothing else.                                          *)
UrlReply == [kind |-> "url", index |-> 0]
HelloReply == [kind |-> "hello", index |-> 0]
BlockReplies(n) == {[kind |-> "block", index |-> i] : i \in 0 .. n - 1}

(* What the client has heard, by the step it is at.                        *)
Heard == IF qcStep \in {"start", "selection"} THEN {}
         ELSE IF qcStep = "hello" THEN {UrlReply}
         ELSE {UrlReply, HelloReply} \cup BlockReplies(qcBlock)

Responses == count["command_responses"] + count["data_responses"]

WireInv == /\ count \in [Counter -> Nat]
           /\ IsFiniteSet(sent) /\ Cardinality(sent) <= Responses
           /\ unique = {r.index : r \in {q \in sent : q.kind = "block"}}

ProgressInv ==
    /\ qcStep \in Asking \cup QualifyOver \cup {"start", "stop", "join"}
    /\ qcBlock \in Nat
    /\ qcStep \in {"start", "selection", "hello"} => qcBlock = 0
    /\ qcStep = "blocks" => qcBlock < NumBlocks
    /\ qcStep \in Asking \cup {"start"} => ~qcError
    /\ ~qcError /\ qcStep \in {"stop", "join", "qualified"} => qcBlock = NumBlocks

VerdictInv == qcStep = "qualified" => ~qcError /\ pc = "returned" /\ CountsMatch

ClientHeardInv == ~qcError => Heard \subseteq sent /\ qcHeld = sent \ Heard

QualifyInv == WireInv /\ ProgressInv /\ VerdictInv /\ ClientHeardInv

LEMMA QualifyStarts == ServiceInit /\ QualifyInit => QualifyInv
<1> SUFFICES ASSUME ServiceInit, QualifyInit PROVE QualifyInv
  OBVIOUS
<1>1. count \in [Counter -> Nat] /\ Responses = 0
  BY DEF ServiceInit, Responses, Counter
<1>2. IsFiniteSet({}) /\ Cardinality({}) = 0
  BY FS_EmptySet
<1>3. WireInv
  BY <1>1, <1>2 DEF WireInv, ServiceInit
<1> QED  BY <1>3 DEF QualifyInv, ProgressInv, VerdictInv, ClientHeardInv, Heard, Asking, ServiceInit, QualifyInit

(* Of the service's own steps only a send adds to the wire.                *)
LEMMA CountedSend ==
  ASSUME WireInv, S!SendOk
  PROVE  WireInv' /\ sent \subseteq sent'
<1>1. PICK r \in reply : (S!SendCommand(r) \/ S!SendData(r)) /\ sent' = sent \cup {r}
  BY DEF S!SendOk
<1>2. /\ IsFiniteSet(sent') /\ Cardinality(sent') <= Cardinality(sent) + 1
  <2>1. /\ IsFiniteSet(sent \cup {r}) /\ Cardinality(sent) \in Nat
        /\ Cardinality(sent \cup {r}) = IF r \in sent THEN Cardinality(sent) ELSE Cardinality(sent) + 1
    BY FS_AddElement, FS_CardinalityType DEF WireInv
  <2> QED  BY <1>1, <2>1
<1>3. count' \in [Counter -> Nat] /\ Responses' = Responses + 1
  <2>1. CASE S!SendCommand(r)
    <3>1. count' = [c \in Counter |-> IF c \in {"command_responses"} THEN count[c] + 1 ELSE count[c]]
      BY <2>1 DEF S!SendCommand, S!Bump, S!Counter, Counter
    <3> QED  BY <3>1 DEF WireInv, Responses, Counter
  <2>2. CASE S!SendData(r)
    <3>1. count' = [c \in Counter |-> IF c \in {"data_responses"} THEN count[c] + 1 ELSE count[c]]
      BY <2>2 DEF S!SendData, S!Bump, S!Counter, Counter
    <3> QED  BY <3>1 DEF WireInv, Responses, Counter
  <2> QED  BY <1>1, <2>1, <2>2
<1>4. unique' = {q.index : q \in {p \in sent' : p.kind = "block"}}
  <2>1. CASE r.kind = "block"
    <3>1. unique' = unique \cup {r.index}
      BY <1>1, <2>1 DEF S!SendCommand, S!SendData, S!IsCommand
    <3> QED  BY <3>1, <1>1, <2>1 DEF WireInv
  <2>2. CASE r.kind # "block"
    <3>1. unique' = unique
      BY <1>1, <2>2 DEF S!SendCommand, S!SendData, S!IsCommand
    <3> QED  BY <3>1, <1>1, <2>2 DEF WireInv
  <2> QED  BY <2>1, <2>2
<1>5. Cardinality(sent') <= Responses'
  <2>1. Cardinality(sent) \in Nat /\ Cardinality(sent') \in Nat /\ Responses \in Nat
    BY <1>2, FS_CardinalityType DEF WireInv, Responses, Counter
  <2> QED  BY <2>1, <1>2, <1>3 DEF WireInv
<1> QED  BY <1>1, <1>2, <1>3, <1>4, <1>5 DEF WireInv

LEMMA CountedStep ==
  ASSUME WireInv, S!LoopStep
  PROVE  WireInv' /\ sent \subseteq sent'
<1> DEFINE Bumped == \E fields : count' = [c \in Counter |-> IF c \in fields THEN count[c] + 1 ELSE count[c]]
<1>1. CASE S!SendOk
  BY <1>1, CountedSend
<1>2. ASSUME sent' = sent, unique' = unique, count' = count \/ Bumped
      PROVE  WireInv'
  <2>1. Cardinality(sent) \in Nat
    BY FS_CardinalityType DEF WireInv
  <2>2. CASE count' = count
    BY <1>2, <2>2 DEF WireInv, Responses
  <2>3. CASE Bumped
    <3>1. PICK fields : count' = [c \in Counter |-> IF c \in fields THEN count[c] + 1 ELSE count[c]]
      BY <2>3
    <3>2. count' \in [Counter -> Nat] /\ \A c \in Counter : count'[c] >= count[c]
      BY <3>1 DEF WireInv
    <3>3. Responses' >= Responses /\ Responses \in Nat /\ Responses' \in Nat
      BY <3>2 DEF WireInv, Responses, Counter
    <3> QED  BY <1>2, <2>1, <3>2, <3>3 DEF WireInv
  <2> QED  BY <1>2, <2>2, <2>3
<1>3. CASE S!Start \/ S!LoopTop \/ S!SelectReady \/ S!SelectTimeout \/ S!SendFails
  <2>1. UNCHANGED <<sent, unique, count>>
    BY <1>3 DEF S!Start, S!LoopTop, S!SelectReady, S!SelectTimeout, S!SendFails, S!wireVars
  <2> QED  BY <2>1, <1>2
<1>4. ASSUME NEW s, NEW d, S!Receive(s, d)
      PROVE  WireInv' /\ sent \subseteq sent'
  <2>1. UNCHANGED <<sent, unique>>
    BY <1>4 DEF S!Receive, S!Discard, S!Reject, S!CommandInvalid, S!CommandAnswer, S!DataInvalid,
                S!DataAnswer, S!Take, S!AtHead, S!wireVars
  <2>2. count' = count \/ Bumped
    BY <1>4 DEF S!Receive, S!Discard, S!Reject, S!CommandInvalid, S!CommandAnswer, S!DataInvalid,
                S!DataAnswer, S!Bump, S!Counter, Counter
  <2> QED  BY <2>1, <2>2, <1>2
<1> QED  BY <1>1, <1>3, <1>4 DEF S!LoopStep

(* The wire does not change otherwise.                                     *)
LEMMA WireKept == QualifyInv /\ UNCHANGED <<sent, unique, count>> => WireInv'
  BY DEF QualifyInv, WireInv, Responses

LEMMA ArriveAside ==
  ASSUME NEW s, NEW d, S!Arrive(s, d)
  PROVE  UNCHANGED <<pc, sent, unique, count>>
  BY DEF S!Arrive, S!loopVars, S!wireVars

(* A client that raises has no more to say.                                *)
LEMMA RaisingKeeps ==
  QualifyInv /\ ClientRaises /\ qcStep \in Asking /\ UNCHANGED <<pc, sent, unique, count>> => QualifyInv'
<1> SUFFICES ASSUME QualifyInv, ClientRaises, qcStep \in Asking, UNCHANGED <<pc, sent, unique, count>>
             PROVE  QualifyInv'
  OBVIOUS
<1>1. qcError' = TRUE /\ qcStep' = "stop" /\ qcBlock' = qcBlock
  BY DEF ClientRaises
<1> QED  BY <1>1, WireKept DEF QualifyInv, ProgressInv, VerdictInv, ClientHeardInv, Asking, QualifyOver

LEMMA ClientAsksKeeps == QualifyInv /\ ClientAsks => QualifyInv'
<1> SUFFICES ASSUME QualifyInv, ClientAsks PROVE QualifyInv'
  OBVIOUS
<1>1. CASE now >= SessionLimit
  <2>1. ClientRaises /\ UNCHANGED serviceVars /\ qcStep \in Asking
    BY <1>1 DEF ClientAsks
  <2> QED  BY <2>1, RaisingKeeps DEF serviceVars, loopVars, wireVars
<1>2. CASE ~(now >= SessionLimit)
  <2>1. UNCHANGED <<qcStep, qcBlock, qcHeld, qcError>>
    BY <1>2 DEF ClientAsks
  <2>2. UNCHANGED <<pc, sent, unique, count>>
    BY <1>2, ArriveAside DEF ClientAsks, serviceVars, loopVars, wireVars
  <2> QED  BY <2>1, <2>2, WireKept DEF QualifyInv, ProgressInv, VerdictInv, CountsMatch, ClientHeardInv, Heard
<1> QED  BY <1>1, <1>2

(* What the client expects is what it has not heard, so it hears it once.  *)
LEMMA BlockRepliesGrow ==
  ASSUME NEW n \in Nat
  PROVE  BlockReplies(n + 1) = BlockReplies(n) \cup {[kind |-> "block", index |-> n]}
<1>1. 0 .. (n + 1) - 1 = (0 .. n - 1) \cup {n}
  OBVIOUS
<1> QED  BY <1>1 DEF BlockReplies

LEMMA ClientHearsKeeps == \A r : QualifyInv /\ ClientHears(r) => QualifyInv'
<1> SUFFICES ASSUME NEW r, QualifyInv, ClientHears(r) PROVE QualifyInv'
  OBVIOUS
<1>1. /\ qcStep \in Asking /\ r \in qcHeld /\ UNCHANGED <<pc, sent, unique, count>>
  BY DEF ClientHears, serviceVars, loopVars, wireVars
<1>2. CASE ~ClientExpects(r)
  BY <1>1, <1>2, RaisingKeeps DEF ClientHears
<1>3. CASE ClientExpects(r)
  <2>1. qcHeld' = qcHeld \ {r} /\ qcError' = qcError
    BY <1>3 DEF ClientHears
  <2>2. /\ ~qcError /\ Heard \subseteq sent /\ qcHeld = sent \ Heard /\ qcBlock \in Nat
    BY <1>1 DEF QualifyInv, ProgressInv, ClientHeardInv
  <2>3. NumBlocks \in Nat /\ NumBlocks > 0
    BY NumBlocksAssumption
  <2>4. /\ Heard' = Heard \cup {r} /\ ProgressInv' /\ VerdictInv'
    <3>1. CASE qcStep = "selection"
      <4>1. r = UrlReply
        BY <1>3, <3>1 DEF ClientExpects, UrlReply
      <4>2. qcStep' = "hello" /\ qcBlock' = qcBlock
        BY <1>3, <3>1 DEF ClientHears
      <4>3. Heard' = Heard \cup {r}
        BY <3>1, <4>1, <4>2 DEF Heard, UrlReply
      <4> QED  BY <2>1, <2>2, <3>1, <4>2, <4>3 DEF QualifyInv, ProgressInv, VerdictInv, Asking, QualifyOver
    <3>2. CASE qcStep = "hello"
      <4>1. r = HelloReply
        BY <1>3, <3>2 DEF ClientExpects, ClientRequest, HelloReply
      <4>2. qcStep' = "blocks" /\ qcBlock' = qcBlock /\ qcBlock = 0
        BY <1>3, <3>2 DEF ClientHears, QualifyInv, ProgressInv
      <4>3. BlockReplies(0) = {}
        BY DEF BlockReplies
      <4>4. Heard' = {UrlReply, HelloReply} \cup BlockReplies(0) /\ Heard = {UrlReply}
        BY <3>2, <4>2 DEF Heard, UrlReply, HelloReply, BlockReplies
      <4> QED  BY <2>1, <2>2, <2>3, <3>2, <4>1, <4>2, <4>3, <4>4
               DEF QualifyInv, ProgressInv, VerdictInv, Asking, QualifyOver
    <3>3. CASE qcStep = "blocks"
      <4>1. r = [kind |-> "block", index |-> qcBlock]
        BY <1>3, <3>3 DEF ClientExpects, ClientRequest
      <4>2. /\ qcStep' = IF qcBlock = NumBlocks - 1 THEN "stop" ELSE "blocks"
            /\ qcBlock' = qcBlock + 1 /\ qcBlock < NumBlocks
        BY <1>3, <3>3 DEF ClientHears, QualifyInv, ProgressInv
      <4>3. Heard' = {UrlReply, HelloReply} \cup BlockReplies(qcBlock + 1)
        BY <4>2 DEF Heard, UrlReply, HelloReply, BlockReplies
      <4>4. Heard = {UrlReply, HelloReply} \cup BlockReplies(qcBlock)
        BY <3>3 DEF Heard
      <4>5. Heard' = Heard \cup {r}
        BY <2>2, <4>1, <4>3, <4>4, BlockRepliesGrow
      <4> QED  BY <2>1, <2>2, <2>3, <3>3, <4>2, <4>5
               DEF QualifyInv, ProgressInv, VerdictInv, Asking, QualifyOver
    <3> QED  BY <1>1, <3>1, <3>2, <3>3 DEF Asking
  <2>5. ClientHeardInv'
    BY <1>1, <2>1, <2>2, <2>4 DEF ClientHeardInv
  <2> QED  BY <1>1, <2>4, <2>5, WireKept DEF QualifyInv
<1> QED  BY <1>2, <1>3

LEMMA ThreadStepKeeps == QualifyInv /\ ThreadStep => QualifyInv'
<1> SUFFICES ASSUME QualifyInv, ThreadStep PROVE QualifyInv'
  OBVIOUS
<1>1. /\ qcStep \notin QualifyOver \cup {"start"} /\ S!LoopStep
      /\ qcHeld' = qcHeld \cup (sent' \ sent)
      /\ UNCHANGED <<qcStep, qcBlock, qcError>>
  BY DEF ThreadStep
<1>2. WireInv' /\ sent \subseteq sent'
  BY <1>1, CountedStep DEF QualifyInv
<1>3. Heard' = Heard
  BY <1>1 DEF Heard
<1>4. ClientHeardInv'
  BY <1>1, <1>2, <1>3 DEF QualifyInv, ClientHeardInv
<1> QED  BY <1>1, <1>2, <1>4 DEF QualifyInv, ProgressInv, VerdictInv, QualifyOver

LEMMA MainKeeps ==
  QualifyInv /\ (StartQualification \/ ClientTimesOut \/ StopService \/ Conclude) => QualifyInv'
<1> SUFFICES ASSUME QualifyInv, StartQualification \/ ClientTimesOut \/ StopService \/ Conclude
             PROVE  QualifyInv'
  OBVIOUS
<1>1. UNCHANGED <<pc, sent, unique, count>>
  BY DEF StartQualification, ClientTimesOut, StopService, Conclude, serviceVars, loopVars, wireVars
<1>2. CASE StartQualification
  <2>1. /\ qcStep = "start" /\ qcStep' = "selection" /\ UNCHANGED <<qcBlock, qcHeld, qcError>>
    BY <1>2 DEF StartQualification
  <2> QED  BY <1>1, <2>1, WireKept DEF QualifyInv, ProgressInv, VerdictInv, ClientHeardInv, Heard, Asking, QualifyOver
<1>3. CASE ClientTimesOut
  BY <1>1, <1>3, RaisingKeeps DEF ClientTimesOut
<1>4. CASE StopService
  <2>1. /\ qcStep = "stop" /\ qcStep' = "join" /\ UNCHANGED <<qcBlock, qcHeld, qcError>>
    BY <1>4 DEF StopService
  <2>2. Heard' = Heard
    BY <2>1 DEF Heard
  <2> QED  BY <1>1, <2>1, <2>2, WireKept DEF QualifyInv, ProgressInv, VerdictInv, ClientHeardInv, Asking, QualifyOver
<1>5. CASE Conclude
  <2>1. /\ qcStep = "join" /\ UNCHANGED <<qcBlock, qcHeld, qcError>>
        /\ qcStep' \in {"qualified", "refused"}
        /\ qcStep' = "qualified" => ~qcError /\ pc = "returned" /\ CountsMatch
    BY <1>5 DEF Conclude, JoinReturns
  <2>2. Heard' = Heard
    BY <2>1 DEF Heard
  <2>3. VerdictInv'
    BY <1>1, <2>1 DEF VerdictInv, CountsMatch
  <2> QED  BY <1>1, <2>1, <2>2, <2>3, WireKept DEF QualifyInv, ProgressInv, ClientHeardInv, Asking, QualifyOver
<1> QED  BY <1>2, <1>3, <1>4, <1>5

LEMMA AsideKeeps ==
  QualifyInv /\ (QualifyTick \/ ForeignArrives \/ UNCHANGED qualifyVars) => QualifyInv'
<1> SUFFICES ASSUME QualifyInv, QualifyTick \/ ForeignArrives \/ UNCHANGED qualifyVars
             PROVE  QualifyInv'
  OBVIOUS
<1>1. UNCHANGED <<pc, sent, unique, count>> /\ UNCHANGED <<qcStep, qcBlock, qcHeld, qcError>>
  BY ArriveAside DEF QualifyTick, ForeignArrives, qualifyVars, clientVars, serviceVars, loopVars, wireVars
<1> QED  BY <1>1, WireKept DEF QualifyInv, ProgressInv, VerdictInv, CountsMatch, ClientHeardInv, Heard

LEMMA QualifyInvKept == QualifyInv /\ [QualifyNext]_qualifyVars => QualifyInv'
  BY ClientAsksKeeps, ClientHearsKeeps, ThreadStepKeeps, MainKeeps, AsideKeeps DEF QualifyNext, MainStep

LEMMA AlwaysQualifyInv == QualifySpec => []QualifyInv
  BY QualifyInvKept, QualifyStarts, PTL DEF QualifySpec

(* As many replies as the client waits for.                                *)
LEMMA RepliesCounted ==
  LET all == {UrlReply, HelloReply} \cup BlockReplies(NumBlocks)
  IN  IsFiniteSet(all) /\ Cardinality(all) = NumBlocks + 2
<1> DEFINE blocks == BlockReplies(NumBlocks)
           f == [i \in 0 .. NumBlocks - 1 |-> [kind |-> "block", index |-> i]]
<1>1. IsFiniteSet(0 .. NumBlocks - 1) /\ Cardinality(0 .. NumBlocks - 1) = NumBlocks
  BY NumBlocksAssumption, FS_Interval
<1>2. f \in Bijection(0 .. NumBlocks - 1, blocks)
  <2>1. f \in [0 .. NumBlocks - 1 -> blocks]
    BY DEF BlockReplies
  <2>2. \A i, j \in 0 .. NumBlocks - 1 : f[i] = f[j] => i = j
    OBVIOUS
  <2>3. \A r \in blocks : \E i \in 0 .. NumBlocks - 1 : f[i] = r
    BY DEF BlockReplies
  <2> QED  BY <2>1, <2>2, <2>3 DEF Bijection, Injection, Surjection, IsInjective
<1>3. IsFiniteSet(blocks) /\ Cardinality(blocks) = NumBlocks
  BY <1>1, <1>2, FS_Bijection DEF ExistsBijection
<1>4. HelloReply \notin blocks /\ UrlReply \notin blocks \cup {HelloReply}
  BY DEF BlockReplies, HelloReply, UrlReply
<1> HIDE DEF blocks
<1>5. IsFiniteSet(blocks \cup {HelloReply}) /\ Cardinality(blocks \cup {HelloReply}) = NumBlocks + 1
  BY <1>3, <1>4, FS_AddElement
<1>6. /\ IsFiniteSet((blocks \cup {HelloReply}) \cup {UrlReply})
      /\ Cardinality((blocks \cup {HelloReply}) \cup {UrlReply}) = (NumBlocks + 1) + 1
  BY <1>4, <1>5, FS_AddElement
<1>7. (blocks \cup {HelloReply}) \cup {UrlReply} = {UrlReply, HelloReply} \cup blocks
  OBVIOUS
<1> QED  BY <1>6, <1>7, NumBlocksAssumption DEF blocks

(* However slow or broken the service is, a qualification is granted only  *)
(* of one that has ended, after it answered each request of the client     *)
(* and nobody else, with every block of the image on the wire once.        *)
THEOREM VerdictHolds == QualifySpec => []VerdictIsTrue
<1>1. QualifyInv => VerdictIsTrue
  <2> SUFFICES ASSUME QualifyInv, qcStep = "qualified"
               PROVE  /\ pc = "returned" /\ unique = Block /\ qcHeld = {}
                      /\ sent = {UrlReply, HelloReply} \cup [kind : {"block"}, index : Block]
                      /\ count["data_responses"] = Cardinality(sent) - 1
    BY DEF VerdictIsTrue, UrlReply, HelloReply
  <2> DEFINE all == {UrlReply, HelloReply} \cup BlockReplies(NumBlocks)
  <2>1. ~qcError /\ pc = "returned" /\ CountsMatch /\ qcBlock = NumBlocks
    BY DEF QualifyInv, VerdictInv, ProgressInv
  <2>2. count["command_responses"] = 1 /\ count["data_responses"] = NumBlocks + 1
    BY <2>1 DEF CountsMatch, Counter
  <2>3. Heard = all
    BY <2>1 DEF Heard
  <2>4. all \subseteq sent /\ qcHeld = sent \ all
    BY <2>1, <2>3 DEF QualifyInv, ClientHeardInv
  <2>5. IsFiniteSet(sent) /\ Cardinality(sent) <= NumBlocks + 2
    BY <2>2, NumBlocksAssumption DEF QualifyInv, WireInv, Responses
  <2>6. IsFiniteSet(all) /\ Cardinality(all) = NumBlocks + 2
    BY RepliesCounted
  <2> HIDE DEF all
  <2>7. sent = all
    <3>1. Cardinality(all) <= Cardinality(sent)
      BY <2>4, <2>5, FS_Subset
    <3>2. Cardinality(sent) \in Nat
      BY <2>5, FS_CardinalityType
    <3>3. Cardinality(all) = Cardinality(sent)
      BY <2>5, <2>6, <3>1, <3>2, NumBlocksAssumption
    <3> QED  BY <2>4, <2>5, <3>3, FS_Subset
  <2>8. BlockReplies(NumBlocks) = [kind : {"block"}, index : Block]
    <3>1. ASSUME NEW r \in [kind : {"block"}, index : Block]
          PROVE  r \in BlockReplies(NumBlocks)
      <4>1. r = [kind |-> "block", index |-> r.index] /\ r.index \in 0 .. NumBlocks - 1
        BY DEF Block
      <4> QED  BY <4>1 DEF BlockReplies
    <3>2. ASSUME NEW r \in BlockReplies(NumBlocks)
          PROVE  r \in [kind : {"block"}, index : Block]
      BY DEF BlockReplies, Block
    <3> QED  BY <3>1, <3>2
  <2>9. unique = Block
    <3>1. {q \in sent : q.kind = "block"} = BlockReplies(NumBlocks)
      BY <2>7 DEF all, UrlReply, HelloReply, BlockReplies
    <3>2. unique = {r.index : r \in BlockReplies(NumBlocks)}
      BY <3>1 DEF QualifyInv, WireInv
    <3>3. ASSUME NEW i \in Block PROVE i \in unique
      <4>1. [kind |-> "block", index |-> i] \in BlockReplies(NumBlocks)
        BY DEF BlockReplies, Block
      <4> QED  BY <3>2, <4>1
    <3>4. ASSUME NEW i \in unique PROVE i \in Block
      BY <3>2 DEF BlockReplies, Block
    <3> QED  BY <3>3, <3>4
  <2>10. count["data_responses"] = Cardinality(sent) - 1
    BY <2>2, <2>6, <2>7, NumBlocksAssumption
  <2> QED  BY <2>1, <2>4, <2>7, <2>8, <2>9, <2>10 DEF all
<1> QED  BY <1>1, AlwaysQualifyInv, PTL

-----------------------------------------------------------------------------
(* ProfileConversion, for every profile, dictionary and limit.  The parser *)
(* keeps one record per tag wherever it is stored; what the files are made *)
(* from is settled when the last line is read; each file that is made      *)
(* holds its share of it.  That what was parsed is what the profile says   *)
(* is shown further down, where the parser is followed along the includes. *)

Line(line) == /\ line.kind \in {"special", "attribute", "include"}
              /\ line.kind = "special" => line.tag \in Nat /\ line.value \in Nat
              /\ line.kind = "attribute" => line.value \in Nat
Rec == [tag : Nat, value : Nat, extended : BOOLEAN, sensitive : BOOLEAN]
OpenFile == [file : DOMAIN cfProfile, next : Nat \ {0}]
(* The open files are files of the directory, and the directory was given. *)
StackInv == /\ cfStack \in Seq(OpenFile) /\ Len(cfStack) <= DepthLimit + 1
            /\ cfStep = "parse" => cfProfile \in Profiles
            /\ cfBudget \in 0 .. InputLimit + 1
            /\ cfStep \in {"start", "parse"} => cfBudget <= InputLimit

(* No tag has two records.                                                 *)
TagsInv == /\ \A t \in DOMAIN cfSmall : t \in Nat /\ t < SmallTag /\ cfSmall[t].tag = t
           /\ cfPseudo \in Seq(Rec) /\ Len(cfPseudo) <= PseudoLimit
           /\ \A i \in 1 .. Len(cfPseudo) : cfPseudo[i].tag >= SmallTag
           /\ \A i, j \in 1 .. Len(cfPseudo) : cfPseudo[i].tag = cfPseudo[j].tag => i = j

(* A file that was made is planned and holds its share.                    *)
FilesInv == /\ cfStep \in {"start", "parse"} => DOMAIN cfFiles = {}
            /\ \A n \in DOMAIN cfFiles : /\ n \in Planned
                                         /\ cfFiles[n].records = Records(n)
                                         /\ cfFiles[n].link = LinkOf(n)
            /\ cfStep = "published" => DOMAIN cfFiles = Planned

ConvInv == /\ cfStep \in {"start", "parse", "write", "published", "refused"}
           /\ cfOptions \in Options
           /\ StackInv /\ TagsInv /\ FilesInv
           /\ cfText \in [FileNames -> {"unread", "text", "garbage"}]

(* What the files are made from is settled once it is parsed.              *)
LEMMA SharesStay ==
  ASSUME UNCHANGED <<cfOptions, cfParsed>>
  PROVE  /\ Planned' = Planned /\ Passes' = Passes /\ (IsSplit' <=> IsSplit)
         /\ Kept(Parsed)' = Kept(Parsed)
         /\ \A n : Records(n)' = Records(n) /\ LinkOf(n)' = LinkOf(n)
<1>1. UNCHANGED <<cfOptions, cfSmall, cfPseudo>>
  BY DEF cfParsed
<1>2. Parsed' = Parsed
  BY <1>1 DEF Parsed
<1>3. Kept(Parsed)' = Kept(Parsed)
  BY <1>1, <1>2 DEF Kept
<1>4. IsSplit' <=> IsSplit
  BY <1>1, <1>2, <1>3 DEF IsSplit
<1>5. Passes' = Passes
  BY <1>1 DEF Passes
<1>6. Planned' = Planned
  BY <1>4, <1>5 DEF Planned, PassOf, Extends
<1>7. ASSUME NEW n PROVE Records(n)' = Records(n) /\ LinkOf(n)' = LinkOf(n)
  BY <1>3, <1>4 DEF Records, LinkOf, PassOf, Extends
<1> QED
  BY <1>3, <1>4, <1>5, <1>6, <1>7

LEMMA FilesStay ==
  ASSUME FilesInv, UNCHANGED <<cfOptions, cfParsed, cfFiles>>,
         cfStep' = cfStep \/ cfStep' = "refused"
  PROVE  FilesInv'
  BY SharesStay DEF FilesInv

LEMMA ConversionStarts == ConversionInit => ConvInv
<1> SUFFICES ASSUME ConversionInit PROVE ConvInv
  OBVIOUS
<1>1. cfStack \in Seq(OpenFile) /\ Len(cfStack) = 0 /\ cfPseudo \in Seq(Rec) /\ Len(cfPseudo) = 0
  BY DEF ConversionInit
<1>2. cfOptions \in Options
  BY DEF ConversionInit, Options
<1>3. StackInv
  BY <1>1, ConversionAssumption DEF ConversionInit, StackInv
<1>4. TagsInv
  BY <1>1, ConversionAssumption DEF ConversionInit, TagsInv
<1>5. FilesInv /\ cfText \in [FileNames -> {"unread", "text", "garbage"}]
  BY DEF ConversionInit, FilesInv
<1> QED
  BY <1>2, <1>3, <1>4, <1>5 DEF ConvInv, ConversionInit

LEMMA StartConversionKeeps == ConvInv /\ StartConversion => ConvInv'
<1> SUFFICES ASSUME ConvInv, StartConversion PROVE ConvInv'
  OBVIOUS
<1>1. /\ cfStep = "start" /\ cfStep' = "parse" /\ cfOptions' \in Options /\ cfProfile' \in Profiles
      /\ cfStack' = <<[file |-> MainFile, next |-> 1]>>
      /\ UNCHANGED <<cfBudget, cfSmall, cfPseudo, cfFiles, cfText>>
  BY DEF StartConversion, cfParsed
<1>2. [file |-> MainFile, next |-> 1] \in OpenFile'
  BY <1>1, ConversionAssumption DEF OpenFile
<1>3. cfStack' \in Seq(OpenFile') /\ Len(cfStack') = 1
  BY <1>1, <1>2
<1>4. StackInv'
  BY <1>1, <1>3, ConversionAssumption DEF ConvInv, StackInv
<1>5. TagsInv' /\ FilesInv'
  BY <1>1 DEF ConvInv, TagsInv, FilesInv
<1> QED
  BY <1>1, <1>4, <1>5 DEF ConvInv

LEMMA FrontOf ==
  ASSUME NEW T, NEW s \in Seq(T), s # <<>>
  PROVE  Front(s) \in Seq(T) /\ Len(Front(s)) = Len(s) - 1
<1>1. PICK n \in Nat : n = Len(s) - 1 /\ n + 1 = Len(s)
  OBVIOUS
<1>2. n \in Int /\ 1 \in Int /\ \A i \in 1 .. n : s[i] \in T
  BY <1>1
<1>3. SubSeq(s, 1, n) \in Seq(T) /\ Len(SubSeq(s, 1, n)) = IF 1 <= n THEN n - 1 + 1 ELSE 0
  BY <1>2, SubSeqProperties
<1>4. (IF 1 <= n THEN n - 1 + 1 ELSE 0) = n
  BY <1>1
<1> QED
  BY <1>1, <1>3, <1>4, Zenon DEF Front

(* The line that is read, and the stack with its file moved on.            *)
LEMMA LineFacts ==
  ASSUME ConvInv, cfStep = "parse", cfStack # <<>>, ~AtEnd
  PROVE  /\ Line(LineAt)
         /\ NextLine \in Seq(OpenFile) /\ Len(NextLine) = Len(cfStack)
<1>1. Len(cfStack) \in Nat \ {0} /\ Frame \in OpenFile
  BY DEF ConvInv, StackInv, Frame
<1>2. cfProfile \in Profiles /\ Frame.file \in DOMAIN cfProfile /\ Frame.next \in Nat \ {0}
  BY <1>1 DEF ConvInv, StackInv, OpenFile
<1>3. Line(LineAt)
  BY <1>2, ConversionAssumption DEF AtEnd, LineAt, Line
<1>4. [Frame EXCEPT !.next = @ + 1] \in OpenFile
  BY <1>1 DEF OpenFile
<1>5. Front(cfStack) \in Seq(OpenFile) /\ Len(Front(cfStack)) = Len(cfStack) - 1
  BY <1>1, FrontOf DEF ConvInv, StackInv
<1> QED
  BY <1>1, <1>3, <1>4, <1>5 DEF NextLine

(* An attribute assigns a record of its tag; the tag has no other.         *)
LEMMA AssignedFacts ==
  ASSUME NEW line, Line(line), line.kind # "include", NEW record \in Assigned(line)
  PROVE  record \in Rec
<1>1. CASE line.kind = "special"
  <2>1. record \in SpecialRecords(line)
    BY <1>1 DEF Assigned
  <2>2. record = [tag |-> line.tag, value |-> line.value, extended |-> FALSE, sensitive |-> FALSE]
    BY <2>1 DEF SpecialRecords
  <2>3. line.tag \in Nat /\ line.value \in Nat
    BY <1>1 DEF Line
  <2> QED
    BY <2>2, <2>3 DEF Rec
<1>2. CASE line.kind = "attribute"
  <2>1. PICK e \in EntryByName(line.name) :
          record = [tag |-> e.tag, value |-> Encode(e, line.value),
                    extended |-> e.extended, sensitive |-> e.sensitive]
    BY <1>2 DEF Assigned, AttributeRecords
  <2>2. e.tag \in Nat /\ e.extended \in BOOLEAN /\ e.sensitive \in BOOLEAN
    BY ConversionAssumption DEF EntryByName, LinesNamed
  <2>3. Encode(e, line.value) \in Nat
    BY <1>2 DEF Encode, Line
  <2> QED
    BY <2>1, <2>2, <2>3 DEF Rec
<1> QED
  BY <1>1, <1>2 DEF Line

LEMMA SmallKeeps ==
  ASSUME TagsInv, NEW record \in Rec, record.tag < SmallTag,
         cfSmall' = [t \in DOMAIN cfSmall \cup {record.tag} |->
                       IF t = record.tag THEN record ELSE cfSmall[t]],
         UNCHANGED cfPseudo
  PROVE  TagsInv'
  BY DEF TagsInv, Rec

LEMMA PseudoKeeps ==
  ASSUME TagsInv, NEW record \in Rec, record.tag >= SmallTag, StorePseudo(record),
         UNCHANGED cfSmall
  PROVE  TagsInv'
<1> DEFINE at == {i \in 1 .. Len(cfPseudo) : cfPseudo[i].tag = record.tag}
<1>1. cfPseudo \in Seq(Rec) /\ Len(cfPseudo) \in Nat /\ PseudoLimit \in Nat
  BY ConversionAssumption DEF TagsInv
<1>2. CASE at # {}
  <2>1. cfPseudo' = [i \in 1 .. Len(cfPseudo) |-> IF i \in at THEN record ELSE cfPseudo[i]]
    BY <1>2 DEF StorePseudo
  <2>2. cfPseudo' \in Seq(Rec) /\ Len(cfPseudo') = Len(cfPseudo)
    BY <1>1, <2>1
  <2>3. \A i \in 1 .. Len(cfPseudo) : cfPseudo'[i].tag = cfPseudo[i].tag
    BY <2>1
  <2> QED
    BY <2>2, <2>3 DEF TagsInv
<1>3. CASE at = {} /\ Len(cfPseudo) >= PseudoLimit
  BY <1>3 DEF StorePseudo, TagsInv
<1>4. CASE at = {} /\ ~(Len(cfPseudo) >= PseudoLimit)
  <2>1. cfPseudo' = Append(cfPseudo, record)
    BY <1>4 DEF StorePseudo
  <2>2. /\ cfPseudo' \in Seq(Rec) /\ Len(cfPseudo') = Len(cfPseudo) + 1
        /\ \A i \in 1 .. Len(cfPseudo) : cfPseudo'[i] = cfPseudo[i]
        /\ cfPseudo'[Len(cfPseudo) + 1] = record
    BY <1>1, <2>1
  <2>3. \A i \in 1 .. Len(cfPseudo) : cfPseudo[i].tag # record.tag
    BY <1>4
  <2>4. \A i \in 1 .. Len(cfPseudo') : i \in 1 .. Len(cfPseudo) \/ i = Len(cfPseudo) + 1
    BY <1>1, <2>2
  <2>5. Len(cfPseudo') <= PseudoLimit
    BY <1>1, <1>4, <2>2
  <2>6. \A i \in 1 .. Len(cfPseudo') : cfPseudo'[i].tag >= SmallTag
    BY <2>2, <2>4 DEF TagsInv
  <2>7. ASSUME NEW i \in 1 .. Len(cfPseudo'), NEW j \in 1 .. Len(cfPseudo'),
               cfPseudo'[i].tag = cfPseudo'[j].tag
        PROVE  i = j
    BY <2>2, <2>3, <2>4, <2>7 DEF TagsInv
  <2> QED
    BY <2>2, <2>5, <2>6, <2>7 DEF TagsInv
<1> QED
  BY <1>2, <1>3, <1>4

LEMMA ParseAttributeKeeps == ConvInv /\ ParseAttribute => ConvInv'
<1> SUFFICES ASSUME ConvInv, ParseAttribute PROVE ConvInv'
  OBVIOUS
<1>1. /\ cfStep = "parse" /\ cfStack # <<>> /\ ~AtEnd /\ cfBudget' = cfBudget + 1
      /\ cfBudget' <= InputLimit /\ LineAt.kind # "include" /\ cfStack' = NextLine
      /\ UNCHANGED <<cfStep, cfOptions, cfProfile, cfFiles, cfText>>
  BY DEF ParseAttribute, ReadLine, cfInput
<1>2. /\ Line(LineAt)
      /\ NextLine \in Seq(OpenFile) /\ Len(NextLine) = Len(cfStack)
  BY <1>1, LineFacts
<1>3. OpenFile' = OpenFile
  BY <1>1 DEF OpenFile
<1>4. StackInv'
  BY <1>1, <1>2, <1>3, ConversionAssumption DEF ConvInv, StackInv
<1>5. TagsInv'
  <2>1. CASE UNCHANGED cfParsed
    BY <2>1 DEF ConvInv, TagsInv, cfParsed
  <2>2. ASSUME NEW record \in Assigned(LineAt), record.tag < SmallTag,
               cfSmall' = [t \in DOMAIN cfSmall \cup {record.tag} |->
                             IF t = record.tag THEN record ELSE cfSmall[t]],
               UNCHANGED cfPseudo
        PROVE  TagsInv'
    BY <1>1, <1>2, <2>2, AssignedFacts, SmallKeeps DEF ConvInv
  <2>3. ASSUME NEW record \in Assigned(LineAt), record.tag >= SmallTag, StorePseudo(record),
               UNCHANGED cfSmall
        PROVE  TagsInv'
    BY <1>1, <1>2, <2>3, AssignedFacts, PseudoKeeps DEF ConvInv
  <2> QED
    BY <2>1, <2>2, <2>3 DEF ParseAttribute
<1>6. FilesInv'
  BY <1>1 DEF ConvInv, FilesInv
<1> QED
  BY <1>1, <1>4, <1>5, <1>6 DEF ConvInv

LEMMA ParseIncludeKeeps == ConvInv /\ ParseInclude => ConvInv'
<1> SUFFICES ASSUME ConvInv, ParseInclude PROVE ConvInv'
  OBVIOUS
<1>1. /\ cfStep = "parse" /\ cfStack # <<>> /\ ~AtEnd /\ cfBudget' = cfBudget + 1
      /\ cfBudget' <= InputLimit
      /\ Len(cfStack) > DepthLimit \/ LineAt.file \in DOMAIN cfProfile
      /\ cfStack' = IF Len(cfStack) > DepthLimit THEN NextLine
                    ELSE Append(NextLine, [file |-> LineAt.file, next |-> 1])
      /\ UNCHANGED <<cfStep, cfOptions, cfProfile, cfSmall, cfPseudo, cfFiles, cfText>>
  BY DEF ParseInclude, ReadLine, cfInput, cfParsed
<1>2. NextLine \in Seq(OpenFile) /\ Len(NextLine) = Len(cfStack) /\ Len(cfStack) \in Nat
  BY <1>1, LineFacts DEF ConvInv, StackInv
<1>3. cfStack' \in Seq(OpenFile) /\ Len(cfStack') <= DepthLimit + 1
  <2>1. CASE Len(cfStack) > DepthLimit
    BY <1>1, <1>2, <2>1 DEF ConvInv, StackInv
  <2>2. CASE ~(Len(cfStack) > DepthLimit)
    <3>1. [file |-> LineAt.file, next |-> 1] \in OpenFile
      BY <1>1, <2>2 DEF OpenFile
    <3> QED
      BY <1>1, <1>2, <2>2, <3>1, ConversionAssumption
  <2> QED
    BY <2>1, <2>2
<1>4. OpenFile' = OpenFile
  BY <1>1 DEF OpenFile
<1>5. StackInv'
  BY <1>1, <1>3, <1>4, ConversionAssumption DEF ConvInv, StackInv
<1>6. TagsInv' /\ FilesInv'
  BY <1>1 DEF ConvInv, TagsInv, FilesInv
<1> QED
  BY <1>1, <1>5, <1>6 DEF ConvInv

LEMMA RefuseProfileKeeps == ConvInv /\ RefuseProfile => ConvInv'
<1> SUFFICES ASSUME ConvInv, RefuseProfile PROVE ConvInv'
  OBVIOUS
<1>1. /\ cfStep = "parse" /\ cfBudget' = cfBudget + 1 /\ cfStep' = "refused"
      /\ UNCHANGED <<cfOptions, cfProfile, cfStack, cfSmall, cfPseudo, cfFiles, cfText>>
  BY DEF RefuseProfile, ReadLine, cfInput, cfParsed
<1>2. OpenFile' = OpenFile
  BY <1>1 DEF OpenFile
<1>3. StackInv'
  BY <1>1, <1>2, ConversionAssumption DEF ConvInv, StackInv
<1>4. TagsInv' /\ FilesInv'
  BY <1>1 DEF ConvInv, TagsInv, FilesInv
<1> QED
  BY <1>1, <1>3, <1>4 DEF ConvInv

LEMMA EndOfFileKeeps == ConvInv /\ EndOfFile => ConvInv'
<1> SUFFICES ASSUME ConvInv, EndOfFile PROVE ConvInv'
  OBVIOUS
<1>1. /\ cfStep = "parse" /\ cfStack # <<>> /\ cfStack' = Front(cfStack) /\ cfStep' \in {"write", "parse"}
      /\ UNCHANGED <<cfOptions, cfProfile, cfBudget, cfSmall, cfPseudo, cfFiles, cfText>>
  BY DEF EndOfFile, cfInput, cfParsed
<1>2. OpenFile' = OpenFile
  BY <1>1 DEF OpenFile
<1>3. cfStack' \in Seq(OpenFile) /\ Len(cfStack') <= DepthLimit + 1
  <2>1. cfStack \in Seq(OpenFile) /\ Len(cfStack) \in Nat \ {0}
    BY <1>1 DEF ConvInv, StackInv
  <2>2. Front(cfStack) \in Seq(OpenFile) /\ Len(Front(cfStack)) = Len(cfStack) - 1
    BY <1>1, <2>1, FrontOf
  <2> QED
    BY <1>1, <2>1, <2>2, ConversionAssumption DEF ConvInv, StackInv
<1>4. StackInv'
  BY <1>1, <1>2, <1>3 DEF ConvInv, StackInv
<1>5. TagsInv' /\ FilesInv'
  BY <1>1 DEF ConvInv, TagsInv, FilesInv
<1> QED
  BY <1>1, <1>4, <1>5 DEF ConvInv

LEMMA WriteOneFileKeeps == ConvInv /\ WriteOneFile => ConvInv'
<1> SUFFICES ASSUME ConvInv, WriteOneFile PROVE ConvInv'
  OBVIOUS
<1>1. /\ cfStep = "write" /\ cfStep' \in {"write", "refused"}
      /\ UNCHANGED <<cfOptions, cfProfile, cfStack, cfBudget, cfSmall, cfPseudo, cfText>>
  BY DEF WriteOneFile, cfInput, cfParsed
<1>2. PICK name \in Planned \ DOMAIN cfFiles :
        \/ UNCHANGED cfFiles
        \/ cfFiles' = [n \in DOMAIN cfFiles \cup {name} |->
             IF n # name THEN cfFiles[n]
             ELSE [records |-> Records(name), link |-> LinkOf(name),
                   key |-> IF PassOf(name) = "old" THEN cfOptions.key ELSE cfOptions.xkey]]
  BY Zenon DEF WriteOneFile
<1>3. \A n \in DOMAIN cfFiles' : /\ n \in Planned
                                 /\ cfFiles'[n].records = Records(n)
                                 /\ cfFiles'[n].link = LinkOf(n)
  BY <1>2 DEF ConvInv, FilesInv
<1>4. FilesInv'
  BY <1>1, <1>3, SharesStay DEF FilesInv, cfParsed
<1>5. StackInv' /\ TagsInv'
  BY <1>1 DEF ConvInv, StackInv, TagsInv, OpenFile
<1> QED
  BY <1>1, <1>4, <1>5 DEF ConvInv

LEMMA PublishAllKeeps == ConvInv /\ PublishAll => ConvInv'
<1> SUFFICES ASSUME ConvInv, PublishAll PROVE ConvInv'
  OBVIOUS
<1>1. /\ cfStep = "write" /\ DOMAIN cfFiles = Planned /\ cfStep' \in {"published", "refused"}
      /\ UNCHANGED <<cfOptions, cfProfile, cfStack, cfBudget, cfSmall, cfPseudo, cfFiles, cfText>>
  BY DEF PublishAll, cfInput, cfParsed
<1>2. FilesInv'
  BY <1>1, SharesStay DEF ConvInv, FilesInv, cfParsed
<1>3. StackInv' /\ TagsInv'
  BY <1>1 DEF ConvInv, StackInv, TagsInv, OpenFile
<1> QED
  BY <1>1, <1>2, <1>3 DEF ConvInv

LEMMA ReadBackKeeps ==
  ASSUME ConvInv, NEW name \in FileNames, NEW key, NEW xkey, ReadBack(name, key, xkey)
  PROVE  ConvInv'
<1>1. UNCHANGED <<cfStep, cfOptions, cfProfile, cfStack, cfBudget, cfSmall, cfPseudo, cfFiles>>
  BY DEF ReadBack, cfInput, cfParsed
<1>2. PICK text \in {"text", "garbage", "unread"} : cfText' = [cfText EXCEPT ![name] = text]
  BY Zenon DEF ReadBack
<1>3. cfText' \in [FileNames -> {"unread", "text", "garbage"}]
  BY <1>2 DEF ConvInv
<1>4. StackInv' /\ TagsInv' /\ FilesInv'
  BY <1>1, SharesStay DEF ConvInv, StackInv, TagsInv, FilesInv, OpenFile, cfParsed
<1> QED
  BY <1>1, <1>3, <1>4 DEF ConvInv

LEMMA ConversionKept == ConvInv /\ [ConversionNext]_cfVars => ConvInv'
<1>1. ASSUME ConvInv, UNCHANGED cfVars PROVE ConvInv'
  <2>1. UNCHANGED <<cfStep, cfOptions, cfProfile, cfStack, cfBudget, cfSmall, cfPseudo, cfFiles, cfText>>
    BY <1>1 DEF cfVars, cfInput, cfParsed
  <2>2. StackInv' /\ TagsInv' /\ FilesInv'
    BY <1>1, <2>1, SharesStay DEF ConvInv, StackInv, TagsInv, FilesInv, OpenFile, cfParsed
  <2> QED
    BY <1>1, <2>1, <2>2 DEF ConvInv
<1> QED
  BY <1>1, StartConversionKeeps, ParseAttributeKeeps, ParseIncludeKeeps, RefuseProfileKeeps,
     EndOfFileKeeps, WriteOneFileKeeps, PublishAllKeeps, ReadBackKeeps DEF ConversionNext

LEMMA ConversionTypes == ConvInv => ConversionTypeOK
  BY ConversionAssumption DEF ConvInv, StackInv, TagsInv, FilesInv, Planned, ConversionTypeOK

(* Two records of one tag are the same.                                    *)
LEMMA OneRecordPerTag ==
  ASSUME ConvInv, NEW r \in Parsed, NEW s \in Parsed, r.tag = s.tag
  PROVE  r = s
<1>1. \A x \in Parsed : \/ \E i \in 1 .. Len(cfPseudo) : x = cfPseudo[i] /\ x.tag >= SmallTag
                        \/ x.tag \in DOMAIN cfSmall /\ x = cfSmall[x.tag] /\ x.tag \in Nat /\ x.tag < SmallTag
  BY DEF ConvInv, TagsInv, Parsed, Range
<1>2. SmallTag \in Nat
  BY ConversionAssumption
<1>3. ASSUME NEW i \in 1 .. Len(cfPseudo), NEW j \in 1 .. Len(cfPseudo), r = cfPseudo[i], s = cfPseudo[j]
      PROVE  r = s
  BY <1>3 DEF ConvInv, TagsInv
<1>4. ASSUME r = cfSmall[r.tag], s = cfSmall[s.tag] PROVE r = s
  BY <1>4
<1> QED
  BY <1>1, <1>2, <1>3, <1>4

LEMMA FilesMean == ConvInv => FilesHoldParsed
<1> SUFFICES ASSUME ConvInv, cfStep = "published", NEW pass \in Passes
             PROVE  LET names == {n \in DOMAIN cfFiles : PassOf(n) = pass} IN
                      /\ UNION {cfFiles[n].records : n \in names} = Kept(Parsed)
                      /\ \A m, n \in names : \A r \in cfFiles[m].records, s \in cfFiles[n].records :
                            r.tag = s.tag => m = n /\ r = s
                      /\ {cfFiles[n].link : n \in names} \ {""} = {n \in names : Extends(n)}
  BY DEF FilesHoldParsed
<1> DEFINE names == {n \in DOMAIN cfFiles : PassOf(n) = pass}
           first == IF pass = "old" THEN "out" ELSE "out.x"
           second == IF pass = "old" THEN "out.ex" ELSE "out.xex"
<1>1. DOMAIN cfFiles = Planned
  BY DEF ConvInv, FilesInv
<1>2. pass \in {"old", "strong"}
  BY DEF Passes
<1>3. /\ PassOf(first) = pass /\ PassOf(second) = pass /\ ~Extends(first) /\ Extends(second)
      /\ first \in FileNames /\ second \in FileNames /\ first # "" /\ second # "" /\ first # second
      /\ \A n \in FileNames : PassOf(n) = pass => n \in {first, second}
  BY <1>2 DEF PassOf, Extends, FileNames
<1>4. names = IF IsSplit THEN {first, second} ELSE {first}
  BY <1>1, <1>3 DEF Planned
<1>5. /\ cfFiles[first].records = Records(first) /\ cfFiles[first].link = LinkOf(first)
      /\ IsSplit => cfFiles[second].records = Records(second) /\ cfFiles[second].link = LinkOf(second)
  BY <1>1, <1>4 DEF ConvInv, FilesInv
<1>6. /\ LinkOf(first) = IF IsSplit THEN second ELSE ""
      /\ LinkOf(second) = ""
  BY <1>2, <1>3 DEF LinkOf, PassOf
<1> HIDE DEF first, second
<1>7. /\ ~IsSplit => Records(first) = Kept(Parsed)
      /\ IsSplit => /\ Records(first) \cup Records(second) = Kept(Parsed)
                    /\ Records(first) \cap Records(second) = {}
  BY <1>3 DEF Records
<1>8. UNION {cfFiles[n].records : n \in names} = Kept(Parsed)
  BY <1>4, <1>5, <1>7
<1>9. ASSUME NEW m \in names, NEW n \in names,
             NEW r \in cfFiles[m].records, NEW s \in cfFiles[n].records, r.tag = s.tag
      PROVE  m = n /\ r = s
  <2>1. r \in Kept(Parsed) /\ s \in Kept(Parsed)
    BY <1>8
  <2>2. r = s
    BY <1>9, <2>1, OneRecordPerTag DEF Kept
  <2> QED
    BY <1>4, <1>5, <1>7, <2>2
<1>10. {cfFiles[n].link : n \in names} \ {""} = {n \in names : Extends(n)}
  <2>1. CASE IsSplit
    <3>1. names = {first, second} /\ cfFiles[first].link = second /\ cfFiles[second].link = ""
      BY <1>4, <1>5, <1>6, <2>1
    <3>2. {cfFiles[n].link : n \in names} = {second, ""}
      BY <3>1
    <3> QED
      BY <1>3, <3>1, <3>2
  <2>2. CASE ~IsSplit
    <3>1. names = {first} /\ cfFiles[first].link = ""
      BY <1>4, <1>5, <1>6, <2>2
    <3> QED
      BY <1>3, <3>1
  <2> QED
    BY <2>1, <2>2
<1> QED
  BY <1>8, <1>9, <1>10

(* Every state of a conversion has the shape its type invariant says: the  *)
(* depth of the open files and the lines read stay within their limits and *)
(* only planned files are made (src/firmware/cfgfmt.py:753-842).           *)
THEOREM ConversionTypeCorrect == ConversionSpec => []ConversionTypeOK
  BY ConversionStarts, ConversionKept, ConversionTypes, PTL DEF ConversionSpec

(* The files a conversion publishes hold, pass by pass, exactly the        *)
(* records that were parsed and are kept, each tag in one file, and the    *)
(* file that is split names the one that holds the rest, for every profile *)
(* and every limit (src/firmware/cfgfmt.py:942-1044).                       *)
THEOREM FilesAreWhole == ConversionSpec => []FilesHoldParsed
  BY ConversionStarts, ConversionKept, FilesMean, PTL DEF ConversionSpec

-----------------------------------------------------------------------------
(* What was parsed is what the profile says.  The open files are a cursor  *)
(* on the ways through the includes: what is told so far is what is said   *)
(* on the ways sooner than the cursor, and the parser holds what of that   *)
(* counts.  When the last file ends, everything has been told.             *)

(* Ways and their order.                                                   *)
LEMMA WayFacts ==
  ASSUME NEW w \in Way
  PROVE  /\ Len(w) \in 1 .. DepthLimit + 1 /\ Len(w) \in Nat \ {0}
         /\ \A i \in 1 .. Len(w) : w[i] \in Place
         /\ w[1].file = MainFile
         /\ \A i \in 1 .. Len(w) - 1 : LeadsTo(w[i], w[i + 1].file)
         /\ LineOf(w[Len(w)]).kind # "include"
<1>1. PICK n \in 1 .. DepthLimit + 1 : w \in [1 .. n -> Place]
  BY DEF Way
<1>2. DepthLimit \in Nat
  BY ConversionAssumption
<1>3. Len(w) = n
  BY <1>1, <1>2
<1> QED  BY <1>1, <1>2, <1>3 DEF Way

LEMMA PlaceFacts ==
  ASSUME cfProfile \in Profiles, NEW place \in Place
  PROVE  /\ place = [file |-> place.file, next |-> place.next]
         /\ place.file \in DOMAIN cfProfile /\ place.next \in Nat \ {0}
         /\ place.next \in 1 .. Len(cfProfile[place.file])
         /\ Line(LineOf(place))
<1>1. PICK f \in DOMAIN cfProfile : \E i \in 1 .. Len(cfProfile[f]) : place = [file |-> f, next |-> i]
  BY DEF Place
<1>2. PICK i \in 1 .. Len(cfProfile[f]) : place = [file |-> f, next |-> i]
  BY <1>1
<1>3. Line(cfProfile[f][i])
  BY ConversionAssumption DEF Line
<1> QED  BY <1>2, <1>3 DEF LineOf

LEMMA SoonerOneWay ==
  ASSUME cfProfile \in Profiles, NEW v \in Way, NEW w \in Way, Sooner(v, w)
  PROVE  ~Sooner(w, v)
<1>1. /\ \A i \in 1 .. Len(v) : v[i].next \in Nat
      /\ \A i \in 1 .. Len(w) : w[i].next \in Nat
      /\ Len(v) \in Nat /\ Len(w) \in Nat
  BY WayFacts, PlaceFacts
<1>2. PICK i \in 1 .. Len(v) : /\ i <= Len(w) /\ v[i].next < w[i].next
                              /\ \A j \in 1 .. i - 1 : v[j] = w[j]
  BY DEF Sooner
<1>3. SUFFICES ASSUME NEW k \in 1 .. Len(w), k <= Len(v), w[k].next < v[k].next,
                      \A j \in 1 .. k - 1 : w[j] = v[j]
               PROVE  FALSE
  BY DEF Sooner
<1>4. i \in 1 .. Len(w) /\ v[i].next \in Nat /\ w[i].next \in Nat
  BY <1>1, <1>2
<1>5. CASE i < k
  <2>1. w[i] = v[i]
    BY <1>1, <1>3, <1>5
  <2> QED  BY <1>2, <1>4, <2>1
<1>6. CASE k < i
  <2>1. v[k] = w[k] /\ v[k].next \in Nat
    BY <1>1, <1>2, <1>3, <1>6
  <2> QED  BY <1>3, <2>1
<1>7. CASE i = k
  BY <1>2, <1>3, <1>4, <1>7
<1> QED  BY <1>1, <1>5, <1>6, <1>7

(* A way as far as it has been followed.                                   *)
OnWay(c) == /\ c \in Seq(OpenFile)
            /\ Len(c) \in 1 .. DepthLimit + 1
            /\ c[1].file = MainFile
            /\ \A i \in 1 .. Len(c) - 1 : c[i] \in Place /\ LeadsTo(c[i], c[i + 1].file)
Along(w, c) == Len(c) <= Len(w) /\ \A i \in 1 .. Len(c) : w[i] = c[i]

LEMMA SameFile ==
  ASSUME NEW c, OnWay(c), NEW w \in Way, NEW k \in 1 .. Len(c), k <= Len(w),
         \A j \in 1 .. k - 1 : w[j] = c[j]
  PROVE  w[k].file = c[k].file
<1>1. Len(c) \in Nat \ {0} /\ Len(w) \in Nat \ {0}
  BY WayFacts DEF OnWay
<1>2. CASE k = 1
  BY <1>2, WayFacts DEF OnWay
<1>3. ASSUME k # 1 PROVE w[k].file = c[k].file
  <2> DEFINE j == k - 1
  <2>1. j \in 1 .. Len(c) - 1 /\ j \in 1 .. Len(w) - 1 /\ j \in 1 .. k - 1 /\ j + 1 = k
    BY <1>1, <1>3
  <2> HIDE DEF j
  <2>2. LeadsTo(w[j], w[j + 1].file) /\ LeadsTo(c[j], c[j + 1].file) /\ w[j] = c[j]
    BY <2>1, WayFacts DEF OnWay
  <2> QED  BY <2>1, <2>2 DEF LeadsTo
<1> QED  BY <1>2, <1>3

(* What comes before a way that is one line further, or one file deeper.   *)
LEMMA OneLineOn ==
  ASSUME cfProfile \in Profiles, NEW c, OnWay(c), NEW d, NEW w \in Way,
         d = [c EXCEPT ![Len(c)] = [c[Len(c)] EXCEPT !.next = @ + 1]]
  PROVE  Sooner(w, d) <=> Sooner(w, c) \/ Along(w, c)
<1> DEFINE k == Len(c)
<1>1. /\ k \in Nat \ {0} /\ c \in Seq(OpenFile)
      /\ \A i \in 1 .. k : c[i].next \in Nat /\ c[i] = [file |-> c[i].file, next |-> c[i].next]
  <2>1. c \in Seq(OpenFile) /\ k \in Nat \ {0}
    BY DEF OnWay
  <2>2. ASSUME NEW i \in 1 .. k PROVE c[i] \in OpenFile
    BY <2>1, <2>2
  <2>3. \A x \in OpenFile : x.next \in Nat /\ x = [file |-> x.file, next |-> x.next]
    BY DEF OpenFile
  <2> HIDE DEF k
  <2> QED  BY <2>1, <2>2, <2>3
<1>2. Len(w) \in Nat \ {0} /\ \A i \in 1 .. Len(w) : w[i].next \in Nat /\ w[i] = [file |-> w[i].file, next |-> w[i].next]
  BY WayFacts, PlaceFacts
<1>3. /\ Len(d) = k /\ d[k].next = c[k].next + 1
      /\ \A i \in 1 .. k : i # k => d[i] = c[i]
  <2>1. Len(d) = k /\ d = [i \in 1 .. k |-> IF i = k THEN [c[k] EXCEPT !.next = @ + 1] ELSE c[i]]
    <3> DEFINE one == [c[k] EXCEPT !.next = @ + 1]
    <3>1. d = [c EXCEPT ![k] = one]
      OBVIOUS
    <3>2. c = [i \in 1 .. k |-> c[i]]
      BY <1>1
    <3> HIDE DEF one, k
    <3>3. d = [i \in 1 .. k |-> IF i = k THEN one ELSE c[i]]
      BY <3>1, <3>2
    <3>4. Len(d) = k
      BY <1>1, <3>3
    <3> QED  BY <3>3, <3>4 DEF one
  <2>2. k \in 1 .. k
    BY <1>1
  <2> HIDE DEF k
  <2>3. d[k] = [c[k] EXCEPT !.next = @ + 1] /\ c[k] = [file |-> c[k].file, next |-> c[k].next]
    BY <1>1, <2>1, <2>2
  <2> QED  BY <1>1, <2>1, <2>2, <2>3
<1> HIDE DEF k
<1>4. ASSUME Sooner(w, d) PROVE Sooner(w, c) \/ Along(w, c)
  <2>1. PICK i \in 1 .. Len(w) : i <= k /\ w[i].next < d[i].next /\ \A j \in 1 .. i - 1 : w[j] = d[j]
    BY <1>3, <1>4 DEF Sooner
  <2>2. \A j \in 1 .. i - 1 : w[j] = c[j]
    BY <1>1, <1>2, <1>3, <2>1
  <2>3. CASE i # k
    <3>1. d[i] = c[i]
      BY <1>1, <1>3, <2>1, <2>3
    <3> QED  BY <2>1, <2>2, <3>1 DEF Sooner, k
  <2>4. CASE i = k /\ w[i].next < c[i].next
    BY <2>1, <2>2, <2>4 DEF Sooner, k
  <2>5. CASE i = k /\ ~(w[i].next < c[i].next)
    <3>1. i \in 1 .. k /\ w[i].next = c[i].next
      <4>1. i \in 1 .. k /\ d[i].next = c[i].next + 1
        BY <1>1, <1>3, <2>5
      <4>2. w[i].next \in Nat /\ c[i].next \in Nat
        BY <1>1, <1>2, <4>1
      <4> QED  BY <2>1, <2>5, <4>1, <4>2
    <3>2. w[i].file = c[i].file
      BY <2>1, <2>2, <3>1, SameFile DEF k
    <3>3. w[i] = c[i]
      BY <1>1, <1>2, <3>1, <3>2
    <3>4. \A j \in 1 .. k : j \in 1 .. i - 1 \/ j = i
      BY <1>1, <2>5
    <3> QED  BY <1>2, <2>1, <2>2, <2>5, <3>3, <3>4 DEF Along, k
  <2> QED  BY <2>3, <2>4, <2>5
<1>5. ASSUME Sooner(w, c) PROVE Sooner(w, d)
  <2>1. PICK i \in 1 .. Len(w) : i <= k /\ w[i].next < c[i].next /\ \A j \in 1 .. i - 1 : w[j] = c[j]
    BY <1>5 DEF Sooner, k
  <2>2. i \in 1 .. k /\ \A j \in 1 .. i - 1 : j \in 1 .. k /\ j # k
    BY <1>1, <1>2, <2>1
  <2>3. \A j \in 1 .. i - 1 : w[j] = d[j]
    BY <1>3, <2>1, <2>2
  <2>4. w[i].next < d[i].next
    <3>1. w[i].next \in Nat /\ c[i].next \in Nat
      BY <1>1, <1>2, <2>2
    <3>2. d[i].next = c[i].next \/ d[i].next = c[i].next + 1
      BY <1>3, <2>2
    <3> QED  BY <2>1, <3>1, <3>2
  <2> QED  BY <1>3, <2>1, <2>3, <2>4 DEF Sooner
<1>6. ASSUME Along(w, c) PROVE Sooner(w, d)
  <2>1. k \in 1 .. Len(w) /\ w[k] = c[k] /\ w[k].next < d[k].next
    BY <1>1, <1>2, <1>3, <1>6 DEF Along, k
  <2>2. \A j \in 1 .. k - 1 : w[j] = d[j]
    BY <1>1, <1>3, <1>6 DEF Along, k
  <2> QED  BY <1>1, <1>3, <2>1, <2>2 DEF Sooner
<1> QED  BY <1>4, <1>5, <1>6

LEMMA OneFileOn ==
  ASSUME NEW b, NEW x, NEW c, NEW w \in Way, Len(b) \in Nat, Len(c) = Len(b) + 1,
         \A i \in 1 .. Len(b) : c[i] = b[i], c[Len(b) + 1] = x
  PROVE  Sooner(w, c) <=> \/ Sooner(w, b)
                          \/ Along(w, b) /\ Len(b) + 1 <= Len(w) /\ w[Len(b) + 1].next < x.next
<1> DEFINE k == Len(b)
<1>1. Len(w) \in Nat /\ k \in Nat
  BY WayFacts
<1>2. ASSUME Sooner(w, c) PROVE Sooner(w, b) \/ (Along(w, b) /\ k + 1 <= Len(w) /\ w[k + 1].next < x.next)
  <2>1. PICK i \in 1 .. Len(w) : i <= k + 1 /\ w[i].next < c[i].next /\ \A j \in 1 .. i - 1 : w[j] = c[j]
    BY <1>2 DEF Sooner
  <2> HIDE DEF k
  <2>2. \A j \in 1 .. i - 1 : w[j] = b[j]
    BY <1>1, <2>1 DEF k
  <2>3. CASE i <= k
    <3>1. c[i] = b[i]
      BY <1>1, <2>1, <2>3 DEF k
    <3> QED  BY <2>1, <2>2, <2>3, <3>1 DEF Sooner, k
  <2>4. CASE i = k + 1
    <3>1. \A j \in 1 .. k : j \in 1 .. i - 1
      BY <1>1, <2>4
    <3> QED  BY <1>1, <2>1, <2>2, <2>4, <3>1 DEF Along, k
  <2> QED  BY <1>1, <2>1, <2>3, <2>4
<1>3. ASSUME Sooner(w, b) PROVE Sooner(w, c)
  <2>1. PICK i \in 1 .. Len(w) : i <= k /\ w[i].next < b[i].next /\ \A j \in 1 .. i - 1 : w[j] = b[j]
    BY <1>3 DEF Sooner
  <2>2. i \in 1 .. k /\ \A j \in 1 .. i - 1 : j \in 1 .. k
    BY <1>1, <2>1
  <2> QED  BY <1>1, <2>1, <2>2 DEF Sooner
<1>4. ASSUME Along(w, b), k + 1 <= Len(w), w[k + 1].next < x.next PROVE Sooner(w, c)
  <2>1. k + 1 \in 1 .. Len(w) /\ (k + 1) - 1 = k
    BY <1>1, <1>4
  <2>2. \A j \in 1 .. k : w[j] = c[j]
    BY <1>4 DEF Along
  <2> QED  BY <1>4, <2>1, <2>2 DEF Sooner
<1> QED  BY <1>2, <1>3, <1>4

(* A line says one thing at most.                                          *)
LEMMA SaysOneThing ==
  ASSUME NEW line, NEW r \in Assigned(line), NEW s \in Assigned(line)
  PROVE  r = s
<1>1. CASE line.kind = "special"
  BY <1>1 DEF Assigned, SpecialRecords
<1>2. CASE line.kind # "special"
  <2>1. PICK d \in EntryByName(line.name) :
          r = [tag |-> d.tag, value |-> Encode(d, line.value),
               extended |-> d.extended, sensitive |-> d.sensitive]
    BY <1>2 DEF Assigned, AttributeRecords
  <2>2. PICK e \in EntryByName(line.name) :
          s = [tag |-> e.tag, value |-> Encode(e, line.value),
               extended |-> e.extended, sensitive |-> e.sensitive]
    BY <1>2 DEF Assigned, AttributeRecords
  <2>3. PICK i \in LinesNamed(line.name) : d = Ptag[i] /\ \A k \in LinesNamed(line.name) : i <= k
    BY DEF EntryByName
  <2>4. PICK j \in LinesNamed(line.name) : e = Ptag[j] /\ \A k \in LinesNamed(line.name) : j <= k
    BY DEF EntryByName
  <2>5. i = j
    BY <2>3, <2>4 DEF LinesNamed
  <2> QED  BY <2>1, <2>2, <2>3, <2>4, <2>5
<1> QED  BY <1>1, <1>2

LEMMA SaidFacts ==
  ASSUME cfProfile \in Profiles, NEW s \in Said
  PROVE  /\ s = [at |-> s.at, record |-> s.record] /\ s.at \in Way
         /\ s.record \in Assigned(LineOf(s.at[Len(s.at)])) /\ s.record \in Rec
<1>1. PICK w \in Way : \E r \in Assigned(LineOf(w[Len(w)])) : s = [at |-> w, record |-> r]
  BY DEF Said
<1>2. PICK r \in Assigned(LineOf(w[Len(w)])) : s = [at |-> w, record |-> r]
  BY <1>1
<1>3. w[Len(w)] \in Place /\ LineOf(w[Len(w)]).kind # "include"
  BY WayFacts
<1>4. r \in Rec
  BY <1>3, PlaceFacts, AssignedFacts
<1> QED  BY <1>2, <1>4

(* One more assignment, behind all the others.                             *)
PseudoTags(said) == {s.record.tag : s \in {p \in said : p.record.tag >= SmallTag}}

LEMMA OneMoreBefore ==
  ASSUME cfProfile \in Profiles, NEW told \in SUBSET Said, NEW x \in Said, NEW longer,
         longer = told \cup {x}, \A s \in told : Sooner(s.at, x.at), NEW s \in told
  PROVE  TagsSaidBefore(longer, s.record.tag) = TagsSaidBefore(told, s.record.tag)
<1>1. ~Sooner(x.at, s.at)
  BY SaidFacts, SoonerOneWay
<1> DEFINE t == s.record.tag
           before(said) == {p \in said : /\ p.record.tag >= SmallTag
                                         /\ \A q \in said : q.record.tag = t => Sooner(p.at, q.at)}
<1>2. before(longer) = before(told)
  <2>1. x \notin before(longer)
    BY <1>1
  <2>2. \A p \in told : p \in before(longer) <=> p \in before(told)
    OBVIOUS
  <2> QED  BY <2>1, <2>2
<1> QED  BY <1>2 DEF TagsSaidBefore

LEMMA OneMoreKnown ==
  ASSUME cfProfile \in Profiles, NEW told \in SUBSET Said, NEW x \in Said, NEW longer,
         longer = told \cup {x}, \A s \in told : Sooner(s.at, x.at), NEW s \in told
  PROVE  Known(longer, s.record.tag) <=> Known(told, s.record.tag)
<1>1. TagsSaidBefore(longer, s.record.tag) = TagsSaidBefore(told, s.record.tag)
  BY OneMoreBefore
<1> QED  BY <1>1 DEF Known

LEMMA OneMoreNew ==
  ASSUME cfProfile \in Profiles, NEW told \in SUBSET Said, NEW x \in Said, NEW longer,
         longer = told \cup {x}, \A s \in told : Sooner(s.at, x.at),
         \A s \in told : s.record.tag # x.record.tag
  PROVE  TagsSaidBefore(longer, x.record.tag) = PseudoTags(told)
<1>1. ~Sooner(x.at, x.at)
  BY SaidFacts, SoonerOneWay
<1> DEFINE t == x.record.tag
           before == {p \in longer : /\ p.record.tag >= SmallTag
                                     /\ \A q \in longer : q.record.tag = t => Sooner(p.at, q.at)}
<1>2. before = {p \in told : p.record.tag >= SmallTag}
  BY <1>1
<1>3. TagsSaidBefore(longer, t) = {s.record.tag : s \in before}
  BY DEF TagsSaidBefore
<1> QED  BY <1>2, <1>3 DEF PseudoTags

LEMMA OneMoreCounts ==
  ASSUME cfProfile \in Profiles, NEW told \in SUBSET Said, NEW x \in Said, NEW longer,
         longer = told \cup {x}, \A s \in told : Sooner(s.at, x.at)
  PROVE  Counting(longer) = {r \in Counting(told) : r.tag # x.record.tag}
                              \cup {r \in {x.record} : Known(longer, x.record.tag)}
<1>1. \A s \in longer : ~Sooner(x.at, s.at)
  BY SaidFacts, SoonerOneWay
<1> DEFINE counts(said, p) ==
             /\ Known(said, p.record.tag)
             /\ \A q \in said : q.record.tag = p.record.tag => ~Sooner(p.at, q.at)
<1>2. \A said : Counting(said) = {s.record : s \in {p \in said : counts(said, p)}}
  BY DEF Counting
<1>3. counts(longer, x) <=> Known(longer, x.record.tag)
  BY <1>1
<1>4. ASSUME NEW p \in told PROVE counts(longer, p) <=> counts(told, p) /\ p.record.tag # x.record.tag
  BY OneMoreKnown
<1> HIDE DEF counts
<1>5. ASSUME NEW r \in Counting(longer)
      PROVE  r \in {y \in Counting(told) : y.tag # x.record.tag}
                    \cup {y \in {x.record} : Known(longer, x.record.tag)}
  BY <1>2, <1>3, <1>4
<1>6. ASSUME NEW r \in Counting(told), r.tag # x.record.tag PROVE r \in Counting(longer)
  BY <1>2, <1>4, <1>6
<1>7. Known(longer, x.record.tag) => x.record \in Counting(longer)
  BY <1>2, <1>3
<1> QED  BY <1>5, <1>6, <1>7

(* What the parser holds of what it was told: the records that count, and  *)
(* every pseudo tag as long as there is room.                              *)
Tracks(said, parsed, pseudo) ==
    /\ IsFiniteSet(PseudoTags(said))
    /\ parsed = Counting(said)
    /\ \A s \in said : Known(said, s.record.tag) <=> \E r \in parsed : r.tag = s.record.tag
    /\ Len(pseudo) < PseudoLimit =>
         \A s \in said : s.record.tag >= SmallTag => \E i \in 1 .. Len(pseudo) : pseudo[i].tag = s.record.tag

LEMMA PseudoCounted ==
  ASSUME TagsInv
  PROVE  /\ IsFiniteSet({cfPseudo[i].tag : i \in 1 .. Len(cfPseudo)})
         /\ Cardinality({cfPseudo[i].tag : i \in 1 .. Len(cfPseudo)}) = Len(cfPseudo)
<1> DEFINE n == Len(cfPseudo)
           tags == {cfPseudo[i].tag : i \in 1 .. n}
           f == [i \in 1 .. n |-> cfPseudo[i].tag]
<1>1. n \in Nat
  BY DEF TagsInv
<1>2. f \in Bijection(1 .. n, tags)
  BY DEF TagsInv, Bijection, Injection, Surjection, IsInjective
<1>3. IsFiniteSet(1 .. n) /\ Cardinality(1 .. n) = IF 1 > n THEN 0 ELSE n - 1 + 1
  BY <1>1, FS_Interval
<1>4. Cardinality(1 .. n) = n
  BY <1>1, <1>3
<1> HIDE DEF f, n, tags
<1>5. IsFiniteSet(tags) /\ Cardinality(tags) = Cardinality(1 .. n)
  BY <1>2, <1>3, FS_Bijection DEF ExistsBijection
<1> QED  BY <1>4, <1>5 DEF n, tags

(* Whether a record of the tag is held or finds room.                      *)
Room(tag) == \/ tag < SmallTag
             \/ \E i \in 1 .. Len(cfPseudo) : cfPseudo[i].tag = tag
             \/ Len(cfPseudo) < PseudoLimit

LEMMA ParsedTags ==
  ASSUME TagsInv
  PROVE  /\ \A r \in Parsed : r.tag \in Nat
         /\ \A r \in Parsed : r.tag >= SmallTag => \E i \in 1 .. Len(cfPseudo) : r = cfPseudo[i]
         /\ \A i \in 1 .. Len(cfPseudo) : cfPseudo[i] \in Parsed /\ cfPseudo[i].tag >= SmallTag
         /\ \A t \in DOMAIN cfSmall : cfSmall[t] \in Parsed
         /\ \A r \in Parsed : r.tag < SmallTag => r.tag \in DOMAIN cfSmall /\ r = cfSmall[r.tag]
<1>1. \A x \in Parsed : \/ \E i \in 1 .. Len(cfPseudo) : x = cfPseudo[i] /\ x.tag >= SmallTag /\ x \in Rec
                        \/ x.tag \in DOMAIN cfSmall /\ x = cfSmall[x.tag] /\ x.tag \in Nat /\ x.tag < SmallTag
  BY DEF TagsInv, Parsed, Range
<1>2. SmallTag \in Nat /\ \A x \in Rec : x.tag \in Nat
  BY ConversionAssumption DEF Rec
<1>3. \A i \in 1 .. Len(cfPseudo) : cfPseudo[i] \in Parsed /\ cfPseudo[i].tag >= SmallTag
  BY DEF TagsInv, Parsed, Range
<1>4. \A t \in DOMAIN cfSmall : cfSmall[t] \in Parsed
  BY DEF Parsed
<1> QED  BY <1>1, <1>2, <1>3, <1>4

LEMMA RoomIsKnown ==
  ASSUME TagsInv, cfProfile \in Profiles, NEW told \in SUBSET Said, NEW x \in Said, NEW longer,
         longer = told \cup {x}, \A s \in told : Sooner(s.at, x.at),
         Tracks(told, Parsed, cfPseudo)
  PROVE  Known(longer, x.record.tag) <=> Room(x.record.tag)
<1> DEFINE t == x.record.tag
           tags == {cfPseudo[i].tag : i \in 1 .. Len(cfPseudo)}
<1>1. t \in Nat /\ SmallTag \in Nat /\ PseudoLimit \in Nat /\ Len(cfPseudo) \in Nat
  BY SaidFacts, ConversionAssumption DEF Rec, TagsInv
<1>2. CASE t < SmallTag
  BY <1>2 DEF Known, Room
<1>3. CASE t >= SmallTag /\ \E s \in told : s.record.tag = t
  <2>1. PICK s \in told : s.record.tag = t
    BY <1>3
  <2>2. Known(longer, t) <=> Known(told, t)
    <3>1. Known(longer, s.record.tag) <=> Known(told, s.record.tag)
      BY OneMoreKnown
    <3> HIDE DEF t
    <3>2. s.record.tag = t
      BY <2>1
    <3> QED  BY <3>1, <3>2, Zenon
  <2>3. Known(told, t) <=> \E r \in Parsed : r.tag = t
    BY <2>1 DEF Tracks
  <2>4. (\E r \in Parsed : r.tag = t) <=> \E i \in 1 .. Len(cfPseudo) : cfPseudo[i].tag = t
    BY <1>3, ParsedTags
  <2>5. Len(cfPseudo) < PseudoLimit => \E i \in 1 .. Len(cfPseudo) : cfPseudo[i].tag = t
    BY <1>3, <2>1 DEF Tracks
  <2> QED  BY <1>1, <1>3, <2>2, <2>3, <2>4, <2>5 DEF Room
<1>4. CASE t >= SmallTag /\ \A s \in told : s.record.tag # t
  <2>1. TagsSaidBefore(longer, t) = PseudoTags(told)
    BY <1>4, OneMoreNew
  <2>2. Known(longer, t) <=> Cardinality(PseudoTags(told)) < PseudoLimit
    BY <1>1, <1>4, <2>1 DEF Known
  <2>3. \A r \in Parsed : \E s \in told : r = s.record
    BY DEF Tracks, Counting
  <2>4. Room(t) <=> Len(cfPseudo) < PseudoLimit
    <3>1. ASSUME NEW i \in 1 .. Len(cfPseudo) PROVE cfPseudo[i].tag # t
      <4>1. cfPseudo[i] \in Parsed
        BY ParsedTags
      <4>2. PICK s \in told : cfPseudo[i] = s.record
        BY <2>3, <4>1
      <4> QED  BY <1>4, <4>2
    <3> QED  BY <1>1, <1>4, <3>1 DEF Room
  <2>5. IsFiniteSet(tags) /\ Cardinality(tags) = Len(cfPseudo) /\ IsFiniteSet(PseudoTags(told))
    BY PseudoCounted DEF Tracks
  <2>6. tags \subseteq PseudoTags(told)
    BY <2>3, ParsedTags DEF PseudoTags
  <2>7. Len(cfPseudo) < PseudoLimit => PseudoTags(told) \subseteq tags
    BY DEF Tracks, PseudoTags
  <2> HIDE DEF tags
  <2>8. Cardinality(PseudoTags(told)) \in Nat /\ Len(cfPseudo) <= Cardinality(PseudoTags(told))
    BY <2>5, <2>6, FS_Subset, FS_CardinalityType
  <2>9. Len(cfPseudo) < PseudoLimit => Cardinality(PseudoTags(told)) <= Len(cfPseudo)
    BY <2>5, <2>7, FS_Subset, FS_CardinalityType
  <2> QED  BY <1>1, <2>2, <2>4, <2>8, <2>9
<1> QED  BY <1>1, <1>2, <1>3, <1>4

LEMMA TracksOneMore ==
  ASSUME TagsInv, cfProfile \in Profiles, NEW told \in SUBSET Said, NEW x \in Said, NEW longer,
         longer = told \cup {x}, \A s \in told : Sooner(s.at, x.at),
         Tracks(told, Parsed, cfPseudo), NEW parsed, NEW pseudo,
         parsed = {r \in Parsed : r.tag # x.record.tag} \cup {r \in {x.record} : Room(x.record.tag)},
         Len(pseudo) < PseudoLimit =>
           /\ Len(cfPseudo) < PseudoLimit
           /\ \A i \in 1 .. Len(cfPseudo) : \E j \in 1 .. Len(pseudo) : pseudo[j].tag = cfPseudo[i].tag
           /\ x.record.tag >= SmallTag => \E j \in 1 .. Len(pseudo) : pseudo[j].tag = x.record.tag
  PROVE  Tracks(longer, parsed, pseudo)
<1>1. Known(longer, x.record.tag) <=> Room(x.record.tag)
  BY RoomIsKnown
<1>2. \A s \in told : Known(longer, s.record.tag) <=> Known(told, s.record.tag)
  BY OneMoreKnown
<1>3. parsed = Counting(longer)
  BY <1>1, OneMoreCounts DEF Tracks
<1>4. IsFiniteSet(PseudoTags(longer))
  <2>1. PseudoTags(longer) \subseteq PseudoTags(told) \cup {x.record.tag}
    BY DEF PseudoTags
  <2>2. IsFiniteSet(PseudoTags(told) \cup {x.record.tag})
    BY FS_AddElement DEF Tracks
  <2> QED  BY <2>1, <2>2, FS_Subset
<1>5. ASSUME NEW s \in longer
      PROVE  Known(longer, s.record.tag) <=> \E r \in parsed : r.tag = s.record.tag
  <2>1. CASE s.record.tag = x.record.tag
    BY <1>1, <2>1
  <2>2. CASE s.record.tag # x.record.tag
    <3>1. s \in told
      BY <2>2
    <3>2. Known(longer, s.record.tag) <=> \E r \in Parsed : r.tag = s.record.tag
      BY <1>2, <3>1 DEF Tracks
    <3> QED  BY <2>2, <3>2
  <2> QED  BY <2>1, <2>2
<1>6. ASSUME Len(pseudo) < PseudoLimit, NEW s \in longer, s.record.tag >= SmallTag
      PROVE  \E i \in 1 .. Len(pseudo) : pseudo[i].tag = s.record.tag
  <2>1. CASE s = x
    BY <1>6, <2>1
  <2>2. CASE s \in told
    <3>1. PICK i \in 1 .. Len(cfPseudo) : cfPseudo[i].tag = s.record.tag
      BY <1>6, <2>2 DEF Tracks
    <3> QED  BY <1>6, <3>1
  <2> QED  BY <2>1, <2>2
<1> QED  BY <1>3, <1>4, <1>5, <1>6 DEF Tracks

(* What is stored replaces what the tag had.                               *)
LEMMA ParsedStored ==
  ASSUME TagsInv, NEW record \in Rec,
         \/ /\ record.tag < SmallTag
            /\ cfSmall' = [t \in DOMAIN cfSmall \cup {record.tag} |->
                             IF t = record.tag THEN record ELSE cfSmall[t]]
            /\ UNCHANGED cfPseudo
         \/ /\ record.tag >= SmallTag
            /\ StorePseudo(record) /\ UNCHANGED cfSmall
  PROVE  /\ Parsed' = {r \in Parsed : r.tag # record.tag} \cup {r \in {record} : Room(record.tag)}
         /\ Len(cfPseudo') < PseudoLimit =>
              /\ Len(cfPseudo) < PseudoLimit
              /\ \A i \in 1 .. Len(cfPseudo) : \E j \in 1 .. Len(cfPseudo') : cfPseudo'[j].tag = cfPseudo[i].tag
              /\ record.tag >= SmallTag => \E j \in 1 .. Len(cfPseudo') : cfPseudo'[j].tag = record.tag
<1> DEFINE n == Len(cfPseudo)
           at == {i \in 1 .. n : cfPseudo[i].tag = record.tag}
           small == {cfSmall[t] : t \in DOMAIN cfSmall}
<1>1. /\ cfPseudo \in Seq(Rec) /\ n \in Nat /\ PseudoLimit \in Nat /\ SmallTag \in Nat /\ record.tag \in Nat
      /\ cfPseudo = [i \in 1 .. n |-> cfPseudo[i]]
  BY ConversionAssumption DEF TagsInv, Rec
<1>2. Parsed = {cfPseudo[i] : i \in 1 .. n} \cup small
  BY <1>1 DEF Parsed, Range
<1>3. CASE record.tag < SmallTag /\ UNCHANGED cfPseudo
           /\ cfSmall' = [t \in DOMAIN cfSmall \cup {record.tag} |->
                            IF t = record.tag THEN record ELSE cfSmall[t]]
  <2>1. {cfSmall'[t] : t \in DOMAIN cfSmall'} = {r \in small : r.tag # record.tag} \cup {record}
    <3>1. \A t \in DOMAIN cfSmall : cfSmall[t].tag = t
      BY DEF TagsInv
    <3>2. /\ DOMAIN cfSmall' = DOMAIN cfSmall \cup {record.tag} /\ cfSmall'[record.tag] = record
          /\ \A t \in DOMAIN cfSmall : t # record.tag => cfSmall'[t] = cfSmall[t]
      BY <1>3
    <3> QED  BY <3>1, <3>2
  <2>2. \A i \in 1 .. n : cfPseudo[i].tag # record.tag
    BY <1>1, <1>3 DEF TagsInv, Rec
  <2>3. Parsed' = {cfPseudo[i] : i \in 1 .. n} \cup {cfSmall'[t] : t \in DOMAIN cfSmall'}
    <3>1. Parsed' = Range(cfPseudo) \cup {cfSmall'[t] : t \in DOMAIN cfSmall'}
      BY <1>3 DEF Parsed
    <3> QED  BY <1>1, <3>1 DEF Range
  <2> HIDE DEF small
  <2>4. Parsed' = {r \in Parsed : r.tag # record.tag} \cup {record}
    BY <1>2, <2>1, <2>2, <2>3
  <2>5. Room(record.tag)
    BY <1>3 DEF Room
  <2>6. ~(record.tag >= SmallTag)
    BY <1>1, <1>3
  <2> QED  BY <1>3, <2>4, <2>5, <2>6
<1>4. CASE record.tag >= SmallTag /\ StorePseudo(record) /\ UNCHANGED cfSmall
  <2>1. \A r \in small : r.tag # record.tag
    BY <1>1, <1>4 DEF TagsInv
  <2>2. ~(record.tag < SmallTag)
    BY <1>1, <1>4
  <2>3. Parsed' = Range(cfPseudo') \cup small
    BY <1>4 DEF Parsed
  <2> HIDE DEF small
  <2>4. CASE at # {}
    <3>1. cfPseudo' = [i \in 1 .. n |-> IF i \in at THEN record ELSE cfPseudo[i]]
      BY <1>4, <2>4 DEF StorePseudo
    <3>2. Len(cfPseudo') = n /\ \A i \in 1 .. n : cfPseudo'[i].tag = cfPseudo[i].tag
      BY <1>1, <3>1
    <3>3. Range(cfPseudo') = {r \in {cfPseudo[i] : i \in 1 .. n} : r.tag # record.tag} \cup {record}
      BY <1>1, <2>4, <3>1 DEF Range
    <3>4. Room(record.tag)
      BY <2>4 DEF Room
    <3>5. Parsed' = {r \in Parsed : r.tag # record.tag} \cup {r \in {record} : Room(record.tag)}
      BY <1>2, <2>1, <2>3, <3>3, <3>4
    <3>6. PICK i \in 1 .. n : cfPseudo[i].tag = record.tag
      BY <2>4
    <3> QED  BY <3>2, <3>5, <3>6
  <2>5. CASE at = {} /\ n >= PseudoLimit
    <3>1. cfPseudo' = cfPseudo
      BY <1>4, <2>5 DEF StorePseudo
    <3>2. ~Room(record.tag) /\ ~(n < PseudoLimit)
      BY <1>1, <2>2, <2>5 DEF Room
    <3>3. Parsed' = {cfPseudo[i] : i \in 1 .. n} \cup small
      BY <1>1, <2>3, <3>1 DEF Range
    <3>4. \A r \in Parsed : r.tag # record.tag
      BY <1>2, <2>1, <2>5
    <3> QED  BY <1>2, <3>1, <3>2, <3>3, <3>4
  <2>6. CASE at = {} /\ ~(n >= PseudoLimit)
    <3>1. cfPseudo' = Append(cfPseudo, record)
      BY <1>4, <2>6 DEF StorePseudo
    <3>2. /\ Len(cfPseudo') = n + 1 /\ \A i \in 1 .. n : cfPseudo'[i] = cfPseudo[i]
          /\ cfPseudo'[n + 1] = record /\ DOMAIN cfPseudo' = 1 .. n + 1
      <4>1. cfPseudo \in Seq(Rec) /\ n = Len(cfPseudo)
        BY <1>1
      <4> HIDE DEF n, at
      <4> QED  BY <3>1, <4>1
    <3>3. Room(record.tag) /\ n < PseudoLimit
      BY <1>1, <2>6 DEF Room
    <3>4. Range(cfPseudo') = {cfPseudo[i] : i \in 1 .. n} \cup {record}
      <4>1. \A i : i \in 1 .. n + 1 <=> i \in 1 .. n \/ i = n + 1
        BY <1>1
      <4> QED  BY <3>2, <4>1 DEF Range
    <3>5. \A r \in Parsed : r.tag # record.tag
      BY <1>2, <2>1, <2>6
    <3>6. Parsed' = {r \in Parsed : r.tag # record.tag} \cup {r \in {record} : Room(record.tag)}
      BY <1>2, <2>3, <3>3, <3>4, <3>5
    <3>7. \A i \in 1 .. n : i \in 1 .. n + 1
      BY <1>1
    <3>8. n + 1 \in 1 .. n + 1
      BY <1>1
    <3> QED  BY <3>2, <3>3, <3>6, <3>7, <3>8
  <2> QED  BY <2>4, <2>5, <2>6
<1> QED  BY <1>3, <1>4

-----------------------------------------------------------------------------
(* Where the parser is: the line to be read, behind the includes that led  *)
(* to it.  What is said sooner is what it has been told.                   *)
Cursor == [j \in 1 .. Len(cfStack) |-> IF j < Len(cfStack) THEN [cfStack[j] EXCEPT !.next = @ - 1]
                                       ELSE cfStack[j]]
Told == IF cfStack = <<>> THEN Said ELSE {s \in Said : Sooner(s.at, Cursor)}

LEMMA SaidStays ==
  ASSUME UNCHANGED <<cfOptions, cfProfile>>
  PROVE  Place' = Place /\ Way' = Way /\ Said' = Said
<1>1. Place' = Place
  BY DEF Place
<1>2. Way' = Way
  BY <1>1 DEF Way, LeadsTo, LineOf
<1>3. ASSUME NEW line PROVE Assigned(line)' = Assigned(line)
  BY DEF Assigned, SpecialRecords, AttributeRecords, EntryByName, LinesNamed, Selected
<1> QED  BY <1>1, <1>2, <1>3 DEF Said, LineOf

LEMMA FrontParts ==
  ASSUME NEW A, NEW s \in Seq(A), s # <<>>
  PROVE  \A i \in 1 .. Len(s) - 1 : Front(s)[i] = s[i]
<1>1. PICK n \in Nat : n = Len(s) - 1 /\ n + 1 = Len(s)
  OBVIOUS
<1>2. n \in Int /\ 1 \in Int /\ \A i \in 1 .. n : s[i] \in A
  BY <1>1
<1>3. \A i \in 1 .. n : SubSeq(s, 1, n)[i] = s[1 + i - 1]
  BY <1>1, <1>2, SubSeqProperties
<1>4. \A i \in 1 .. n : 1 + i - 1 = i
  BY <1>1
<1> QED  BY <1>1, <1>3, <1>4, Zenon DEF Front

LEMMA CursorParts ==
  ASSUME StackInv, cfStack # <<>>
  PROVE  /\ Len(cfStack) \in Nat \ {0} /\ Len(Cursor) = Len(cfStack)
         /\ Cursor[Len(cfStack)] = Frame
         /\ \A i \in 1 .. Len(cfStack) : cfStack[i] = [file |-> cfStack[i].file, next |-> cfStack[i].next]
         /\ \A i \in 1 .. Len(cfStack) : cfStack[i].next \in Nat \ {0}
         /\ \A i \in 1 .. Len(cfStack) - 1 : Cursor[i] = [file |-> cfStack[i].file, next |-> cfStack[i].next - 1]
<1>1. cfStack \in Seq(OpenFile) /\ Len(cfStack) \in Nat \ {0}
  BY DEF StackInv
<1>2. ASSUME NEW i \in 1 .. Len(cfStack)
      PROVE  cfStack[i] = [file |-> cfStack[i].file, next |-> cfStack[i].next] /\ cfStack[i].next \in Nat \ {0}
  <2>1. cfStack[i] \in OpenFile
    BY <1>1
  <2> QED  BY <2>1 DEF OpenFile
<1>3. Len(Cursor) = Len(cfStack) /\ Cursor[Len(cfStack)] = Frame
  BY <1>1 DEF Cursor, Frame
<1>4. ASSUME NEW i \in 1 .. Len(cfStack) - 1
      PROVE  Cursor[i] = [file |-> cfStack[i].file, next |-> cfStack[i].next - 1]
  <2>1. i \in 1 .. Len(cfStack) /\ i < Len(cfStack)
    BY <1>1
  <2>2. Cursor[i] = [cfStack[i] EXCEPT !.next = @ - 1]
    BY <2>1 DEF Cursor
  <2> QED  BY <1>2, <2>1, <2>2
<1> QED  BY <1>1, <1>2, <1>3, <1>4

LEMMA NextLineParts ==
  ASSUME StackInv, cfStack # <<>>
  PROVE  /\ Len(NextLine) = Len(cfStack) /\ NextLine[Len(cfStack)] = [Frame EXCEPT !.next = @ + 1]
         /\ \A i \in 1 .. Len(cfStack) - 1 : NextLine[i] = cfStack[i]
<1> DEFINE front == Front(cfStack)
           x == [Frame EXCEPT !.next = @ + 1]
<1>1. cfStack \in Seq(OpenFile) /\ Len(cfStack) \in Nat \ {0}
  BY DEF StackInv
<1>2. /\ front \in Seq(OpenFile) /\ Len(front) = Len(cfStack) - 1
      /\ \A i \in 1 .. Len(cfStack) - 1 : front[i] = cfStack[i]
  BY <1>1, FrontOf, FrontParts
<1>3. NextLine = Append(front, x)
  BY DEF NextLine
<1> HIDE DEF front, x
<1>4. Len(Append(front, x)) = Len(front) + 1 /\ Append(front, x)[Len(front) + 1] = x
  BY <1>2
<1>5. \A i \in 1 .. Len(front) : Append(front, x)[i] = front[i]
  BY <1>2
<1>6. Len(front) + 1 = Len(cfStack)
  BY <1>1, <1>2
<1> QED  BY <1>2, <1>3, <1>4, <1>5, <1>6 DEF x

(* One line further, the cursor's last place has moved on.                 *)
LEMMA CursorNext ==
  ASSUME StackInv, cfStack # <<>>, cfStack' = NextLine
  PROVE  Cursor' = [Cursor EXCEPT ![Len(Cursor)] = [Cursor[Len(Cursor)] EXCEPT !.next = @ + 1]]
<1> DEFINE k == Len(cfStack)
           one == [Frame EXCEPT !.next = @ + 1]
<1>1. /\ k \in Nat \ {0} /\ Len(Cursor) = k /\ Cursor[k] = Frame
      /\ Len(NextLine) = k /\ NextLine[k] = one
      /\ \A i \in 1 .. k - 1 : NextLine[i] = cfStack[i]
  BY CursorParts, NextLineParts
<1>2. Cursor' = [j \in 1 .. k |-> IF j < k THEN [NextLine[j] EXCEPT !.next = @ - 1] ELSE NextLine[j]]
  BY <1>1 DEF Cursor
<1>3. Cursor = [j \in 1 .. k |-> IF j < k THEN [cfStack[j] EXCEPT !.next = @ - 1] ELSE cfStack[j]]
  BY DEF Cursor
<1> HIDE DEF k, one
<1>4. Cursor' = [j \in 1 .. k |-> IF j < k THEN [cfStack[j] EXCEPT !.next = @ - 1] ELSE one]
  <2>1. ASSUME NEW j \in 1 .. k
        PROVE  (IF j < k THEN [NextLine[j] EXCEPT !.next = @ - 1] ELSE NextLine[j])
                 = IF j < k THEN [cfStack[j] EXCEPT !.next = @ - 1] ELSE one
    <3>1. CASE j < k
      BY <1>1, <3>1
    <3>2. CASE j = k
      BY <1>1, <3>2
    <3> QED  BY <1>1, <3>1, <3>2
  <2> QED  BY <1>2, <2>1
<1>5. [Cursor EXCEPT ![k] = one] = [j \in 1 .. k |-> IF j = k THEN one ELSE Cursor[j]]
  BY <1>3
<1>6. [j \in 1 .. k |-> IF j = k THEN one ELSE Cursor[j]]
        = [j \in 1 .. k |-> IF j < k THEN [cfStack[j] EXCEPT !.next = @ - 1] ELSE one]
  <2>1. ASSUME NEW j \in 1 .. k
        PROVE  (IF j = k THEN one ELSE Cursor[j]) = IF j < k THEN [cfStack[j] EXCEPT !.next = @ - 1] ELSE one
    <3>1. CASE j < k
      BY <1>1, <1>3, <3>1
    <3>2. CASE j = k
      BY <1>1, <3>2
    <3> QED  BY <1>1, <3>1, <3>2
  <2> QED  BY <2>1
<1>7. [Cursor[Len(Cursor)] EXCEPT !.next = @ + 1] = one
  BY <1>1 DEF one
<1> QED  BY <1>1, <1>4, <1>5, <1>6, <1>7

(* Into an included file, the line that is read becomes the last include.  *)
LEMMA CursorDeeper ==
  ASSUME StackInv, cfStack # <<>>, NEW x, cfStack' = Append(NextLine, x), NextLine \in Seq(OpenFile)
  PROVE  /\ Len(Cursor') = Len(Cursor) + 1 /\ Cursor'[Len(Cursor) + 1] = x
         /\ \A i \in 1 .. Len(Cursor) : Cursor'[i] = Cursor[i]
<1> DEFINE k == Len(cfStack)
<1>1. /\ k \in Nat \ {0} /\ Len(Cursor) = k /\ Cursor[k] = Frame
      /\ Frame = [file |-> Frame.file, next |-> Frame.next] /\ Frame.next \in Nat \ {0}
      /\ \A i \in 1 .. k - 1 : Cursor[i] = [cfStack[i] EXCEPT !.next = @ - 1]
  BY CursorParts DEF Frame, Cursor
<1>2. /\ Len(NextLine) = k /\ NextLine[k] = [Frame EXCEPT !.next = @ + 1]
      /\ \A i \in 1 .. k - 1 : NextLine[i] = cfStack[i]
  BY NextLineParts
<1> HIDE DEF k
<1>3. /\ Len(cfStack') = k + 1 /\ cfStack'[k + 1] = x
      /\ \A i \in 1 .. k : cfStack'[i] = NextLine[i]
  BY <1>1, <1>2
<1>4. Cursor' = [j \in 1 .. k + 1 |-> IF j < k + 1 THEN [cfStack'[j] EXCEPT !.next = @ - 1] ELSE cfStack'[j]]
  BY <1>3 DEF Cursor
<1>5. Len(Cursor') = k + 1 /\ Cursor'[k + 1] = x
  BY <1>1, <1>3, <1>4
<1>6. ASSUME NEW i \in 1 .. k PROVE Cursor'[i] = Cursor[i]
  <2>1. Cursor'[i] = [NextLine[i] EXCEPT !.next = @ - 1]
    BY <1>1, <1>3, <1>4
  <2>2. CASE i = k
    <3>1. [NextLine[k] EXCEPT !.next = @ - 1] = Frame
      <4>1. NextLine[k] = [file |-> Frame.file, next |-> Frame.next + 1]
        BY <1>1, <1>2
      <4>2. [NextLine[k] EXCEPT !.next = @ - 1] = [file |-> Frame.file, next |-> (Frame.next + 1) - 1]
        BY <4>1
      <4>3. (Frame.next + 1) - 1 = Frame.next
        BY <1>1
      <4> QED  BY <1>1, <4>2, <4>3
    <3> QED  BY <1>1, <2>1, <2>2, <3>1
  <2>3. CASE i < k
    BY <1>1, <1>2, <2>1, <2>3
  <2> QED  BY <1>1, <2>2, <2>3
<1> QED  BY <1>1, <1>5, <1>6

(* Back in the file that includes, its place is the line after the include.*)
LEMMA CursorBack ==
  ASSUME StackInv, Len(cfStack) > 1, cfStack' = Front(cfStack), NEW b,
         b = [j \in 1 .. Len(cfStack) - 1 |-> Cursor[j]]
  PROVE  /\ Len(b) = Len(cfStack) - 1
         /\ Cursor' = [b EXCEPT ![Len(b)] = [b[Len(b)] EXCEPT !.next = @ + 1]]
<1> DEFINE k == Len(cfStack)
           m == k - 1
<1>1. /\ k \in Nat /\ m \in Nat \ {0} /\ cfStack \in Seq(OpenFile) /\ cfStack # <<>> /\ m + 1 = k
  BY DEF StackInv
<1>2. /\ Len(cfStack') = m /\ \A i \in 1 .. m : cfStack'[i] = cfStack[i]
  BY <1>1, FrontOf, FrontParts
<1>3. /\ cfStack[m] = [file |-> cfStack[m].file, next |-> cfStack[m].next] /\ cfStack[m].next \in Nat
      /\ Cursor[m] = [file |-> cfStack[m].file, next |-> cfStack[m].next - 1]
      /\ \A i \in 1 .. m : Cursor[i] = [cfStack[i] EXCEPT !.next = @ - 1]
  <2>1. m \in 1 .. k /\ m \in 1 .. k - 1
    BY <1>1
  <2>2. \A i \in 1 .. m : i \in 1 .. k /\ i < k
    BY <1>1
  <2> QED  BY <1>1, <2>1, <2>2, CursorParts DEF Cursor
<1>4. b = [j \in 1 .. m |-> Cursor[j]]
  OBVIOUS
<1> HIDE DEF m, k
<1>5. Cursor' = [j \in 1 .. m |-> IF j < m THEN [cfStack'[j] EXCEPT !.next = @ - 1] ELSE cfStack'[j]]
  BY <1>2 DEF Cursor
<1>6. Len(b) = m /\ b[m] = Cursor[m]
  BY <1>1, <1>4
<1> DEFINE one == [b[m] EXCEPT !.next = @ + 1]
<1>7. one = cfStack[m]
  <2>1. one = [file |-> cfStack[m].file, next |-> (cfStack[m].next - 1) + 1]
    <3>1. b[m] = [file |-> cfStack[m].file, next |-> cfStack[m].next - 1]
      BY <1>3, <1>6
    <3> QED  BY <3>1
  <2>2. (cfStack[m].next - 1) + 1 = cfStack[m].next
    BY <1>3
  <2> QED  BY <1>3, <2>1, <2>2
<1> HIDE DEF one
<1>8. [b EXCEPT ![m] = one] = [j \in 1 .. m |-> IF j = m THEN one ELSE Cursor[j]]
  BY <1>4
<1>9. ASSUME NEW j \in 1 .. m
      PROVE  (IF j < m THEN [cfStack'[j] EXCEPT !.next = @ - 1] ELSE cfStack'[j])
               = IF j = m THEN one ELSE Cursor[j]
  <2>1. CASE j < m
    <3>1. cfStack'[j] = cfStack[j]
      BY <1>2
    <3>2. Cursor[j] = [cfStack[j] EXCEPT !.next = @ - 1]
      BY <1>3
    <3>3. j # m
      BY <1>1, <2>1
    <3> QED  BY <2>1, <3>1, <3>2, <3>3
  <2>2. CASE j = m
    BY <1>1, <1>2, <1>7, <2>2
  <2> QED  BY <1>1, <2>1, <2>2
<1>10. Cursor' = [b EXCEPT ![m] = one]
  BY <1>5, <1>8, <1>9
<1>11. Len(b) = k - 1
  BY <1>1, <1>6
<1> QED  BY <1>6, <1>10, <1>11 DEF one, k

-----------------------------------------------------------------------------
(* The ways along a place end at a line and go on at an include.           *)
LEMMA WayIsFunction ==
  ASSUME NEW w \in Way
  PROVE  w = [i \in 1 .. Len(w) |-> w[i]]
<1>1. PICK n \in 1 .. DepthLimit + 1 : w \in [1 .. n -> Place]
  BY DEF Way
<1>2. Len(w) = n
  BY <1>1, ConversionAssumption
<1> QED  BY <1>1, <1>2

LEMMA OnWayParts ==
  ASSUME NEW c, OnWay(c)
  PROVE  /\ Len(c) \in Nat \ {0} /\ Len(c) <= DepthLimit + 1 /\ c[1].file = MainFile
         /\ c = [i \in 1 .. Len(c) |-> c[i]] /\ \A i \in 1 .. Len(c) : c[i] \in OpenFile
         /\ \A i \in 1 .. Len(c) - 1 : c[i] \in Place /\ LeadsTo(c[i], c[i + 1].file)
  BY ConversionAssumption DEF OnWay

LEMMA AlongEnds ==
  ASSUME NEW c, OnWay(c), LineOf(c[Len(c)]).kind # "include", NEW w \in Way, Along(w, c)
  PROVE  w = c
<1>1. Len(c) \in Nat \ {0} /\ Len(w) \in Nat \ {0} /\ Len(c) <= Len(w) /\ \A i \in 1 .. Len(c) : w[i] = c[i]
  BY OnWayParts, WayFacts DEF Along
<1>2. ASSUME Len(c) < Len(w) PROVE FALSE
  <2>1. Len(c) \in 1 .. Len(w) - 1 /\ Len(c) \in 1 .. Len(c)
    BY <1>1, <1>2
  <2>2. LeadsTo(w[Len(c)], w[Len(c) + 1].file) /\ w[Len(c)] = c[Len(c)]
    BY <1>1, <2>1, WayFacts
  <2> QED  BY <2>2 DEF LeadsTo
<1>3. Len(w) = Len(c)
  BY <1>1, <1>2
<1>4. w = [i \in 1 .. Len(w) |-> w[i]] /\ c = [i \in 1 .. Len(c) |-> c[i]]
  BY WayIsFunction, OnWayParts
<1> QED  BY <1>1, <1>3, <1>4

LEMMA AlongGoesOn ==
  ASSUME NEW c, OnWay(c), LineOf(c[Len(c)]).kind = "include", NEW w \in Way, Along(w, c)
  PROVE  Len(c) + 1 <= Len(w)
<1>1. Len(c) \in Nat \ {0} /\ Len(w) \in Nat \ {0} /\ Len(c) <= Len(w) /\ w[Len(c)] = c[Len(c)]
  BY OnWayParts, WayFacts DEF Along
<1>2. LineOf(w[Len(w)]).kind # "include"
  BY WayFacts
<1> QED  BY <1>1, <1>2

LEMMA WayHere ==
  ASSUME NEW c, OnWay(c), c[Len(c)] \in Place, LineOf(c[Len(c)]).kind # "include"
  PROVE  c \in Way /\ Along(c, c)
<1>1. /\ Len(c) \in Nat \ {0} /\ Len(c) <= DepthLimit + 1 /\ c[1].file = MainFile
      /\ c = [i \in 1 .. Len(c) |-> c[i]]
      /\ \A i \in 1 .. Len(c) - 1 : c[i] \in Place /\ LeadsTo(c[i], c[i + 1].file)
  BY OnWayParts
<1>2. \A i \in 1 .. Len(c) : c[i] \in Place
  <2>1. \A i \in 1 .. Len(c) : i \in 1 .. Len(c) - 1 \/ i = Len(c)
    BY <1>1
  <2> QED  BY <1>1, <2>1
<1>3. c \in [1 .. Len(c) -> Place] /\ Len(c) \in 1 .. DepthLimit + 1
  BY <1>1, <1>2, ConversionAssumption
<1> QED  BY <1>1, <1>3 DEF Way, Along

(* The cursor stays on a way.                                              *)
LEMMA OnWayNext ==
  ASSUME NEW c, OnWay(c), NEW d, d = [c EXCEPT ![Len(c)] = [c[Len(c)] EXCEPT !.next = @ + 1]]
  PROVE  OnWay(d)
<1> DEFINE k == Len(c)
           one == [c[k] EXCEPT !.next = @ + 1]
<1>1. /\ k \in Nat \ {0} /\ k <= DepthLimit + 1 /\ c[1].file = MainFile
      /\ c = [i \in 1 .. k |-> c[i]] /\ \A i \in 1 .. k : c[i] \in OpenFile
      /\ \A i \in 1 .. k - 1 : c[i] \in Place /\ LeadsTo(c[i], c[i + 1].file)
  BY OnWayParts
<1>2. one \in OpenFile /\ one.file = c[k].file
  <2>1. c[k] \in OpenFile
    BY <1>1
  <2> QED  BY <2>1 DEF OpenFile
<1>3. d = [c EXCEPT ![k] = one]
  OBVIOUS
<1> HIDE DEF k, one
<1>4. d = [i \in 1 .. k |-> IF i = k THEN one ELSE c[i]]
  BY <1>1, <1>3
<1>5. d \in Seq(OpenFile) /\ Len(d) = k
  <2>1. \A i \in 1 .. k : (IF i = k THEN one ELSE c[i]) \in OpenFile
    BY <1>1, <1>2
  <2> DEFINE f == [i \in 1 .. k |-> IF i = k THEN one ELSE c[i]]
  <2>2. f \in [1 .. k -> OpenFile]
    BY <2>1
  <2> HIDE DEF f
  <2>3. f \in Seq(OpenFile) /\ Len(f) = k
    BY <1>1, <2>2
  <2> QED  BY <1>4, <2>3 DEF f
<1>6. \A i \in 1 .. k : d[i].file = c[i].file
  BY <1>2, <1>4
<1>7. ASSUME NEW i \in 1 .. k - 1 PROVE d[i] \in Place /\ LeadsTo(d[i], d[i + 1].file)
  <2>1. i \in 1 .. k /\ i # k /\ i + 1 \in 1 .. k
    BY <1>1
  <2> QED  BY <1>1, <1>4, <1>6, <2>1
<1>8. d[1].file = MainFile /\ k \in 1 .. DepthLimit + 1
  BY <1>1, <1>6, ConversionAssumption
<1> QED  BY <1>5, <1>7, <1>8 DEF OnWay

LEMMA OnWayDeeper ==
  ASSUME NEW c, OnWay(c), Len(c) <= DepthLimit, NEW x \in OpenFile, c[Len(c)] \in Place,
         LeadsTo(c[Len(c)], x.file), NEW d,
         d = [i \in 1 .. Len(c) + 1 |-> d[i]], d[Len(c) + 1] = x, \A i \in 1 .. Len(c) : d[i] = c[i]
  PROVE  OnWay(d)
<1> DEFINE k == Len(c)
<1>1. /\ k \in Nat \ {0} /\ c[1].file = MainFile /\ \A i \in 1 .. k : c[i] \in OpenFile
      /\ \A i \in 1 .. k - 1 : c[i] \in Place /\ LeadsTo(c[i], c[i + 1].file)
  BY OnWayParts
<1> HIDE DEF k
<1>2. \A i \in 1 .. k + 1 : i \in 1 .. k \/ i = k + 1
  BY <1>1
<1>3. \A i \in 1 .. k + 1 : d[i] \in OpenFile
  BY <1>1, <1>2 DEF k
<1>4. d \in Seq(OpenFile) /\ Len(d) = k + 1
  BY <1>1, <1>3 DEF k
<1>5. ASSUME NEW i \in 1 .. k PROVE d[i] \in Place /\ LeadsTo(d[i], d[i + 1].file)
  <2>1. CASE i = k
    BY <2>1 DEF k
  <2>2. CASE i # k
    <3>1. i \in 1 .. k - 1 /\ i + 1 \in 1 .. k
      BY <1>1, <2>2
    <3>2. d[i] = c[i] /\ d[i + 1] = c[i + 1]
      BY <3>1 DEF k
    <3> QED  BY <1>1, <3>1, <3>2
  <2> QED  BY <2>1, <2>2
<1>6. d[1].file = MainFile /\ k + 1 \in 1 .. DepthLimit + 1
  <2>1. 1 \in 1 .. k
    BY <1>1
  <2>2. d[1] = c[1] /\ k <= DepthLimit
    BY <2>1 DEF k
  <2> QED  BY <1>1, <2>2, ConversionAssumption
<1>7. (k + 1) - 1 = k
  BY <1>1
<1> QED  BY <1>4, <1>5, <1>6, <1>7 DEF OnWay

LEMMA OnWayBack ==
  ASSUME NEW c, OnWay(c), Len(c) > 1, NEW b, b = [j \in 1 .. Len(c) - 1 |-> c[j]]
  PROVE  /\ OnWay(b) /\ Len(b) = Len(c) - 1
         /\ b[Len(b)] \in Place /\ LineOf(b[Len(b)]).kind = "include"
<1> DEFINE k == Len(c)
<1>1. /\ k \in Nat \ {0} /\ k <= DepthLimit + 1 /\ c[1].file = MainFile /\ k > 1
      /\ \A i \in 1 .. k : c[i] \in OpenFile
      /\ \A i \in 1 .. k - 1 : c[i] \in Place /\ LeadsTo(c[i], c[i + 1].file)
  BY OnWayParts
<1>2. b = [j \in 1 .. k - 1 |-> c[j]]
  OBVIOUS
<1> HIDE DEF k
<1>3. k - 1 \in Nat \ {0} /\ k - 1 \in 1 .. k - 1 /\ 1 \in 1 .. k - 1 /\ \A i \in 1 .. k - 1 : i \in 1 .. k
  BY <1>1
<1>4. b \in Seq(OpenFile) /\ Len(b) = k - 1
  BY <1>1, <1>2, <1>3
<1>5. b[k - 1] \in Place /\ LeadsTo(b[k - 1], c[k].file)
  <2>1. (k - 1) + 1 = k
    BY <1>1
  <2>2. LeadsTo(c[k - 1], c[(k - 1) + 1].file) /\ c[k - 1] \in Place /\ b[k - 1] = c[k - 1]
    BY <1>1, <1>2, <1>3
  <2> QED  BY <2>1, <2>2
<1>6. ASSUME NEW i \in 1 .. (k - 1) - 1 PROVE b[i] \in Place /\ LeadsTo(b[i], b[i + 1].file)
  <2>1. i \in 1 .. k - 1 /\ i + 1 \in 1 .. k - 1
    BY <1>1
  <2> QED  BY <1>1, <1>2, <2>1
<1>7. b[1].file = MainFile /\ k - 1 \in 1 .. DepthLimit + 1
  BY <1>1, <1>2, <1>3, ConversionAssumption
<1>8. OnWay(b)
  BY <1>4, <1>6, <1>7 DEF OnWay
<1> QED  BY <1>4, <1>5, <1>8 DEF LeadsTo, k

-----------------------------------------------------------------------------
(* What was stored is what was told so far, and of that what counts.       *)
ToldInv == /\ cfStep = "start" => Parsed = {} /\ cfPseudo = <<>>
           /\ cfStep = "parse" => cfStack # <<>> /\ OnWay(Cursor)
           /\ cfStep \in {"write", "published"} => cfStack = <<>>
           /\ cfStep \in {"parse", "write", "published"} =>
                cfProfile \in Profiles /\ Tracks(Told, Parsed, cfPseudo)

LEMMA OnWayStays ==
  ASSUME UNCHANGED <<cfOptions, cfProfile>>, OnWay(Cursor')
  PROVE  OnWay(Cursor)'
<1>1. Place' = Place /\ OpenFile' = OpenFile
  BY SaidStays DEF OpenFile
<1>2. cfProfile' = cfProfile
  OBVIOUS
<1> DEFINE d == Cursor'
<1>3. /\ d \in Seq(OpenFile) /\ Len(d) \in 1 .. DepthLimit + 1 /\ d[1].file = MainFile
      /\ \A i \in 1 .. Len(d) - 1 : d[i] \in Place /\ LeadsTo(d[i], d[i + 1].file)
  BY DEF OnWay
<1> QED  BY <1>1, <1>2, <1>3 DEF OnWay, LeadsTo, LineOf

LEMMA HereFacts ==
  ASSUME ConvInv, ToldInv, cfStep = "parse", ~AtEnd
  PROVE  /\ cfStack # <<>> /\ StackInv /\ OnWay(Cursor) /\ cfProfile \in Profiles
         /\ Len(Cursor) = Len(cfStack) /\ Len(cfStack) \in Nat \ {0}
         /\ Cursor[Len(Cursor)] = Frame
         /\ Frame \in Place /\ LineOf(Frame) = LineAt
         /\ Tracks(Told, Parsed, cfPseudo) /\ Told = {s \in Said : Sooner(s.at, Cursor)}
<1>1. cfStack # <<>> /\ StackInv /\ OnWay(Cursor) /\ cfProfile \in Profiles /\ Tracks(Told, Parsed, cfPseudo)
  BY DEF ConvInv, ToldInv
<1>2. /\ Len(Cursor) = Len(cfStack) /\ Len(cfStack) \in Nat \ {0} /\ Cursor[Len(Cursor)] = Frame
      /\ cfStack \in Seq(OpenFile)
  BY <1>1, CursorParts DEF StackInv
<1>3. Frame \in OpenFile
  BY <1>2 DEF Frame
<1>4. /\ Frame = [file |-> Frame.file, next |-> Frame.next] /\ Frame.file \in DOMAIN cfProfile
      /\ Frame.next \in Nat \ {0}
  BY <1>3 DEF OpenFile
<1>6. Frame.next \in 1 .. Len(cfProfile[Frame.file])
  BY <1>4 DEF AtEnd
<1>7. Frame \in Place /\ LineOf(Frame) = LineAt
  BY <1>4, <1>6 DEF Place, LineOf, LineAt
<1>8. Told = {s \in Said : Sooner(s.at, Cursor)}
  BY <1>1 DEF Told
<1> QED  BY <1>1, <1>2, <1>7, <1>8

(* A line further without going deeper.                                    *)
LEMMA ToldNext ==
  ASSUME ConvInv, ToldInv, cfStep = "parse", ~AtEnd, cfStack' = NextLine, UNCHANGED <<cfOptions, cfProfile>>
  PROVE  /\ Told' = Told \cup {s \in Said : Along(s.at, Cursor)}
         /\ OnWay(Cursor)' /\ cfStack' # <<>>
<1>1. /\ cfStack # <<>> /\ StackInv /\ OnWay(Cursor) /\ cfProfile \in Profiles
      /\ Told = {s \in Said : Sooner(s.at, Cursor)} /\ Len(cfStack) \in Nat \ {0}
  BY HereFacts
<1>2. Cursor' = [Cursor EXCEPT ![Len(Cursor)] = [Cursor[Len(Cursor)] EXCEPT !.next = @ + 1]]
  BY <1>1, CursorNext
<1>3. OnWay(Cursor)'
  BY <1>1, <1>2, OnWayNext, OnWayStays
<1>4. cfStack' # <<>>
  <2>1. Len(NextLine) = Len(cfStack)
    BY <1>1, NextLineParts
  <2>2. Len(cfStack') # 0
    BY <1>1, <2>1
  <2> QED  BY <2>2
<1>5. Told' = {s \in Said : Sooner(s.at, Cursor')}
  BY <1>4, SaidStays DEF Told
<1>6. ASSUME NEW w \in Way PROVE Sooner(w, Cursor') <=> Sooner(w, Cursor) \/ Along(w, Cursor)
  BY <1>1, <1>2, OneLineOn
<1>7. \A s \in Said : s.at \in Way
  BY <1>1, SaidFacts
<1> QED  BY <1>1, <1>3, <1>4, <1>5, <1>6, <1>7

LEMMA ParseAttributeTold == ConvInv /\ ToldInv /\ ParseAttribute => ToldInv'
<1> SUFFICES ASSUME ConvInv, ToldInv, ParseAttribute PROVE ToldInv'
  OBVIOUS
<1>1. /\ cfStep = "parse" /\ ~AtEnd /\ LineAt.kind # "include" /\ cfStack' = NextLine /\ cfStep' = "parse"
      /\ UNCHANGED <<cfOptions, cfProfile>>
      /\ \/ Assigned(LineAt) = {} /\ UNCHANGED cfParsed
         \/ \E record \in Assigned(LineAt) :
              \/ /\ record.tag < SmallTag
                 /\ cfSmall' = [t \in DOMAIN cfSmall \cup {record.tag} |->
                                  IF t = record.tag THEN record ELSE cfSmall[t]]
                 /\ UNCHANGED cfPseudo
              \/ /\ record.tag >= SmallTag
                 /\ StorePseudo(record) /\ UNCHANGED cfSmall
  BY DEF ParseAttribute, ReadLine, cfInput
<1>2. /\ cfStack # <<>> /\ OnWay(Cursor) /\ cfProfile \in Profiles /\ Tracks(Told, Parsed, cfPseudo)
      /\ Cursor[Len(Cursor)] = Frame /\ Frame \in Place /\ LineOf(Frame) = LineAt
      /\ Told = {s \in Said : Sooner(s.at, Cursor)}
  BY <1>1, HereFacts
<1>3. Cursor \in Way /\ \A w \in Way : Along(w, Cursor) <=> w = Cursor
  BY <1>1, <1>2, WayHere, AlongEnds
<1>4. {s \in Said : Along(s.at, Cursor)} = {[at |-> Cursor, record |-> r] : r \in Assigned(LineAt)}
  <2>1. ASSUME NEW s \in Said, Along(s.at, Cursor)
        PROVE  s \in {[at |-> Cursor, record |-> r] : r \in Assigned(LineAt)}
    <3>1. /\ s = [at |-> s.at, record |-> s.record] /\ s.at \in Way
          /\ s.record \in Assigned(LineOf(s.at[Len(s.at)]))
      BY <1>2, SaidFacts
    <3>2. s.at = Cursor
      BY <1>3, <2>1, <3>1
    <3> QED  BY <1>2, <3>1, <3>2
  <2>2. ASSUME NEW r \in Assigned(LineAt)
        PROVE  [at |-> Cursor, record |-> r] \in Said /\ Along(Cursor, Cursor)
    <3>1. r \in Assigned(LineOf(Cursor[Len(Cursor)]))
      BY <1>2
    <3>2. [at |-> Cursor, record |-> r] \in {[at |-> Cursor, record |-> q] : q \in Assigned(LineOf(Cursor[Len(Cursor)]))}
      BY <3>1
    <3>3. Cursor \in Way /\ Along(Cursor, Cursor)
      BY <1>3
    <3> QED  BY <3>2, <3>3, Zenon DEF Said
  <2> QED  BY <2>1, <2>2
<1>5. Told' = Told \cup {[at |-> Cursor, record |-> r] : r \in Assigned(LineAt)}
  BY <1>1, <1>4, ToldNext
<1>6. OnWay(Cursor)' /\ cfStack' # <<>>
  BY <1>1, ToldNext
<1>7. Tracks(Told', Parsed', cfPseudo')
  <2>1. CASE Assigned(LineAt) = {} /\ UNCHANGED cfParsed
    <3>1. Told' = Told
      BY <1>5, <2>1
    <3>2. Parsed' = Parsed /\ cfPseudo' = cfPseudo
      BY <2>1 DEF cfParsed, Parsed
    <3> QED  BY <1>2, <3>1, <3>2
  <2>2. ASSUME NEW record \in Assigned(LineAt),
               \/ /\ record.tag < SmallTag
                  /\ cfSmall' = [t \in DOMAIN cfSmall \cup {record.tag} |->
                                   IF t = record.tag THEN record ELSE cfSmall[t]]
                  /\ UNCHANGED cfPseudo
               \/ /\ record.tag >= SmallTag
                  /\ StorePseudo(record) /\ UNCHANGED cfSmall
        PROVE  Tracks(Told', Parsed', cfPseudo')
    <3> DEFINE x == [at |-> Cursor, record |-> record]
    <3>1. x \in Said /\ x.at = Cursor /\ x.record = record
      BY <1>4
    <3>2. Told' = Told \cup {x}
      BY <1>5, SaysOneThing
    <3>3. record \in Rec /\ TagsInv
      BY <1>2, <3>1, SaidFacts DEF ConvInv
    <3>4. /\ Parsed' = {r \in Parsed : r.tag # record.tag} \cup {r \in {record} : Room(record.tag)}
          /\ Len(cfPseudo') < PseudoLimit =>
               /\ Len(cfPseudo) < PseudoLimit
               /\ \A i \in 1 .. Len(cfPseudo) : \E j \in 1 .. Len(cfPseudo') : cfPseudo'[j].tag = cfPseudo[i].tag
               /\ record.tag >= SmallTag => \E j \in 1 .. Len(cfPseudo') : cfPseudo'[j].tag = record.tag
      BY <2>2, <3>3, ParsedStored
    <3>5. Told \in SUBSET Said /\ \A s \in Told : Sooner(s.at, x.at)
      BY <1>2, <3>1
    <3> HIDE DEF x
    <3>6. TagsInv /\ cfProfile \in Profiles /\ Tracks(Told, Parsed, cfPseudo)
      BY <1>2, <3>3
    <3>7. /\ Parsed' = {r \in Parsed : r.tag # x.record.tag} \cup {r \in {x.record} : Room(x.record.tag)}
          /\ Len(cfPseudo') < PseudoLimit =>
               /\ Len(cfPseudo) < PseudoLimit
               /\ \A i \in 1 .. Len(cfPseudo) : \E j \in 1 .. Len(cfPseudo') : cfPseudo'[j].tag = cfPseudo[i].tag
               /\ x.record.tag >= SmallTag => \E j \in 1 .. Len(cfPseudo') : cfPseudo'[j].tag = x.record.tag
      BY <3>1, <3>4
    <3> QED  BY <3>1, <3>2, <3>5, <3>6, <3>7, TracksOneMore
  <2> QED  BY <1>1, <2>1, <2>2
<1> QED  BY <1>1, <1>2, <1>6, <1>7 DEF ToldInv

LEMMA ParseIncludeTold == ConvInv /\ ToldInv /\ ParseInclude => ToldInv'
<1> SUFFICES ASSUME ConvInv, ToldInv, ParseInclude PROVE ToldInv'
  OBVIOUS
<1>1. /\ cfStep = "parse" /\ ~AtEnd /\ LineAt.kind = "include" /\ cfStep' = "parse"
      /\ Len(cfStack) > DepthLimit \/ LineAt.file \in DOMAIN cfProfile
      /\ cfStack' = IF Len(cfStack) > DepthLimit THEN NextLine
                    ELSE Append(NextLine, [file |-> LineAt.file, next |-> 1])
      /\ UNCHANGED <<cfOptions, cfProfile, cfSmall, cfPseudo>>
  BY DEF ParseInclude, ReadLine, cfInput, cfParsed
<1>2. /\ cfStack # <<>> /\ StackInv /\ OnWay(Cursor) /\ cfProfile \in Profiles /\ Tracks(Told, Parsed, cfPseudo)
      /\ Len(Cursor) = Len(cfStack) /\ Len(cfStack) \in Nat \ {0}
      /\ Cursor[Len(Cursor)] = Frame /\ Frame \in Place /\ LineOf(Frame) = LineAt
      /\ Told = {s \in Said : Sooner(s.at, Cursor)}
  BY <1>1, HereFacts
<1>3. Parsed' = Parsed /\ cfPseudo' = cfPseudo /\ DepthLimit \in Nat
  BY <1>1, ConversionAssumption DEF Parsed
<1>4. \A w \in Way : Along(w, Cursor) => Len(Cursor) + 1 <= Len(w)
  BY <1>1, <1>2, AlongGoesOn
<1>5. \A s \in Said : s.at \in Way
  BY <1>2, SaidFacts
<1>6. CASE Len(cfStack) > DepthLimit
  <2>1. Told' = Told \cup {s \in Said : Along(s.at, Cursor)} /\ OnWay(Cursor)' /\ cfStack' # <<>>
    BY <1>1, <1>6, ToldNext
  <2>2. \A w \in Way : Len(w) \in Nat /\ Len(w) <= DepthLimit + 1
    BY <1>3, WayFacts
  <2>3. \A w \in Way : ~Along(w, Cursor)
    BY <1>2, <1>3, <1>4, <1>6, <2>2
  <2>4. Told' = Told
    BY <1>5, <2>1, <2>3
  <2>5. Tracks(Told', Parsed', cfPseudo')
    BY <1>2, <1>3, <2>4
  <2> QED  BY <1>1, <1>2, <2>1, <2>5 DEF ToldInv
<1>7. CASE ~(Len(cfStack) > DepthLimit)
  <2> DEFINE x == [file |-> LineAt.file, next |-> 1]
  <2>1. x \in OpenFile /\ x.file = LineAt.file /\ x.next = 1
    BY <1>1, <1>7 DEF OpenFile
  <2>2. cfStack' = Append(NextLine, x)
    BY <1>1, <1>7
  <2> HIDE DEF x
  <2>3. NextLine \in Seq(OpenFile) /\ Len(NextLine) = Len(cfStack)
    BY <1>1, <1>2, LineFacts
  <2>4. /\ Len(Cursor') = Len(Cursor) + 1 /\ Cursor'[Len(Cursor) + 1] = x
        /\ \A i \in 1 .. Len(Cursor) : Cursor'[i] = Cursor[i]
    BY <1>2, <2>2, <2>3, CursorDeeper
  <2>5. cfStack' # <<>> /\ Len(cfStack') = Len(cfStack) + 1
    BY <1>2, <2>2, <2>3
  <2>6. Cursor' = [i \in 1 .. Len(Cursor) + 1 |-> Cursor'[i]]
    <3>1. Cursor' = [j \in 1 .. Len(cfStack) + 1 |-> Cursor'[j]]
      BY <2>5 DEF Cursor
    <3> QED  BY <1>2, <3>1
  <2>7. LeadsTo(Cursor[Len(Cursor)], x.file)
    BY <1>1, <1>2, <2>1 DEF LeadsTo
  <2>8. Len(Cursor) <= DepthLimit
    BY <1>2, <1>3, <1>7
  <2>9. OnWay(Cursor')
    BY <1>2, <2>1, <2>4, <2>6, <2>7, <2>8, OnWayDeeper
  <2>10. OnWay(Cursor)'
    BY <1>1, <2>9, OnWayStays
  <2>11. Told' = {s \in Said : Sooner(s.at, Cursor')}
    BY <1>1, <2>5, SaidStays DEF Told
  <2>12. ASSUME NEW w \in Way PROVE Sooner(w, Cursor') <=> Sooner(w, Cursor)
    <3>1. Sooner(w, Cursor') <=> \/ Sooner(w, Cursor)
                                 \/ /\ Along(w, Cursor) /\ Len(Cursor) + 1 <= Len(w)
                                    /\ w[Len(Cursor) + 1].next < x.next
      <4> DEFINE d == Cursor'
      <4>1. /\ Len(Cursor) \in Nat /\ Len(d) = Len(Cursor) + 1 /\ d[Len(Cursor) + 1] = x
            /\ \A i \in 1 .. Len(Cursor) : d[i] = Cursor[i]
        BY <1>2, <2>4
      <4> HIDE DEF d
      <4>4. \A c, b, y :
              (/\ Len(b) \in Nat /\ Len(c) = Len(b) + 1
               /\ \A i \in 1 .. Len(b) : c[i] = b[i]
               /\ c[Len(b) + 1] = y) =>
                (Sooner(w, c) <=> \/ Sooner(w, b)
                                  \/ Along(w, b) /\ Len(b) + 1 <= Len(w) /\ w[Len(b) + 1].next < y.next)
        BY OneFileOn
      <4>2. Sooner(w, d) <=> \/ Sooner(w, Cursor)
                             \/ /\ Along(w, Cursor) /\ Len(Cursor) + 1 <= Len(w)
                                /\ w[Len(Cursor) + 1].next < x.next
        BY <4>1, <4>4
      <4>3. d = Cursor'
        BY DEF d
      <4> QED  BY <4>2, <4>3
    <3>2. ASSUME Len(Cursor) + 1 <= Len(w) PROVE ~(w[Len(Cursor) + 1].next < x.next)
      <4>1. Len(Cursor) + 1 \in 1 .. Len(w)
        BY <1>2, <3>2, WayFacts
      <4>2. w[Len(Cursor) + 1].next \in Nat \ {0}
        BY <1>2, <4>1, WayFacts, PlaceFacts
      <4> QED  BY <2>1, <4>2
    <3> QED  BY <3>1, <3>2
  <2>13. Told' = Told
    BY <1>2, <1>5, <2>11, <2>12
  <2>14. Tracks(Told', Parsed', cfPseudo')
    BY <1>2, <1>3, <2>13
  <2> QED  BY <1>1, <1>2, <2>5, <2>10, <2>14 DEF ToldInv
<1> QED  BY <1>6, <1>7

(* A way that passes an open file leaves it before its end.                *)
LEMMA InsideFile ==
  ASSUME cfProfile \in Profiles, NEW c, OnWay(c), NEW w \in Way, Len(c) <= Len(w),
         \A i \in 1 .. Len(c) - 1 : w[i] = c[i], c[Len(c)].next > Len(cfProfile[c[Len(c)].file])
  PROVE  w[Len(c)].next < c[Len(c)].next
<1> DEFINE k == Len(c)
<1>1. k \in Nat \ {0} /\ Len(w) \in Nat /\ k \in 1 .. Len(c) /\ k \in 1 .. Len(w)
  BY OnWayParts, WayFacts
<1>2. w[k].file = c[k].file
  BY <1>1, SameFile
<1>3. c[k] \in OpenFile
  BY <1>1, OnWayParts
<1>4. c[k].next \in Nat
  BY <1>3 DEF OpenFile
<1>5. w[k].next \in 1 .. Len(cfProfile[w[k].file]) /\ w[k].next \in Nat
  BY <1>1, WayFacts, PlaceFacts
<1> QED  BY <1>2, <1>4, <1>5

LEMMA EndOfFileTold == ConvInv /\ ToldInv /\ EndOfFile => ToldInv'
<1> SUFFICES ASSUME ConvInv, ToldInv, EndOfFile PROVE ToldInv'
  OBVIOUS
<1>1. /\ cfStep = "parse" /\ cfStack # <<>> /\ AtEnd /\ cfStack' = Front(cfStack)
      /\ cfStep' = IF Len(cfStack) = 1 THEN "write" ELSE "parse"
      /\ UNCHANGED <<cfOptions, cfProfile, cfSmall, cfPseudo>>
  BY DEF EndOfFile, cfInput, cfParsed
<1>2. /\ StackInv /\ OnWay(Cursor) /\ cfProfile \in Profiles /\ Tracks(Told, Parsed, cfPseudo)
      /\ cfStack \in Seq(OpenFile) /\ Len(cfStack) \in Nat \ {0}
  BY <1>1 DEF ConvInv, ToldInv, StackInv
<1>3. Len(Cursor) = Len(cfStack) /\ Cursor[Len(Cursor)] = Frame
  BY <1>1, <1>2, CursorParts
<1>4. Told = {s \in Said : Sooner(s.at, Cursor)} /\ \A s \in Said : s.at \in Way
  BY <1>1, <1>2, SaidFacts DEF Told
<1>5. Parsed' = Parsed /\ cfPseudo' = cfPseudo
  BY <1>1 DEF Parsed
<1>6. Len(cfStack') = Len(cfStack) - 1
  BY <1>1, <1>2, FrontOf
<1>7. Frame.next > Len(cfProfile[Frame.file])
  BY DEF EndOfFile, AtEnd
<1>8. CASE Len(cfStack) = 1
  <2>1. cfStack' = <<>> /\ cfStep' = "write"
    <3>1. cfStack' \in Seq(OpenFile) /\ Len(cfStack') = 0
      BY <1>1, <1>2, <1>6, <1>8, FrontOf
    <3> QED  BY <1>1, <1>8, <3>1
  <2>2. ASSUME NEW w \in Way PROVE Sooner(w, Cursor)
    <3>1. Len(w) \in Nat \ {0} /\ Len(Cursor) = 1 /\ Len(Cursor) <= Len(w)
      BY <1>3, <1>8, WayFacts
    <3>2. w[1].next < Cursor[1].next
      <4>1. \A i \in 1 .. Len(Cursor) - 1 : w[i] = Cursor[i]
        BY <3>1
      <4>2. Cursor[Len(Cursor)].next > Len(cfProfile[Cursor[Len(Cursor)].file])
        BY <1>3, <1>7
      <4>3. w[Len(Cursor)].next < Cursor[Len(Cursor)].next
        BY <1>2, <3>1, <4>1, <4>2, InsideFile
      <4> QED  BY <3>1, <4>3
    <3>3. 1 \in 1 .. Len(w) /\ 1 <= Len(Cursor) /\ \A j \in 1 .. 1 - 1 : w[j] = Cursor[j]
      BY <3>1
    <3> QED  BY <3>2, <3>3 DEF Sooner
  <2>3. Told = Said
    BY <1>4, <2>2
  <2>4. Told' = Said
    BY <1>1, <2>1, SaidStays DEF Told
  <2>5. Tracks(Told', Parsed', cfPseudo')
    BY <1>2, <1>5, <2>3, <2>4
  <2> QED  BY <1>1, <1>2, <2>1, <2>5 DEF ToldInv
<1>9. CASE Len(cfStack) # 1
  <2> DEFINE b == [j \in 1 .. Len(Cursor) - 1 |-> Cursor[j]]
             k == Len(cfStack)
  <2>1. k > 1 /\ Len(Cursor) > 1 /\ k \in Nat
    BY <1>2, <1>3, <1>9
  <2>2. OnWay(b) /\ Len(b) = k - 1 /\ b[Len(b)] \in Place /\ LineOf(b[Len(b)]).kind = "include"
    BY <1>2, <1>3, <2>1, OnWayBack
  <2>3. \A i \in 1 .. Len(b) : Cursor[i] = b[i]
    BY <1>3, <2>2
  <2>4. b = [j \in 1 .. Len(cfStack) - 1 |-> Cursor[j]]
    BY <1>3
  <2> HIDE DEF b
  <2>5. Cursor' = [b EXCEPT ![Len(b)] = [b[Len(b)] EXCEPT !.next = @ + 1]]
    BY <1>1, <1>2, <2>1, <2>4, CursorBack
  <2>6. OnWay(Cursor)'
    BY <1>1, <2>2, <2>5, OnWayNext, OnWayStays
  <2>7. cfStack' # <<>> /\ cfStep' = "parse"
    <3>1. Len(cfStack') # 0
      BY <1>6, <2>1
    <3> QED  BY <1>1, <1>9, <3>1
  <2>8. ASSUME NEW w \in Way PROVE Sooner(w, Cursor') <=> Sooner(w, b) \/ Along(w, b)
    BY <1>2, <2>2, <2>5, OneLineOn
  <2>9. ASSUME NEW w \in Way, Along(w, b)
        PROVE  Len(b) + 1 <= Len(w) /\ w[Len(b) + 1].next < Frame.next
    <3>1. Len(b) + 1 <= Len(w)
      BY <2>2, <2>9, AlongGoesOn
    <3>2. Len(b) + 1 = Len(Cursor) /\ Len(Cursor) - 1 = Len(b) /\ Len(b) \in Nat
      BY <1>3, <2>1, <2>2
    <3>3. \A i \in 1 .. Len(Cursor) - 1 : w[i] = Cursor[i]
      BY <2>3, <2>9, <3>2 DEF Along
    <3>4. Len(Cursor) <= Len(w) /\ Cursor[Len(Cursor)].next > Len(cfProfile[Cursor[Len(Cursor)].file])
      BY <1>3, <1>7, <3>1, <3>2
    <3>5. w[Len(Cursor)].next < Cursor[Len(Cursor)].next
      BY <1>2, <3>3, <3>4, InsideFile
    <3> QED  BY <1>3, <3>1, <3>2, <3>5
  <2>10. ASSUME NEW w \in Way
         PROVE  Sooner(w, Cursor) <=> \/ Sooner(w, b)
                                      \/ Along(w, b) /\ Len(b) + 1 <= Len(w) /\ w[Len(b) + 1].next < Frame.next
    <3>1. /\ Len(b) \in Nat /\ Len(Cursor) = Len(b) + 1 /\ \A i \in 1 .. Len(b) : Cursor[i] = b[i]
          /\ Cursor[Len(b) + 1] = Frame
      BY <1>3, <2>1, <2>2, <2>3
    <3>2. \A c, y :
            (/\ Len(c) = Len(b) + 1
             /\ \A i \in 1 .. Len(b) : c[i] = b[i]
             /\ c[Len(b) + 1] = y) =>
              (Sooner(w, c) <=> \/ Sooner(w, b)
                                \/ Along(w, b) /\ Len(b) + 1 <= Len(w) /\ w[Len(b) + 1].next < y.next)
      BY <3>1, OneFileOn
    <3> QED  BY <3>1, <3>2
  <2>11. Told' = {s \in Said : Sooner(s.at, Cursor')}
    BY <1>1, <2>7, SaidStays DEF Told
  <2>12. \A w \in Way : Sooner(w, Cursor') <=> Sooner(w, Cursor)
    BY <2>8, <2>9, <2>10
  <2>13. Told' = Told
    BY <1>4, <2>11, <2>12
  <2>14. Tracks(Told', Parsed', cfPseudo')
    BY <1>2, <1>5, <2>13
  <2> QED  BY <1>1, <1>2, <2>6, <2>7, <2>14 DEF ToldInv
<1> QED  BY <1>8, <1>9

LEMMA NothingTold == Tracks({}, {}, <<>>)
  BY FS_EmptySet DEF Tracks, PseudoTags, Counting

LEMMA ToldStarts == ConversionInit => ToldInv
  BY DEF ConversionInit, ToldInv, Parsed, Range

LEMMA StartConversionTold == ConvInv /\ ToldInv /\ StartConversion => ToldInv'
<1> SUFFICES ASSUME ConvInv, ToldInv, StartConversion PROVE ToldInv'
  OBVIOUS
<1>1. /\ cfStep = "start" /\ cfStep' = "parse" /\ cfProfile' \in Profiles
      /\ cfStack' = <<[file |-> MainFile, next |-> 1]>>
      /\ UNCHANGED <<cfSmall, cfPseudo>>
  BY DEF StartConversion, cfParsed
<1>2. ConvInv'
  BY StartConversionKeeps
<1>3. cfStack' # <<>> /\ Len(cfStack') = 1 /\ cfStack'[1] = [file |-> MainFile, next |-> 1]
  BY <1>1
<1>4. Cursor' = [j \in 1 .. 1 |-> [file |-> MainFile, next |-> 1]]
  BY <1>3 DEF Cursor
<1>5. [file |-> MainFile, next |-> 1] \in OpenFile'
  BY <1>1, ConversionAssumption DEF OpenFile
<1>6. OnWay(Cursor)'
  <2>1. Cursor' \in Seq(OpenFile') /\ Len(Cursor') = 1 /\ Cursor'[1].file = MainFile
    BY <1>4, <1>5
  <2>2. 1 \in 1 .. DepthLimit + 1
    BY ConversionAssumption
  <2> QED  BY <2>1, <2>2 DEF OnWay
<1>7. Told' = {}
  <2>1. Told' = {s \in Said' : Sooner(s.at, Cursor')}
    BY <1>3 DEF Told
  <2>2. ASSUME NEW s \in Said' PROVE ~Sooner(s.at, Cursor')
    <3>1. \A i \in 1 .. Len(s.at) : s.at[i].next \in Nat \ {0}
      <4>1. PICK w \in Way' : \E r \in (Assigned(LineOf(w[Len(w)])))' : s = [at |-> w, record |-> r]
        BY <2>2 DEF Said
      <4>2. s.at = w
        BY <4>1
      <4>3. PICK n \in 1 .. DepthLimit + 1 : w \in [1 .. n -> Place']
        BY DEF Way
      <4>4. Len(w) = n
        BY <4>3, ConversionAssumption
      <4>5. \A place \in Place' : place.next \in Nat \ {0}
        BY DEF Place
      <4> QED  BY <4>2, <4>3, <4>4, <4>5
    <3>2. \A i \in 1 .. Len(s.at) : i <= Len(Cursor') => Cursor'[i].next = 1
      BY <1>4
    <3> QED  BY <3>1, <3>2 DEF Sooner
  <2> QED  BY <2>1, <2>2
<1>8. Parsed' = {} /\ cfPseudo' = <<>>
  BY <1>1 DEF ToldInv, Parsed
<1>9. Tracks(Told', Parsed', cfPseudo')
  BY <1>7, <1>8, NothingTold
<1> QED  BY <1>1, <1>3, <1>6, <1>9 DEF ToldInv

(* Once it is parsed, nothing more is told.                                *)
LEMMA ToldStays ==
  ASSUME ToldInv, UNCHANGED <<cfOptions, cfProfile, cfStack, cfSmall, cfPseudo>>,
         \/ cfStep' = cfStep
         \/ cfStep = "write" /\ cfStep' = "published"
         \/ cfStep' = "refused"
  PROVE  ToldInv'
<1>1. Parsed' = Parsed /\ Cursor' = Cursor
  BY DEF Parsed, Cursor
<1>2. Told' = Told
  BY <1>1, SaidStays DEF Told
<1>3. OnWay(Cursor) => OnWay(Cursor)'
  BY <1>1, OnWayStays
<1>4. Tracks(Told, Parsed, cfPseudo) => Tracks(Told', Parsed', cfPseudo')
  BY <1>1, <1>2
<1> QED  BY <1>1, <1>3, <1>4 DEF ToldInv

LEMMA ToldKept == ConvInv /\ ToldInv /\ [ConversionNext]_cfVars => ToldInv'
<1> SUFFICES ASSUME ConvInv, ToldInv, [ConversionNext]_cfVars PROVE ToldInv'
  OBVIOUS
<1>1. CASE UNCHANGED cfVars
  BY <1>1, ToldStays DEF cfVars, cfInput, cfParsed
<1>2. CASE RefuseProfile
  BY <1>2, ToldStays DEF RefuseProfile, cfInput, cfParsed
<1>3. CASE WriteOneFile
  <2>1. cfStep' = cfStep \/ cfStep' = "refused"
    BY <1>3 DEF WriteOneFile
  <2> QED  BY <1>3, <2>1, ToldStays DEF WriteOneFile, cfInput, cfParsed
<1>4. CASE PublishAll
  BY <1>4, ToldStays DEF PublishAll, cfInput, cfParsed
<1>5. ASSUME NEW name \in FileNames, NEW key, NEW xkey, ReadBack(name, key, xkey) PROVE ToldInv'
  BY <1>5, ToldStays DEF ReadBack, cfInput, cfParsed
<1> QED  BY <1>1, <1>2, <1>3, <1>4, <1>5, StartConversionTold, ParseAttributeTold, ParseIncludeTold,
            EndOfFileTold DEF ConversionNext

LEMMA ParsedIsMeant == ToldInv /\ cfStep = "published" => Parsed = Meaning
  BY DEF ToldInv, Told, Tracks, Meaning

LEMMA ReadBackMeans == ConvInv /\ ToldInv => ReadsBackWhole
<1> SUFFICES ASSUME ConvInv, ToldInv, NEW pass \in Passes, cfStep = "published"
             PROVE  LET names == {n \in DOMAIN cfFiles : PassOf(n) = pass} IN
                      /\ UNION {TextOf(cfFiles[n].records) : n \in names} = TextOf(Kept(Meaning))
                      /\ \A m, n \in names : \A r \in cfFiles[m].records, s \in cfFiles[n].records :
                            r.tag = s.tag => m = n /\ r = s
                      /\ \A n \in names : cfFiles[n].link \in {""} \cup names
                      /\ Cardinality(names) = 2 => \E n \in names : ~Extends(n) /\ cfFiles[n].link # ""
  BY DEF ReadsBackWhole
<1> DEFINE names == {n \in DOMAIN cfFiles : PassOf(n) = pass}
<1>1. /\ UNION {cfFiles[n].records : n \in names} = Kept(Meaning)
      /\ \A m, n \in names : \A r \in cfFiles[m].records, s \in cfFiles[n].records :
            r.tag = s.tag => m = n /\ r = s
      /\ {cfFiles[n].link : n \in names} \ {""} = {n \in names : Extends(n)}
  BY FilesMean, ParsedIsMeant DEF FilesHoldParsed
<1>2. UNION {TextOf(cfFiles[n].records) : n \in names} = TextOf(Kept(Meaning))
  <2> DEFINE lines(r) == IF EntryByTag(r.tag) = {} THEN {<<"#unknownTag", r.tag, r.value>>}
                         ELSE {<<e.name, r.tag, Decode(e, r.value)>> : e \in EntryByTag(r.tag)}
  <2>1. \A records : TextOf(records) = UNION {lines(r) : r \in records}
    BY DEF TextOf
  <2> HIDE DEF lines, names
  <2>2. TextOf(Kept(Meaning)) = UNION {lines(r) : r \in UNION {cfFiles[n].records : n \in names}}
    BY <1>1, <2>1
  <2> QED  BY <2>1, <2>2
<1>3. \A n \in names : cfFiles[n].link \in {""} \cup names
  <2> HIDE DEF names
  <2> SUFFICES ASSUME NEW n \in names, cfFiles[n].link # "" PROVE cfFiles[n].link \in names
    OBVIOUS
  <2>1. cfFiles[n].link \in {cfFiles[m].link : m \in names} \ {""}
    OBVIOUS
  <2> QED  BY <1>1, <2>1
<1>4. ASSUME Cardinality(names) = 2 PROVE \E n \in names : ~Extends(n) /\ cfFiles[n].link # ""
  <2>1. \A n \in names : n \in FileNames /\ PassOf(n) = pass /\ cfFiles[n].link = LinkOf(n)
    BY DEF ConvInv, FilesInv, Planned
  <2>2. PICK n \in names : Extends(n)
    <3>1. ASSUME \A n \in names : ~Extends(n) PROVE FALSE
      <4>1. names \subseteq {"out"} \/ names \subseteq {"out.x"}
        BY <2>1, <3>1 DEF FileNames, PassOf, Extends
      <4>2. \A x : names \subseteq {x} => Cardinality(names) \in {0, 1}
        <5> HIDE DEF names
        <5>1. ASSUME NEW x, names \subseteq {x} PROVE names = {} \/ names = {x}
          BY <5>1
        <5>2. \A x : Cardinality({x}) = 1
          BY FS_Singleton
        <5>3. Cardinality({}) = 0
          BY FS_EmptySet
        <5> QED  BY <5>1, <5>2, <5>3
      <4> QED  BY <1>4, <4>1, <4>2
    <3> QED  BY <3>1
  <2>3. PICK m \in names : cfFiles[m].link = n /\ n # ""
    <3>1. n # ""
      BY <2>2 DEF Extends
    <3>2. n \in {cfFiles[m].link : m \in names} \ {""}
      BY <1>1, <2>2
    <3> QED  BY <3>1, <3>2
  <2>4. ~Extends(m)
    BY <2>1, <2>3 DEF LinkOf
  <2> QED  BY <2>3, <2>4
<1> QED  BY <1>1, <1>2, <1>3, <1>4

(* What a conversion publishes, read back with its keys, says what the     *)
(* profile says, read with its includes and without the machine: no        *)
(* assignment that counts is lost and none is said twice, for every        *)
(* profile, dictionary and limit (src/firmware/cfgfmt.py:753-1044).        *)
THEOREM ProfileReadsBack == ConversionSpec => []ReadsBackWhole
<1>1. ConversionInit => ConvInv /\ ToldInv
  BY ConversionStarts, ToldStarts
<1>2. ConvInv /\ ToldInv /\ [ConversionNext]_cfVars => ConvInv' /\ ToldInv'
  BY ConversionKept, ToldKept
<1>3. ConvInv /\ ToldInv => ReadsBackWhole
  BY ReadBackMeans
<1> QED  BY <1>1, <1>2, <1>3, PTL DEF ConversionSpec

(* What reading a profile may still take: two steps for each line left of  *)
(* the budget all files share, one to enter a file and one to leave it.    *)
Remaining == 2 * (InputLimit + 1 - cfBudget) + Len(cfStack)

(* A step taken while a profile is being read leaves less of it to take.   *)
ReadingProgresses ==
  cfStep = "parse" => Remaining' \in Nat /\ Remaining \in Nat /\ Remaining' < Remaining

(* A step of the parser takes a line of the budget, entering a file at     *)
(* most, or leaves the file at whose end it is.                            *)
LEMMA ReadingStep ==
  ASSUME ConvInv, cfStep = "parse", ConversionNext
  PROVE  /\ cfBudget \in 0 .. InputLimit /\ Len(cfStack) \in Nat
         /\ \/ /\ cfBudget' = cfBudget + 1
               /\ Len(cfStack') \in {Len(cfStack), Len(cfStack) + 1}
            \/ cfBudget' = cfBudget /\ Len(cfStack) \in Nat \ {0} /\ Len(cfStack') = Len(cfStack) - 1
<1>1. cfBudget \in 0 .. InputLimit /\ cfStack \in Seq(OpenFile) /\ Len(cfStack) \in Nat
  BY ConversionAssumption DEF ConvInv, StackInv
<1>2. CASE ParseAttribute
  <2>1. cfStack # <<>> /\ ~AtEnd /\ cfBudget' = cfBudget + 1 /\ cfStack' = NextLine
    BY <1>2 DEF ParseAttribute, ReadLine
  <2>2. Len(NextLine) = Len(cfStack)
    BY <2>1, LineFacts
  <2> QED  BY <1>1, <2>1, <2>2
<1>3. CASE ParseInclude
  <2>1. /\ cfStack # <<>> /\ ~AtEnd /\ cfBudget' = cfBudget + 1
        /\ cfStack' = NextLine \/ cfStack' = Append(NextLine, [file |-> LineAt.file, next |-> 1])
    BY <1>3 DEF ParseInclude, ReadLine
  <2>2. NextLine \in Seq(OpenFile) /\ Len(NextLine) = Len(cfStack)
    BY <2>1, LineFacts
  <2>3. \A x : Len(Append(NextLine, x)) = Len(NextLine) + 1
    BY <2>2
  <2> QED  BY <1>1, <2>1, <2>2, <2>3
<1>4. CASE RefuseProfile
  BY <1>1, <1>4 DEF RefuseProfile, ReadLine
<1>5. CASE EndOfFile
  <2>1. cfStack # <<>> /\ cfStack' = Front(cfStack) /\ cfBudget' = cfBudget
    BY <1>5 DEF EndOfFile
  <2>2. Len(Front(cfStack)) = Len(cfStack) - 1 /\ Len(cfStack) # 0
    BY <1>1, <2>1, FrontOf
  <2> QED  BY <1>1, <2>1, <2>2
<1>6. ParseAttribute \/ ParseInclude \/ RefuseProfile \/ EndOfFile
  BY DEF ConversionNext, StartConversion, WriteOneFile, PublishAll, ReadBack
<1> QED  BY <1>1, <1>2, <1>3, <1>4, <1>5, <1>6

(* Reading a profile ends, however its files include each other: every     *)
(* step of the parser uses up some of what is left, which the limits of    *)
(* input and depth bound (src/firmware/cfgfmt.py:753-842).                 *)
THEOREM ReadingEnds == ConversionSpec => [][ReadingProgresses]_cfVars
<1>1. ConvInv /\ [ConversionNext]_cfVars => [ReadingProgresses]_cfVars
  <2> SUFFICES ASSUME ConvInv, ConversionNext, cfStep = "parse"
               PROVE  Remaining' \in Nat /\ Remaining \in Nat /\ Remaining' < Remaining
    BY DEF ReadingProgresses
  <2>1. InputLimit \in Nat
    BY ConversionAssumption
  <2>2. /\ cfBudget \in 0 .. InputLimit /\ Len(cfStack) \in Nat
        /\ \/ /\ cfBudget' = cfBudget + 1
              /\ Len(cfStack') \in {Len(cfStack), Len(cfStack) + 1}
           \/ cfBudget' = cfBudget /\ Len(cfStack) \in Nat \ {0} /\ Len(cfStack') = Len(cfStack) - 1
    BY ReadingStep
  <2>3. Remaining' = 2 * (InputLimit + 1 - cfBudget') + Len(cfStack')
    BY DEF Remaining
  <2> QED  BY <2>1, <2>2, <2>3 DEF Remaining
<1> QED  BY <1>1, ConversionStarts, ConversionKept, PTL DEF ConversionSpec

-----------------------------------------------------------------------------
(* The thread's service differs from FirmwareService in its quiet period   *)
(* only, which a send alone looks at.                                      *)
LEMMA ThreadServes == S!LoopStep => LoopStep \/ S!SendOk
<1>1. S!Start => Start
  BY DEF S!Start, Start, S!wireVars, wireVars, S!envVars, envVars
<1>2. S!LoopTop => LoopTop
  BY DEF S!LoopTop, LoopTop, S!Over, Over, S!wireVars, wireVars, S!envVars, envVars
<1>3. S!SelectReady => SelectReady
  BY DEF S!SelectReady, SelectReady, S!Socket, Socket, S!wireVars, wireVars, S!envVars, envVars
<1>4. S!SelectTimeout => SelectTimeout
  BY DEF S!SelectTimeout, SelectTimeout, S!Socket, Socket, S!wireVars, wireVars, S!envVars, envVars
<1>5. S!SendFails => SendFails
  BY DEF S!SendFails, SendFails, S!wireVars, wireVars, S!envVars, envVars
<1>6. ASSUME NEW s, NEW d, S!Receive(s, d) PROVE Receive(s, d)
  <2>1. \A x, y : S!AtHead(x, y) => AtHead(x, y)
    BY DEF S!AtHead, AtHead, S!Current, Current, S!wireVars, wireVars, S!envVars, envVars
  <2>2. \A x, y : S!Take(x, y) => Take(x, y)
    BY <2>1 DEF S!Take, Take
  <2>3. \A f : S!Bump(f) => Bump(f)
    BY DEF S!Bump, Bump, S!Counter, Counter
  <2>4. S!Discard(s, d) => Discard(s, d)
    BY <2>1 DEF S!Discard, Discard
  <2>5. S!Reject(s, d) \/ S!CommandInvalid(s, d) \/ S!DataInvalid(s, d)
        => Reject(s, d) \/ CommandInvalid(s, d) \/ DataInvalid(s, d)
    BY <2>2, <2>3 DEF S!Reject, Reject, S!CommandInvalid, CommandInvalid, S!DataInvalid, DataInvalid,
                      S!AfterPacket, AfterPacket, S!ValidData, ValidData
  <2>6. S!CommandAnswer(s, d) => CommandAnswer(s, d)
    BY <2>2, <2>3 DEF S!CommandAnswer, CommandAnswer, S!Answer, Answer, S!Selects, Selects
  <2>7. S!DataAnswer(s, d) => DataAnswer(s, d)
    BY <2>2, <2>3 DEF S!DataAnswer, DataAnswer, S!Answer, Answer, S!ValidData, ValidData
  <2> QED  BY <1>6, <2>4, <2>5, <2>6, <2>7 DEF S!Receive, Receive
<1>7. \A s : S!Incoming(s) = Incoming(s)
  BY DEF S!Incoming, Incoming, S!Datagram, Datagram
<1> QED
  BY <1>1, <1>2, <1>3, <1>4, <1>5, <1>6, <1>7 DEF S!LoopStep, LoopStep, S!Socket, Socket

LEMMA ThreadArrives ==
  ASSUME NEW s, NEW d, S!Arrive(s, d)
  PROVE  Arrive(s, d)
  BY DEF S!Arrive, Arrive, S!Running, Running, S!loopVars, loopVars, S!wireVars, wireVars

LEMMA ThreadSends ==
  ASSUME ReplyTyped, S!SendOk
  PROVE  ReplyTyped'
<1>1. PICK r \in reply : (S!SendCommand(r) \/ S!SendData(r)) /\ sent' = sent \cup {r}
  BY DEF S!SendOk
<1>2. /\ reply' = {} /\ pc' \in {"top", "each"} /\ pc = "send"
      /\ UNCHANGED <<readable, selected, arrived, now, networkSafe, stop, queue, badSums, cause>>
  BY DEF S!SendOk, S!envVars
<1>3. r \in Reply /\ (r.kind = "block" => r.index \in Block)
  BY <1>1 DEF ReplyTyped, ServiceTypeOK, ReplyInv
<1>4. count' \in [Counter -> Nat]
  <2>1. ASSUME NEW fields, S!Bump(fields) PROVE count' \in [Counter -> Nat]
    <3>1. count' = [c \in Counter |-> IF c \in fields THEN count[c] + 1 ELSE count[c]]
      BY <2>1 DEF S!Bump, S!Counter, Counter
    <3>2. \A c \in Counter : count[c] \in Nat
      BY DEF ReplyTyped, ServiceTypeOK
    <3> QED  BY <3>1, <3>2
  <2> QED  BY <1>1, <2>1 DEF S!SendCommand, S!SendData
<1>5. /\ unique' \in SUBSET Block /\ advertised' \in BOOLEAN /\ logged' \in BOOLEAN
      /\ lastData' \in Nat \cup {NoTime} /\ quietUntil' \in Nat \cup {NoTime}
  <2>1. CASE S!SendCommand(r)
    BY <2>1 DEF S!SendCommand, ReplyTyped, ServiceTypeOK
  <2>2. CASE S!SendData(r)
    <3>1. unique' \in SUBSET Block
      BY <2>2, <1>3 DEF S!SendData, ReplyTyped, ServiceTypeOK
    <3>2. quietUntil' \in Nat \cup {NoTime}
      BY <2>2 DEF S!SendData, S!QuietAfter, ReplyTyped, ServiceTypeOK
    <3>3. logged' \in BOOLEAN
      BY <2>2 DEF S!SendData, ReplyTyped, ServiceTypeOK
    <3> QED  BY <2>2, <3>1, <3>2, <3>3 DEF S!SendData, ReplyTyped, ServiceTypeOK
  <2> QED  BY <1>1, <2>1, <2>2
<1>6. sent' \in SUBSET Reply
  BY <1>1, <1>3 DEF ReplyTyped, ServiceTypeOK
<1>7. ServiceTypeOK'
  BY <1>2, <1>4, <1>5, <1>6 DEF ReplyTyped, ServiceTypeOK
<1>8. ReplyInv'
  BY <1>2 DEF ReplyTyped, ReplyInv
<1> QED  BY <1>7, <1>8 DEF ReplyTyped

(* The client asks within the image and holds what the thread has sent.    *)
ClientInv == /\ qcStep \in Asking \cup QualifyOver \cup {"start", "stop", "join"}
             /\ qcBlock \in 0 .. NumBlocks /\ (qcStep \in Asking \cup {"start"} => qcBlock < NumBlocks)
             /\ qcWait \in (0 .. ClientTimeout) \cup {NoTime} /\ qcJoin \in 0 .. JoinTimeout
             /\ qcHeld \subseteq Reply /\ qcError \in BOOLEAN /\ qcForeign \in 0 .. MaxForeign

LEMMA RequestFacts ==
  ASSUME ClientInv, qcStep \in Asking
  PROVE  ClientRequest[1] \in Socket /\ ClientRequest[2] \in Incoming(ClientRequest[1])
<1>1. CASE qcStep = "selection"
  <2>1. ClientRequest = <<"command", [kind |-> "select", index |-> 0]>>
    BY <1>1 DEF ClientRequest
  <2> QED  BY <2>1, NumBlocksAssumption DEF Socket, Incoming, Datagram
<1>2. CASE qcStep = "hello"
  <2>1. ClientRequest = <<"data", [kind |-> "hello", index |-> 0]>>
    BY <1>2 DEF ClientRequest
  <2> QED  BY <2>1, NumBlocksAssumption DEF Socket, Incoming, Datagram
<1>3. CASE qcStep = "blocks"
  <2>1. ClientRequest = <<"data", [kind |-> "block", index |-> qcBlock]>>
    BY <1>3 DEF ClientRequest
  <2> QED  BY <2>1, NumBlocksAssumption DEF Socket, Incoming, Datagram, ClientInv
<1> QED  BY <1>1, <1>2, <1>3 DEF Asking

LEMMA ReplyTypedKept == ReplyTyped /\ [ServiceNext]_serviceVars => ReplyTyped'
  BY TypeStep, ReplyStep DEF ReplyTyped

LEMMA ReplyTypedStarts == ServiceInit => ReplyTyped
  BY InitIInv DEF IInv, ReplyTyped

(* What the main thread and the others do to the service.                  *)
LEMMA ServiceAside ==
  ASSUME ReplyTyped, ClientInv, QualifyNext \/ UNCHANGED qualifyVars
  PROVE  ReplyTyped'
<1>1. CASE UNCHANGED serviceVars
  BY <1>1, ReplyTypedKept
<1>2. ASSUME NEW s \in Socket, NEW d \in Incoming(s), S!Arrive(s, d) PROVE ReplyTyped'
  BY <1>2, ThreadArrives, ReplyTypedKept DEF ServiceNext, EnvStep
<1>3. CASE StopService
  <2>1. stop' = TRUE /\ UNCHANGED <<loopVars, wireVars, arrived, now, networkSafe, queue, badSums, cause>>
    BY <1>3 DEF StopService
  <2> QED  BY <2>1 DEF ReplyTyped, ServiceTypeOK, ReplyInv, loopVars, wireVars
<1>4. CASE ThreadStep
  BY <1>4, ThreadServes, ThreadSends, ReplyTypedKept DEF ThreadStep, ServiceNext
<1>5. CASE QualifyTick
  <2>1. now' = now + 1 /\ UNCHANGED <<loopVars, wireVars, arrived, networkSafe, stop, queue, badSums, cause>>
    BY <1>5 DEF QualifyTick
  <2> QED  BY <2>1 DEF ReplyTyped, ServiceTypeOK, ReplyInv, loopVars, wireVars
<1>6. CASE ForeignArrives
  <2>1. PICK s \in Socket, k \in {"stray", "corrupt"} : S!Arrive(s, [kind |-> k, index |-> 0])
    BY <1>6 DEF ForeignArrives
  <2>2. [kind |-> k, index |-> 0] \in Incoming(s)
    BY NumBlocksAssumption DEF Incoming, Datagram
  <2> QED  BY <2>1, <2>2, <1>2
<1>7. CASE StartQualification \/ ClientTimesOut \/ Conclude \/ (\E r \in Reply : ClientHears(r))
  BY <1>7, <1>1 DEF StartQualification, ClientTimesOut, Conclude, ClientHears
<1>8. CASE ClientAsks
  <2>1. qcStep \in Asking
    BY <1>8 DEF ClientAsks
  <2>2. ClientRequest[1] \in Socket /\ ClientRequest[2] \in Incoming(ClientRequest[1])
    BY <2>1, RequestFacts
  <2> QED  BY <1>1, <1>2, <1>8, <2>2 DEF ClientAsks
<1> QED  BY <1>1, <1>3, <1>4, <1>5, <1>6, <1>7, <1>8 DEF QualifyNext, MainStep, qualifyVars

LEMMA ClientStarts == QualifyInit => ClientInv
<1> SUFFICES ASSUME QualifyInit PROVE ClientInv
  OBVIOUS
<1>1. qcStep = "start" /\ qcBlock = 0 /\ qcWait = NoTime /\ qcHeld = {} /\ qcError = FALSE /\ qcJoin = 0 /\ qcForeign = 0
  BY DEF QualifyInit
<1>2. qcBlock \in 0 .. NumBlocks /\ qcBlock < NumBlocks /\ qcJoin \in 0 .. JoinTimeout /\ qcForeign \in 0 .. MaxForeign
  BY <1>1, NumBlocksAssumption, ClientAssumption
<1>3. qcHeld \subseteq Reply /\ qcError \in BOOLEAN /\ qcWait \in (0 .. ClientTimeout) \cup {NoTime}
  BY <1>1
<1> QED  BY <1>1, <1>2, <1>3 DEF ClientInv

LEMMA RaisingTyped ==
  ASSUME ClientInv, ClientRaises, UNCHANGED <<qcJoin, qcForeign>>
  PROVE  ClientInv'
<1>1. /\ qcError' = TRUE /\ qcStep' = "stop" /\ UNCHANGED <<qcBlock, qcHeld, qcWait, qcJoin, qcForeign>>
  BY DEF ClientRaises
<1> QED  BY <1>1 DEF ClientInv, Asking

LEMMA HearingTyped ==
  ASSUME ClientInv, NEW r, ClientHears(r)
  PROVE  ClientInv'
<1>1. qcStep \in Asking /\ UNCHANGED <<qcJoin, qcForeign>>
  BY DEF ClientHears
<1>2. CASE ~ClientExpects(r)
  BY <1>1, <1>2, RaisingTyped DEF ClientHears
<1>3. CASE ClientExpects(r)
  <2>1. qcHeld' = qcHeld \ {r} /\ qcWait' = NoTime /\ qcError' = qcError
    BY <1>3 DEF ClientHears
  <2>2. /\ qcStep' \in Asking \cup {"stop"} /\ qcBlock' \in 0 .. NumBlocks
        /\ qcStep' \in Asking => qcBlock' < NumBlocks
    <3>1. CASE qcStep = "selection"
      <4>1. qcStep' = "hello" /\ qcBlock' = qcBlock
        BY <1>3, <3>1 DEF ClientHears
      <4> QED  BY <1>1, <4>1 DEF ClientInv, Asking
    <3>2. CASE qcStep = "hello"
      <4>1. qcStep' = "blocks" /\ qcBlock' = qcBlock
        BY <1>3, <3>2 DEF ClientHears
      <4> QED  BY <1>1, <4>1 DEF ClientInv, Asking
    <3>3. CASE qcStep = "blocks"
      <4>1. /\ qcStep' = IF qcBlock = NumBlocks - 1 THEN "stop" ELSE "blocks"
            /\ qcBlock' = qcBlock + 1
        BY <1>3, <3>3 DEF ClientHears
      <4>2. qcBlock \in Nat /\ qcBlock < NumBlocks
        BY <1>1 DEF ClientInv
      <4> QED  BY <4>1, <4>2, NumBlocksAssumption DEF Asking
    <3> QED  BY <1>1, <3>1, <3>2, <3>3 DEF Asking
  <2> QED  BY <1>1, <2>1, <2>2 DEF ClientInv
<1> QED  BY <1>2, <1>3

LEMMA ClientKept ==
  ASSUME ReplyTyped, ClientInv, QualifyNext \/ UNCHANGED qualifyVars
  PROVE  ClientInv'
<1>1. CASE StartQualification \/ StopService \/ Conclude
  <2>1. /\ UNCHANGED <<qcBlock, qcWait, qcHeld, qcError, qcForeign>>
        /\ qcJoin' \in {qcJoin, JoinTimeout}
        /\ \/ qcStep = "start" /\ qcStep' = "selection"
           \/ qcStep' \in {"join", "qualified", "refused"}
    BY <1>1 DEF StartQualification, StopService, Conclude
  <2>2. qcStep = "start" => qcBlock < NumBlocks
    BY DEF ClientInv
  <2> QED  BY <2>1, <2>2, ClientAssumption DEF ClientInv, Asking, QualifyOver
<1>2. CASE ClientAsks
  <2>1. CASE now >= SessionLimit
    BY <1>2, <2>1, RaisingTyped DEF ClientAsks
  <2>2. CASE ~(now >= SessionLimit)
    <3>1. qcWait' = ClientTimeout /\ UNCHANGED <<qcStep, qcBlock, qcHeld, qcError, qcJoin, qcForeign>>
      BY <1>2, <2>2 DEF ClientAsks
    <3> QED  BY <3>1, ClientAssumption DEF ClientInv
  <2> QED  BY <2>1, <2>2
<1>3. CASE \E r \in Reply : ClientHears(r)
  BY <1>3, HearingTyped
<1>4. CASE ClientTimesOut
  BY <1>4, RaisingTyped DEF ClientTimesOut
<1>5. CASE ThreadStep
  <2>1. /\ qcHeld' = qcHeld \cup (sent' \ sent)
        /\ UNCHANGED <<qcStep, qcBlock, qcWait, qcError, qcJoin, qcForeign>>
    BY <1>5 DEF ThreadStep
  <2>2. sent' \subseteq Reply
    BY <1>5, ServiceAside DEF QualifyNext, ReplyTyped, ServiceTypeOK
  <2> QED  BY <2>1, <2>2 DEF ClientInv
<1>6. CASE QualifyTick
  <2>1. /\ qcWait' = Less(qcWait) /\ qcJoin' = Less(qcJoin)
        /\ UNCHANGED <<qcStep, qcBlock, qcHeld, qcError, qcForeign>>
    BY <1>6 DEF QualifyTick
  <2>2. Less(qcWait) \in (0 .. ClientTimeout) \cup {NoTime}
    BY ClientAssumption DEF Less, ClientInv
  <2>3. Less(qcJoin) \in 0 .. JoinTimeout
    BY ClientAssumption, NoTimeAssumption DEF Less, ClientInv
  <2> QED  BY <2>1, <2>2, <2>3 DEF ClientInv
<1>7. CASE ForeignArrives
  <2>1. /\ qcForeign < MaxForeign /\ qcForeign' = qcForeign + 1
        /\ UNCHANGED <<qcStep, qcBlock, qcWait, qcHeld, qcError, qcJoin>>
    BY <1>7 DEF ForeignArrives
  <2> QED  BY <2>1, ClientAssumption DEF ClientInv
<1>8. CASE UNCHANGED qualifyVars
  BY <1>8 DEF qualifyVars, clientVars, ClientInv
<1> QED
  BY <1>1, <1>2, <1>3, <1>4, <1>5, <1>6, <1>7, <1>8 DEF QualifyNext, MainStep

LEMMA QualifyTypes == ClientInv => QualifyTypeOK
  BY DEF ClientInv, QualifyTypeOK

(* The service in its thread, the client and what lies between them keep   *)
(* their types, whatever the thread's pace and whoever else sends.         *)
THEOREM QualifyTypeCorrect == QualifySpec => [](ServiceTypeOK /\ QualifyTypeOK)
<1>1. ReplyTyped /\ ClientInv /\ [QualifyNext]_qualifyVars => ReplyTyped' /\ ClientInv'
  BY ServiceAside, ClientKept
<1>2. ServiceInit /\ QualifyInit => ReplyTyped /\ ClientInv
  BY ReplyTypedStarts, ClientStarts
<1>3. ReplyTyped /\ ClientInv => ServiceTypeOK /\ QualifyTypeOK
  BY QualifyTypes DEF ReplyTyped
<1> QED  BY <1>1, <1>2, <1>3, PTL DEF QualifySpec

-----------------------------------------------------------------------------
(* The bench: whichever of its programs runs, the others stand still.  The *)
(* transfer and the qualification share the service.                       *)
AtaAside == /\ stage = "idle" /\ wanted = 0 /\ timer = 0
            /\ air = {} /\ lostRequests = 0 /\ lostReplies = 0

ServiceShared == IF program = "qualify" THEN ReplyTyped /\ QualifyInv /\ AtaAside
                                        ELSE AtaInv /\ AirInv

BenchInv == /\ ServiceShared /\ ClientInv
            /\ PreflightInv /\ FoundInv /\ PubInv /\ BoundedInv /\ PipeInv /\ ConvInv
            /\ EditInv /\ RebuildInv /\ ToldInv

LEMMA BenchStarts == BenchInit => BenchInv
<1> SUFFICES ASSUME BenchInit PROVE BenchInv
  OBVIOUS
<1>1. AtaInv /\ AirInv /\ AtaAside
  BY AtaStarts, AirStarts DEF BenchInit, TransferInit, AtaAside
<1>2. ReplyTyped /\ QualifyInv
  BY ReplyTypedStarts, QualifyStarts DEF BenchInit, TransferInit
<1>3. ClientInv /\ PreflightInv /\ FoundInv /\ PubInv
  BY ClientStarts, PreflightStarts, FoundStarts, PublicationStarts DEF BenchInit
<1>4. BoundedInv /\ PipeInv /\ ConvInv /\ EditInv /\ RebuildInv /\ ToldInv
  BY BoundedStarts, PipeStarts, ConversionStarts, EditStarts, RebuildStarts, ToldStarts DEF BenchInit
<1> QED  BY <1>1, <1>2, <1>3, <1>4 DEF BenchInv, ServiceShared

LEMMA BenchKept == BenchInv /\ [FirmwareNext]_firmwareVars => BenchInv'
<1> SUFFICES ASSUME BenchInv, [FirmwareNext]_firmwareVars PROVE BenchInv'
  OBVIOUS
<1>1. /\ [PreflightNext]_npVars /\ [PublicationNext]_pubVars /\ [BoundedNext]_bcVars
      /\ [ConversionNext]_cfVars /\ [BankEditNext]_zxVars /\ UNCHANGED program
  BY DEF FirmwareNext, firmwareVars
<1>2. PreflightInv' /\ FoundInv' /\ PubInv' /\ BoundedInv' /\ PipeInv' /\ ConvInv' /\ EditInv'
      /\ RebuildInv' /\ ToldInv'
  BY <1>1, PreflightKept, FoundKept, PubInvKept, BoundedKept, PipeKept, ConversionKept, EditInvKept,
     RebuildInvKept, ToldKept DEF BenchInv
<1>3. CASE program = "qualify"
  <2>1. /\ QualifyNext \/ UNCHANGED qualifyVars
        /\ UNCHANGED <<ataVars, lossVars>>
    BY <1>3 DEF FirmwareNext, firmwareVars, transferVars, qualifyVars
  <2>2. ReplyTyped /\ QualifyInv /\ AtaAside /\ ClientInv
    BY <1>3 DEF BenchInv, ServiceShared
  <2>3. ReplyTyped' /\ ClientInv' /\ QualifyInv'
    BY <2>1, <2>2, ServiceAside, ClientKept, QualifyInvKept
  <2>4. AtaAside'
    BY <2>1, <2>2 DEF AtaAside, ataVars, lossVars
  <2> QED  BY <1>1, <1>2, <1>3, <2>3, <2>4 DEF BenchInv, ServiceShared
<1>4. CASE program # "qualify"
  <2>1. [TransferNext]_transferVars /\ UNCHANGED clientVars
    BY <1>4 DEF FirmwareNext, firmwareVars
  <2>2. AtaInv /\ AirInv /\ ClientInv
    BY <1>4 DEF BenchInv, ServiceShared
  <2>3. AtaInv' /\ AirInv'
    BY <2>1, <2>2, AtaKept, AirKept
  <2>4. ClientInv'
    BY <2>1, <2>2 DEF ClientInv, clientVars
  <2> QED  BY <1>1, <1>2, <1>4, <2>3, <2>4 DEF BenchInv, ServiceShared
<1> QED  BY <1>3, <1>4

LEMMA BenchTyped == BenchInv => FirmwareTypeOK
<1> SUFFICES ASSUME BenchInv PROVE FirmwareTypeOK
  OBVIOUS
<1>1. TransferTypeOK
  <2>1. CASE program = "qualify"
    BY <2>1, NumBlocksAssumption, RetryAssumption, LossAssumption
       DEF BenchInv, ServiceShared, ReplyTyped, AtaAside, TransferTypeOK
  <2>2. CASE program # "qualify"
    BY <2>2, TransferMeans DEF BenchInv, ServiceShared
  <2> QED  BY <2>1, <2>2
<1>2. QualifyTypeOK /\ PreflightTypeOK /\ PublicationTypeOK
  BY QualifyTypes, PreflightMeans DEF BenchInv, PubInv
<1>3. BoundedTypeOK /\ ConversionTypeOK /\ BankEditTypeOK
  BY BoundedTypes, ConversionTypes DEF BenchInv, EditInv
<1> QED  BY <1>1, <1>2, <1>3 DEF FirmwareTypeOK

LEMMA BenchMeans ==
  BenchInv => /\ NoAtaLeftBehind /\ SubnetStaysOnLink /\ NothingOutlives
              /\ ReadsBackWhole /\ ManifestMeansComplete /\ ComposedIsTheEdit
              /\ RebuildRefusesOnlyUnmapped
<1> SUFFICES ASSUME BenchInv
             PROVE  /\ NoAtaLeftBehind /\ SubnetStaysOnLink /\ NothingOutlives
                    /\ ReadsBackWhole /\ ManifestMeansComplete /\ ComposedIsTheEdit
                    /\ RebuildRefusesOnlyUnmapped
  OBVIOUS
<1>1. NoAtaLeftBehind
  <2>1. CASE program = "qualify"
    BY <2>1 DEF BenchInv, ServiceShared, AtaAside, NoAtaLeftBehind
  <2>2. CASE program # "qualify"
    BY <2>2, NobodyMeans DEF BenchInv, ServiceShared
  <2> QED  BY <2>1, <2>2
<1>2. SubnetStaysOnLink
  BY DEF BenchInv, PreflightInv
<1>3. NothingOutlives
  BY BoundedMeans DEF BenchInv
<1>4. ReadsBackWhole
  BY ReadBackMeans DEF BenchInv
<1>5. ManifestMeansComplete /\ ComposedIsTheEdit
  BY EditMeans DEF BenchInv
<1>6. RebuildRefusesOnlyUnmapped
  BY DEF BenchInv, RebuildInv
<1> QED  BY <1>1, <1>2, <1>3, <1>4, <1>5, <1>6

(* The programs of the bench side by side, as the run FirmwareBench has    *)
(* them: every variable has its type, and each program keeps its promise.  *)
THEOREM FirmwareBenchIsSafe ==
  FirmwareBench => [](/\ FirmwareTypeOK /\ NoAtaLeftBehind /\ SubnetStaysOnLink /\ NothingOutlives
                      /\ ReadsBackWhole /\ ManifestMeansComplete /\ ComposedIsTheEdit
                      /\ RebuildRefusesOnlyUnmapped)
  BY BenchStarts, BenchKept, BenchTyped, BenchMeans, PTL DEF FirmwareBench
===============================================================================
