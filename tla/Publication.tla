----------------------------- MODULE Publication -----------------------------
(***************************************************************************)
(* How the offline tools put their outputs on disk: publish_private of     *)
(* firmware/zup_bank.py (one file) and _publish_private_outputs of         *)
(* firmware/cfgfmt.py (a set of files).  Both write a temporary file, sync *)
(* it and link it under its name.  Runs that share a directory interleave, *)
(* fail, are killed and meet a power loss at any step.                     *)
(*                                                                         *)
(* Nothing but these tools changes the directory, and its own identity     *)
(* does not change; a signal during the clean-up counts as a kill.         *)
(* Temporary files that stay behind are not kept track of: their names are *)
(* random, and no run looks at another's.                                  *)
(***************************************************************************)
EXTENDS Naturals, Sequences, FiniteSets

CONSTANTS
    Publisher,  \* runs of the tools
    Output,     \* output names in the directory they share
    Unowned,    \* marks a free name
    Writes,     \* per run: the names it publishes, in order
    Banks       \* the runs of zup_bank.py; the others are of cfgfmt.py

ASSUME OutputAssumption ==
    /\ Unowned \notin Publisher
    /\ Writes \in [Publisher -> Seq(Output)]
    /\ Banks \subseteq Publisher
    /\ \A p \in Publisher :
          /\ Len(Writes[p]) > 0
          /\ \A i, j \in 1 .. Len(Writes[p]) : Writes[p][i] = Writes[p][j] => i = j
    /\ \A p \in Banks : Len(Writes[p]) = 1

VARIABLES
    pubStep,    \* per run: the next step of the function
    outputAt,   \* per run: the output it is at
    claimed,    \* per run: how many outputs are recorded as published
    contents,   \* per run and output: the contents of the file
    entry,      \* per name: the run whose file it names
    disk,       \* per name: what a power loss is sure to leave
    hindered    \* the runs left with names of a failed run: an unlink failed

pubVars == <<pubStep, outputAt, claimed, contents, entry, disk, hindered>>

TryBlock == {"stage", "write", "sync", "claim", "link", "mark", "verify", "flush"}
Ended == {"ok", "failed", "killed"}

Wanted == [p \in Publisher |-> {Writes[p][i] : i \in 1 .. Len(Writes[p])}]
CurrentOutput(p) == Writes[p][outputAt[p]]
LastOutput(p) == outputAt[p] = Len(Writes[p])

PublicationInit ==
    /\ pubStep = [p \in Publisher |-> "stage"]
    /\ outputAt = [p \in Publisher |-> 1]
    /\ claimed = [p \in Publisher |-> 0]
    /\ contents = [p \in Publisher |-> [t \in Output |-> "none"]]
    /\ entry = [t \in Output |-> Unowned]
    /\ disk = [t \in Output |-> Unowned]
    /\ hindered = {}

-----------------------------------------------------------------------------
Proceed(p, s) == pubStep' = [pubStep EXCEPT ![p] = s]
Contain(p, c) == contents' = [contents EXCEPT ![p][CurrentOutput(p)] = c]
NextOutput(p) == outputAt' = [outputAt EXCEPT ![p] = IF LastOutput(p) THEN 1 ELSE @ + 1]

(* An existing name is refused; else mkstemp, or open with O_EXCL.         *)
StageFile(p) ==
    /\ pubStep[p] = "stage"
    /\ IF entry[CurrentOutput(p)] # Unowned
         THEN Proceed(p, "undo") /\ UNCHANGED contents
         ELSE /\ Contain(p, "part")
              /\ Proceed(p, "write")
    /\ UNCHANGED <<outputAt, claimed, entry, disk, hindered>>

WriteFile(p) ==
    /\ pubStep[p] = "write"
    /\ Contain(p, "written")
    /\ Proceed(p, "sync")
    /\ UNCHANGED <<outputAt, claimed, entry, disk, hindered>>

(* cfgfmt stages the whole set before it links the first output.           *)
AfterSync(p) == IF ~LastOutput(p) THEN "stage" ELSE IF p \in Banks THEN "link" ELSE "claim"

SyncFile(p) ==
    /\ pubStep[p] = "sync"
    /\ Contain(p, "synced")
    /\ Proceed(p, AfterSync(p))
    /\ NextOutput(p)
    /\ UNCHANGED <<claimed, entry, disk, hindered>>

(* published.append, which cfgfmt does before os.link.                     *)
ClaimOutput(p) ==
    /\ pubStep[p] = "claim"
    /\ claimed' = [claimed EXCEPT ![p] = outputAt[p]]
    /\ Proceed(p, "link")
    /\ UNCHANGED <<outputAt, contents, entry, disk, hindered>>

(* os.link: fails when the name exists.                                    *)
LinkOutput(p) ==
    /\ pubStep[p] = "link"
    /\ IF entry[CurrentOutput(p)] # Unowned
         THEN Proceed(p, "undo") /\ UNCHANGED entry
         ELSE /\ entry' = [entry EXCEPT ![CurrentOutput(p)] = p]
              /\ Proceed(p, IF p \in Banks THEN "mark" ELSE "verify")
    /\ UNCHANGED <<outputAt, claimed, contents, disk, hindered>>

(* published = True, which zup_bank does after os.link.                    *)
MarkPublished(p) ==
    /\ pubStep[p] = "mark"
    /\ claimed' = [claimed EXCEPT ![p] = outputAt[p]]
    /\ Proceed(p, "verify")
    /\ UNCHANGED <<outputAt, contents, entry, disk, hindered>>

AfterVerify(p) == IF p \in Banks THEN "flush" ELSE IF LastOutput(p) THEN "finish" ELSE "claim"

(* The name must hold the file that was staged.                            *)
VerifyOutput(p) ==
    /\ pubStep[p] = "verify"
    /\ Proceed(p, IF entry[CurrentOutput(p)] = p THEN AfterVerify(p) ELSE "undo")
    /\ IF entry[CurrentOutput(p)] = p THEN NextOutput(p) ELSE UNCHANGED outputAt
    /\ UNCHANGED <<claimed, contents, entry, disk, hindered>>

(* os.fsync(directory), in zup_bank alone.                                 *)
FlushDirectory(p) ==
    /\ pubStep[p] = "flush"
    /\ disk' = entry
    /\ Proceed(p, "finish")
    /\ UNCHANGED <<outputAt, claimed, contents, entry, hindered>>

(* Any call of the try block raises, or a signal arrives between two.      *)
Raise(p) ==
    /\ pubStep[p] \in TryBlock
    /\ Proceed(p, "undo")
    /\ UNCHANGED <<outputAt, claimed, contents, entry, disk, hindered>>

(* A clean-up that unlinks a name whoever it belongs to.                   *)
UndoOutput_Anyones(p) ==
    /\ pubStep[p] = "undo" /\ claimed[p] > 0
    /\ LET t == Writes[p][claimed[p]] IN
         \/ /\ entry' = [entry EXCEPT ![t] = Unowned]
            /\ disk' \in IF p \in Banks THEN {disk, entry'} ELSE {disk}
            /\ UNCHANGED hindered
         \/ entry[t] # Unowned /\ hindered' = hindered \cup {p} /\ UNCHANGED <<entry, disk>>
    /\ claimed' = [claimed EXCEPT ![p] = @ - 1]
    /\ UNCHANGED <<pubStep, outputAt, contents>>

(* except BaseException: unlink what is recorded, newest first, and ours.  *)
(* An OSError is swallowed: of the look at the name or of its unlink,      *)
(* which leave it, or of the sync of the directory after them.             *)
UndoOutput(p) ==
    /\ pubStep[p] = "undo" /\ claimed[p] > 0
    /\ LET t == Writes[p][claimed[p]] IN
         \/ entry[t] # p /\ UNCHANGED <<entry, disk, hindered>>
         \/ /\ entry[t] = p
            /\ entry' = [entry EXCEPT ![t] = Unowned]
            /\ disk' \in IF p \in Banks THEN {disk, entry'} ELSE {disk}
            /\ UNCHANGED hindered
         \/ entry[t] = p /\ hindered' = hindered \cup {p} /\ UNCHANGED <<entry, disk>>
    /\ claimed' = [claimed EXCEPT ![p] = @ - 1]
    /\ UNCHANGED <<pubStep, outputAt, contents>>

(* finally: the temporary files are unlinked, then the function ends.      *)
Tidying(p) == pubStep[p] = "finish" \/ (pubStep[p] = "undo" /\ claimed[p] = 0)
Outcome(p) == IF pubStep[p] = "finish" THEN "ok" ELSE "failed"
HasStaged(p) == \E t \in Output : contents[p][t] # "none"

Tidy(p) ==
    /\ Tidying(p)
    /\ Proceed(p, Outcome(p))
    /\ disk' \in IF p \in Banks /\ HasStaged(p) THEN {disk, entry} ELSE {disk}
    /\ UNCHANGED <<outputAt, claimed, contents, entry, hindered>>

(* One of these unlinks fails.  zup_bank ignores it; in cfgfmt it raises,  *)
(* which fails a run whose outputs are all in place.                       *)
TidyFails(p) ==
    /\ Tidying(p) /\ HasStaged(p)
    /\ Proceed(p, IF p \in Banks THEN Outcome(p) ELSE "failed")
    /\ hindered' = IF p \notin Banks /\ Outcome(p) = "ok" THEN hindered \cup {p} ELSE hindered
    /\ UNCHANGED <<outputAt, claimed, contents, entry, disk>>

Kill(p) ==
    /\ pubStep[p] \notin Ended
    /\ Proceed(p, "killed")
    /\ UNCHANGED <<outputAt, claimed, contents, entry, disk, hindered>>

(* Unsynced contents are torn; each name falls back to what is on disk or  *)
(* keeps what was about to be written there.                               *)
PowerLoss ==
    /\ \E p \in Publisher : pubStep[p] \notin Ended
    /\ pubStep' = [p \in Publisher |-> IF pubStep[p] \in Ended THEN pubStep[p] ELSE "killed"]
    /\ contents' = [p \in Publisher |-> [t \in Output |->
                      IF contents[p][t] = "written" THEN "part" ELSE contents[p][t]]]
    /\ \E kept \in SUBSET Output :
          entry' = [t \in Output |-> IF t \in kept THEN entry[t] ELSE disk[t]]
    /\ disk' = entry'
    /\ UNCHANGED <<outputAt, claimed, hindered>>

PublisherStep(p) ==
    \/ StageFile(p) \/ WriteFile(p) \/ SyncFile(p) \/ ClaimOutput(p) \/ LinkOutput(p)
    \/ MarkPublished(p) \/ VerifyOutput(p) \/ FlushDirectory(p) \/ UndoOutput(p)
    \/ Tidy(p) \/ TidyFails(p)

PublicationNext == (\E p \in Publisher : PublisherStep(p) \/ Raise(p) \/ Kill(p)) \/ PowerLoss

PublicationSpec == PublicationInit /\ [][PublicationNext]_pubVars

-----------------------------------------------------------------------------
PublicationTypeOK ==
    /\ pubStep \in [Publisher -> TryBlock \cup Ended \cup {"undo", "finish"}]
    /\ outputAt \in [Publisher -> Nat \ {0}] /\ \A p \in Publisher : outputAt[p] <= Len(Writes[p])
    /\ claimed \in [Publisher -> Nat] /\ \A p \in Publisher : claimed[p] <= Len(Writes[p])
    /\ contents \in [Publisher -> [Output -> {"none", "part", "written", "synced"}]]
    /\ entry \in [Output -> Publisher \cup {Unowned}]
    /\ disk \in [Output -> Publisher \cup {Unowned}]
    /\ hindered \subseteq Publisher

(* A name whose file could be read incomplete counts as torn.              *)
Slot == [t \in Output |-> IF entry[t] # Unowned /\ contents[entry[t]][t] # "synced"
                              THEN "torn" ELSE entry[t]]

Verdict == [p \in Publisher |-> IF pubStep[p] = "killed" THEN "dead"
                                ELSE IF pubStep[p] \in Ended THEN pubStep[p] ELSE "open"]

Promise == INSTANCE PrivateOutput
             WITH slot <- Slot, verdict <- Verdict, Withdraws <- Publisher \ Banks, Durable <- Banks

(* Publishing keeps the promise of PrivateOutput: names go from free to    *)
(* complete in one step and are never replaced, and the verdict of a run   *)
(* agrees with what its names hold, unless an unlink was refused to it.     *)
PublicationKeepsPromise == Promise!PromiseSpec
===============================================================================
