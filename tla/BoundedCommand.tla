---------------------------- MODULE BoundedCommand ----------------------------
(***************************************************************************)
(* tests/qemu/bounded_command.py: one command in a process group of its    *)
(* own, with a deadline, a bounded output and three signals handled.  The  *)
(* group is the command itself and what it starts; either may end by       *)
(* itself at any time, close the pipe or ignore SIGTERM.  Descendants that *)
(* leave the group are not modelled, nor the reuse of process numbers.     *)
(***************************************************************************)
EXTENDS Naturals, FiniteSets

CONSTANT MaxSignals       \* bound on the signals the tool receives

ASSUME SignalsAssumption == MaxSignals \in Nat

VARIABLES
    bcStep,       \* where run_bounded is
    bcReturn,     \* what follows _stop_process_group
    bcLeader,     \* the command: "none", "running", "zombie" or "reaped"
    bcChild,      \* the rest of its group: "none", "running" or "gone"
    bcPipe,       \* which of the two hold the output pipe
    bcEnd,        \* how the command ended: "" , "itself" or "stopped"
    bcTermed,     \* SIGTERM was sent to the group
    bcOverflow, bcTimedOut, bcInterrupted, bcLingering,   \* the flags of run_bounded
    bcPending,    \* a signal waits for the mask to be lifted
    bcSignals     \* how many signals were received

bcFlags == <<bcOverflow, bcTimedOut, bcInterrupted, bcLingering>>
bcGroup == <<bcLeader, bcChild, bcPipe, bcEnd>>
bcControl == <<bcStep, bcReturn, bcFlags, bcTermed>>
bcVars == <<bcControl, bcGroup, bcPending, bcSignals>>

BoundedInit ==
    /\ bcStep = "open" /\ bcReturn = "" /\ bcLeader = "none" /\ bcChild = "none"
    /\ bcPipe = {} /\ bcEnd = "" /\ bcTermed = FALSE
    /\ bcOverflow = FALSE /\ bcTimedOut = FALSE
    /\ bcInterrupted = FALSE /\ bcLingering = FALSE
    /\ bcPending = FALSE /\ bcSignals = 0

(* killpg(pid, 0): a command that nobody waited for still counts.          *)
GroupExists == bcLeader \in {"running", "zombie"} \/ bcChild = "running"
Reap == bcLeader' = IF bcLeader = "zombie" THEN "reaped" ELSE bcLeader
BoundedOver == {"returned", "raised", "escaped", "died"}

-----------------------------------------------------------------------------
InstallHandlers ==
    /\ bcStep = "open"
    /\ bcStep' = "spawn"
    /\ UNCHANGED <<bcReturn, bcFlags, bcTermed, bcGroup, bcPending, bcSignals>>

(* Signals are deferred over Popen: one that came meanwhile is seen after. *)
Spawn ==
    /\ bcStep = "spawn"
    /\ bcLeader' = "running" /\ bcPipe' = {"leader"}
    /\ bcInterrupted' = bcPending /\ bcPending' = FALSE
    /\ bcStep' = IF bcPending THEN "stop" ELSE "read"
    /\ bcReturn' = IF bcPending THEN "finally" ELSE ""
    /\ UNCHANGED <<bcChild, bcEnd, bcTermed, bcOverflow, bcTimedOut, bcLingering, bcSignals>>

(* One turn of the read loop: end of file, too much output, or too late.   *)
EndOfOutput ==
    /\ bcStep = "read" /\ bcPipe = {}
    /\ bcStep' = "wait"
    /\ UNCHANGED <<bcReturn, bcFlags, bcTermed, bcGroup, bcPending, bcSignals>>

Overflow ==
    /\ bcStep = "read" /\ bcPipe # {}
    /\ bcOverflow' = TRUE
    /\ bcStep' = "stop" /\ bcReturn' = "sync"
    /\ UNCHANGED <<bcTimedOut, bcInterrupted, bcLingering, bcTermed, bcGroup, bcPending, bcSignals>>

(* A deadline that only the read loop looks at.                            *)
Deadline_ReadOnly ==
    /\ bcStep = "read"
    /\ bcTimedOut' = TRUE
    /\ bcStep' = "stop" /\ bcReturn' = "sync"
    /\ UNCHANGED <<bcOverflow, bcInterrupted, bcLingering, bcTermed, bcGroup, bcPending, bcSignals>>

Deadline ==
    /\ bcStep = "read" \/ (bcStep = "wait" /\ bcLeader = "running")
    /\ bcTimedOut' = TRUE
    /\ bcStep' = "stop" /\ bcReturn' = "sync"
    /\ UNCHANGED <<bcOverflow, bcInterrupted, bcLingering, bcTermed, bcGroup, bcPending, bcSignals>>

WaitCommand ==
    /\ bcStep = "wait" /\ bcLeader = "zombie"
    /\ Reap /\ bcStep' = "sync"
    /\ UNCHANGED <<bcReturn, bcFlags, bcTermed, bcChild, bcPipe, bcEnd, bcPending, bcSignals>>

SyncOutput ==
    /\ bcStep = "sync"
    /\ bcStep' = "finally"
    /\ UNCHANGED <<bcReturn, bcFlags, bcTermed, bcGroup, bcPending, bcSignals>>

(* Popen, a write of the output or its fsync fails: finally runs at once.  *)
OutputFails ==
    /\ bcStep \in {"spawn", "read", "sync"} /\ ~bcPending
    /\ bcStep' = "finally" /\ bcReturn' = "raise"
    /\ UNCHANGED <<bcFlags, bcTermed, bcGroup, bcPending, bcSignals>>

(* finally, from where signals are deferred again.                         *)
EnterFinally ==
    /\ bcStep = "finally"
    /\ bcStep' = "stop"
    /\ bcReturn' = IF bcReturn = "raise" THEN "raised" ELSE "returned"
    /\ UNCHANGED <<bcFlags, bcTermed, bcGroup, bcPending, bcSignals>>

-----------------------------------------------------------------------------
(* _stop_process_group.  Leaving it for the end of run_bounded restores    *)
(* the handlers and lifts the mask: a deferred signal then kills the tool. *)
StopReturns ==
    /\ bcStep' = IF bcPending /\ bcReturn \in BoundedOver THEN "died" ELSE bcReturn
    /\ bcPending' = FALSE

Deferred == bcReturn \in BoundedOver

NothingToStop ==
    /\ bcStep = "stop" /\ ~GroupExists
    /\ StopReturns
    /\ UNCHANGED <<bcReturn, bcFlags, bcTermed, bcGroup, bcSignals>>

Terminate ==
    /\ bcStep = "stop" /\ GroupExists
    /\ bcTermed' = TRUE /\ bcStep' = "grace"
    /\ bcLingering' = (Deferred /\ ~bcTimedOut /\ ~bcInterrupted /\ ~bcOverflow)
    /\ UNCHANGED <<bcReturn, bcOverflow, bcTimedOut, bcInterrupted, bcGroup, bcPending, bcSignals>>

Poll ==
    /\ bcStep = "grace" /\ bcLeader = "zombie"
    /\ Reap
    /\ UNCHANGED <<bcControl, bcChild, bcPipe, bcEnd, bcPending, bcSignals>>

GroupGone ==
    /\ bcStep = "grace" /\ ~GroupExists
    /\ StopReturns
    /\ UNCHANGED <<bcReturn, bcFlags, bcTermed, bcGroup, bcSignals>>

(* SIGKILL to the command alone.                                           *)
KillGroup_LeaderOnly ==
    /\ bcStep = "grace" /\ GroupExists
    /\ bcLeader' = "reaped"
    /\ bcEnd' = IF bcLeader = "running" THEN "stopped" ELSE bcEnd
    /\ bcPipe' = bcPipe \ {"leader"}
    /\ StopReturns
    /\ UNCHANGED <<bcReturn, bcFlags, bcTermed, bcChild, bcSignals>>

KillGroup ==
    /\ bcStep = "grace" /\ GroupExists
    /\ bcLeader' = "reaped"
    /\ bcEnd' = IF bcLeader = "running" THEN "stopped" ELSE bcEnd
    /\ bcChild' = IF bcChild = "running" THEN "gone" ELSE bcChild
    /\ bcPipe' = {}
    /\ StopReturns
    /\ UNCHANGED <<bcReturn, bcFlags, bcTermed, bcSignals>>

BoundedStep == \/ InstallHandlers \/ Spawn \/ EndOfOutput \/ WaitCommand \/ SyncOutput
               \/ EnterFinally \/ NothingToStop \/ Terminate \/ Poll \/ GroupGone
               \/ KillGroup \/ Deadline

-----------------------------------------------------------------------------
(* Outside the tool: what the command and its children do.                 *)
CommandEnds ==
    /\ bcLeader = "running"
    /\ bcLeader' = "zombie"
    /\ bcEnd' \in {"itself"} \cup (IF bcTermed THEN {"stopped"} ELSE {})
    /\ bcPipe' = bcPipe \ {"leader"}
    /\ UNCHANGED <<bcControl, bcChild, bcPending, bcSignals>>

CommandForks ==
    /\ bcLeader = "running" /\ bcChild = "none"
    /\ bcChild' = "running"
    /\ bcPipe' = IF "leader" \in bcPipe THEN bcPipe \cup {"child"} ELSE bcPipe
    /\ UNCHANGED <<bcControl, bcLeader, bcEnd, bcPending, bcSignals>>

ChildEnds ==
    /\ bcChild = "running"
    /\ bcChild' = "gone" /\ bcPipe' = bcPipe \ {"child"}
    /\ UNCHANGED <<bcControl, bcLeader, bcEnd, bcPending, bcSignals>>

ClosePipe ==
    /\ \E who \in bcPipe : bcPipe' = bcPipe \ {who}
    /\ UNCHANGED <<bcControl, bcLeader, bcChild, bcEnd, bcPending, bcSignals>>

(* SIGHUP, SIGINT or SIGTERM: the handler raises, once; it is deferred     *)
(* over Popen and the clean-up, and before and after them nothing handles  *)
(* it.  At the first line of finally the exception leaves run_bounded.     *)
Signal ==
    /\ bcStep \notin BoundedOver /\ bcSignals < MaxSignals
    /\ bcSignals' = bcSignals + 1
    /\ \/ /\ bcStep = "open"
          /\ bcStep' = "died" /\ UNCHANGED <<bcReturn, bcInterrupted, bcPending>>
       \/ /\ bcStep = "spawn" \/ (bcStep \in {"stop", "grace"} /\ Deferred)
          /\ bcPending' = TRUE /\ UNCHANGED <<bcStep, bcReturn, bcInterrupted>>
       \/ /\ bcStep \in {"read", "wait", "sync"} \/ (bcStep \in {"stop", "grace"} /\ ~Deferred)
          /\ bcStep' = IF bcInterrupted THEN bcStep ELSE "stop"
          /\ bcReturn' = IF bcInterrupted THEN bcReturn ELSE "finally"
          /\ bcInterrupted' = TRUE /\ UNCHANGED bcPending
       \/ /\ bcStep = "finally"
          /\ bcStep' = IF bcInterrupted THEN bcStep ELSE "escaped"
          /\ UNCHANGED <<bcReturn, bcInterrupted, bcPending>>
    /\ UNCHANGED <<bcOverflow, bcTimedOut, bcLingering, bcTermed, bcGroup>>

BoundedNext == \/ BoundedStep \/ Overflow \/ OutputFails
               \/ CommandEnds \/ CommandForks \/ ChildEnds \/ ClosePipe \/ Signal

BoundedSpec == BoundedInit /\ [][BoundedNext]_bcVars

(* The tool's own steps; a deadline passes whatever the command does.      *)
BoundedFairness == WF_bcVars(BoundedStep)

-----------------------------------------------------------------------------
BoundedTypeOK ==
    /\ bcStep \in {"open", "spawn", "read", "wait", "sync", "finally", "stop", "grace"}
                  \cup BoundedOver
    /\ bcReturn \in {"", "sync", "finally", "raise", "raised", "returned"}
    /\ bcLeader \in {"none", "running", "zombie", "reaped"}
    /\ bcChild \in {"none", "running", "gone"}
    /\ bcPipe \subseteq {"leader", "child"}
    /\ bcTermed \in BOOLEAN /\ bcOverflow \in BOOLEAN /\ bcTimedOut \in BOOLEAN
    /\ bcInterrupted \in BOOLEAN /\ bcLingering \in BOOLEAN /\ bcPending \in BOOLEAN
    /\ bcSignals \in 0 .. MaxSignals

(* What main reports of a run that returned.                               *)
Status == CASE bcOverflow -> 125
            [] ~bcOverflow /\ bcInterrupted -> 130
            [] ~bcOverflow /\ ~bcInterrupted /\ bcTimedOut -> 124
            [] ~bcOverflow /\ ~bcInterrupted /\ ~bcTimedOut /\ bcLingering -> 126
            [] OTHER -> 0

(* When the tool ends by a return, an error or a deferred signal, nothing  *)
(* of the command's group is left, and it only reports the command's own   *)
(* status when the command and all it started had ended by themselves.     *)
NothingOutlives ==
    /\ bcStep \in {"returned", "raised", "died"} =>
          bcLeader \in {"none", "reaped"} /\ bcChild # "running"
    /\ bcStep = "returned" /\ Status = 0 => bcEnd = "itself" /\ ~bcTermed

(* However the command behaves, a tool that started ends.                 *)
ToolEnds == bcStep # "open" ~> bcStep \in BoundedOver
===============================================================================
