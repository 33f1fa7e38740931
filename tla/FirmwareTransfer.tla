--------------------------- MODULE FirmwareTransfer ---------------------------
(***************************************************************************)
(* serve_firmware and one upgrading ATA over a network that loses          *)
(* datagrams.  The ATA is not in the repository: as FLASHING.md and the    *)
(* simulator of ata_upgrade_client.py have it, it asks for the selection,  *)
(* for the hello, and for the blocks in order, and it repeats a request    *)
(* that stays unanswered for Retry ticks.  The loop and the wire are fast  *)
(* against a tick: time passes only while nothing is under way.            *)
(***************************************************************************)
EXTENDS FirmwareService

CONSTANTS
    Retry,          \* ticks after which the ATA repeats a request
    RequestLosses,  \* bound: requests the network loses
    ReplyLosses     \* bound: responses the network loses

ASSUME RetryAssumption == Retry \in Nat \ {0}
ASSUME LossAssumption == RequestLosses \in Nat /\ ReplyLosses \in Nat
(* The quiet period outlasts every row of lost requests.                   *)
ASSUME GraceOutlastsRetries == Grace > Retry * (RequestLosses + 1)

VARIABLES
    stage,        \* what the ATA is doing: "idle", "selection", "hello", "blocks", "done"
    wanted,       \* the block the ATA asks for next
    timer,        \* ticks until the ATA repeats its request
    air,          \* the responses under way to the ATA
    lostRequests, \* requests lost so far
    lostReplies   \* responses lost so far

ataVars == <<stage, wanted, timer>>
lossVars == <<air, lostRequests, lostReplies>>
transferVars == <<serviceVars, ataVars, lossVars>>

TransferInit ==
    /\ ServiceInit
    /\ stage = "idle"
    /\ wanted = 0
    /\ timer = 0
    /\ air = {}
    /\ lostRequests = 0
    /\ lostReplies = 0

Active == stage \in {"selection", "hello", "blocks"}

(* The user dials 100# once the service reports that it is ready.          *)
Dial ==
    /\ stage = "idle"
    /\ pc # "bound"
    /\ stage' = "selection"
    /\ UNCHANGED <<serviceVars, wanted, timer, lossVars>>

Request == CASE stage = "selection" -> <<"command", [kind |-> "select", index |-> 0]>>
             [] stage = "hello"     -> <<"data", [kind |-> "hello", index |-> 0]>>
             [] OTHER               -> <<"data", [kind |-> "block", index |-> wanted]>>

Ask ==
    /\ Active /\ timer = 0
    /\ timer' = Retry
    /\ \/ Arrive(Request[1], Request[2]) /\ UNCHANGED lostRequests
       \/ /\ lostRequests < RequestLosses
          /\ lostRequests' = lostRequests + 1
          /\ UNCHANGED serviceVars
    /\ UNCHANGED <<stage, wanted, air, lostReplies>>

Expected(r) == \/ stage = "selection" /\ r.kind = "url"
               \/ stage = "hello" /\ r.kind = "hello"
               \/ stage = "blocks" /\ r.kind = "block" /\ r.index = wanted

(* The ATA takes the response it waits for and goes on at once.            *)
Hear(r) ==
    /\ r \in air /\ Expected(r)
    /\ air' = air \ {r}
    /\ stage' = CASE stage = "selection" -> "hello"
                  [] stage = "hello"     -> "blocks"
                  [] OTHER -> IF wanted = NumBlocks - 1 THEN "done" ELSE "blocks"
    /\ wanted' = IF stage = "blocks" THEN wanted + 1 ELSE wanted
    /\ timer' = 0
    /\ UNCHANGED <<serviceVars, lostRequests, lostReplies>>

(* A response the ATA no longer waits for.                                 *)
Overlook(r) ==
    /\ r \in air /\ ~Expected(r)
    /\ air' = air \ {r}
    /\ UNCHANGED <<serviceVars, ataVars, lostRequests, lostReplies>>

Lose(r) ==
    /\ r \in air
    /\ lostReplies < ReplyLosses
    /\ air' = air \ {r}
    /\ lostReplies' = lostReplies + 1
    /\ UNCHANGED <<serviceVars, ataVars, lostRequests>>

(* A step of the service; sendto itself does not fail here, the network    *)
(* loses the response or it does not.                                      *)
ServeStep ==
    /\ LoopStep
    /\ UNCHANGED cause
    /\ air' = air \cup (reply \ reply')
    /\ UNCHANGED <<ataVars, lostRequests, lostReplies>>

(* Time passes when the service waits for traffic, nothing is in flight    *)
(* and the user has dialled.                                               *)
Idle == /\ air = {} /\ stage # "idle" /\ ~(Active /\ timer = 0)
        /\ pc = "wait" /\ \A s \in Socket : queue[s] = <<>>

PassTime ==
    /\ Idle
    /\ Tick
    /\ timer' = IF timer > 0 THEN timer - 1 ELSE 0
    /\ UNCHANGED <<stage, wanted, lossVars>>

WireStep == \E r \in air : Hear(r) \/ Overlook(r) \/ Lose(r)

TransferNext == Dial \/ Ask \/ WireStep \/ ServeStep \/ PassTime

(* Everything under way moves on and the user dials.  Time passes inside   *)
(* the select call, which the loop leaves and enters again: hence SF.      *)
TransferFairness ==
    /\ WF_transferVars(Dial) /\ WF_transferVars(Ask) /\ WF_transferVars(WireStep)
    /\ WF_transferVars(ServeStep) /\ SF_transferVars(PassTime)

TransferSpec == TransferInit /\ [][TransferNext]_transferVars /\ TransferFairness

-----------------------------------------------------------------------------
TransferTypeOK ==
    /\ ServiceTypeOK
    /\ stage \in {"idle", "selection", "hello", "blocks", "done"}
    /\ wanted \in 0 .. NumBlocks
    /\ timer \in 0 .. Retry
    /\ air \in SUBSET Reply
    /\ lostRequests \in 0 .. RequestLosses
    /\ lostReplies \in 0 .. ReplyLosses

(* What the quiet grace period is for: when the service leaves before its  *)
(* deadline, an ATA that began has received the whole image, although      *)
(* requests and responses, the last block among them, were lost and        *)
(* repeated; and an ATA that has the image is one the service reports.     *)
NoAtaLeftBehind ==
    /\ stage # "idle" /\ pc = "returned" /\ now < Duration => stage = "done"
    /\ stage = "done" => unique = Block

(* With boundedly many losses and a deadline that leaves room for the      *)
(* repetitions, a transfer the user asked for ends with a complete image   *)
(* at the ATA and a complete result at the service.                        *)
TransferSucceeds ==
    stage # "idle" ~> stage = "done" /\ pc = "returned" /\ Complete(unique)
=============================================================================
