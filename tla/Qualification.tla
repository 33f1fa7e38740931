----------------------------- MODULE Qualification -----------------------------
(***************************************************************************)
(* run_loopback_qualification of firmware/sata186us.py: serve_firmware in  *)
(* a thread, with no grace period, and the client of                       *)
(* firmware/ata_upgrade_client.py in the main thread, which asks for the   *)
(* selection, the hello and every block once and in order, then stops the  *)
(* service and compares its counters.                                      *)
(*                                                                         *)
(* The loopback loses nothing, but the service may be slow and fail, and   *)
(* another process may send to its ports.  Datagrams of another process    *)
(* that the service would answer are not modelled.                         *)
(***************************************************************************)
EXTENDS FirmwareService

CONSTANTS
    ClientTimeout,  \* timeout_seconds of the client, in ticks
    SessionLimit,   \* MAX_SESSION_SECONDS, in ticks
    JoinTimeout,    \* how long the thread is waited for, in ticks
    MaxForeign      \* bound: datagrams of another process

ASSUME ClientAssumption == ClientTimeout \in Nat /\ JoinTimeout \in Nat /\ MaxForeign \in Nat

VARIABLES
    qcStep,     \* the request the client is at, then where the main thread is
    qcBlock,    \* the block it asks for next
    qcWait,     \* ticks left of the wait for a response, or NoTime
    qcHeld,     \* responses that reached the client's sockets
    qcError,    \* run_client has raised
    qcJoin,     \* ticks left of the wait for the thread
    qcForeign   \* datagrams another process has sent

clientVars == <<qcStep, qcBlock, qcWait, qcHeld, qcError, qcJoin, qcForeign>>
qualifyVars == <<serviceVars, clientVars>>

(* The service of this run: the thread's call has no grace period.         *)
S == INSTANCE FirmwareService WITH Grace <- 0

Asking == {"selection", "hello", "blocks"}
QualifyOver == {"qualified", "refused"}

QualifyInit == /\ qcStep = "start" /\ qcBlock = 0 /\ qcWait = NoTime
               /\ qcHeld = {} /\ qcError = FALSE /\ qcJoin = 0 /\ qcForeign = 0

StartQualification == /\ qcStep = "start"
                      /\ qcStep' = "selection"
                      /\ UNCHANGED <<serviceVars, qcBlock, qcWait, qcHeld, qcError, qcJoin,
                                     qcForeign>>

ClientRequest ==
    CASE qcStep = "selection" -> <<"command", [kind |-> "select", index |-> 0]>>
      [] qcStep = "hello"     -> <<"data", [kind |-> "hello", index |-> 0]>>
      [] qcStep = "blocks"    -> <<"data", [kind |-> "block", index |-> qcBlock]>>

Takes(s) == Running /\ Len(queue[s]) < QueueLimit /\ arrived < MaxDatagrams

ClientExpects(r) == r = IF qcStep = "selection" THEN [kind |-> "url", index |-> 0]
                                                ELSE ClientRequest[2]

ClientRaises == /\ qcError' = TRUE /\ qcStep' = "stop"
                /\ UNCHANGED <<qcBlock, qcHeld, qcWait>>

(* _request, as far as sendto.  A full buffer swallows the datagram.       *)
ClientAsks ==
    /\ qcStep \in Asking /\ qcWait = NoTime
    /\ IF now >= SessionLimit
         THEN ClientRaises /\ UNCHANGED serviceVars
         ELSE /\ qcWait' = ClientTimeout
              /\ \/ S!Arrive(ClientRequest[1], ClientRequest[2])
                 \/ ~Takes(ClientRequest[1]) /\ UNCHANGED serviceVars
              /\ UNCHANGED <<qcStep, qcBlock, qcHeld, qcError>>
    /\ UNCHANGED <<qcJoin, qcForeign>>

(* Any response but the one asked for ends the client.                     *)
ClientHears(r) ==
    /\ qcStep \in Asking /\ qcWait # NoTime /\ r \in qcHeld
    /\ IF ClientExpects(r)
         THEN /\ qcHeld' = qcHeld \ {r} /\ qcWait' = NoTime
              /\ qcStep' = CASE qcStep = "selection" -> "hello"
                             [] qcStep = "hello"     -> "blocks"
                             [] qcStep = "blocks"    ->
                                  IF qcBlock = NumBlocks - 1 THEN "stop" ELSE "blocks"
              /\ qcBlock' = IF qcStep = "blocks" THEN qcBlock + 1 ELSE qcBlock
              /\ UNCHANGED qcError
         ELSE ClientRaises
    /\ UNCHANGED <<serviceVars, qcJoin, qcForeign>>

ClientTimesOut == /\ qcStep \in Asking /\ qcWait = 0
                  /\ ClientRaises
                  /\ UNCHANGED <<serviceVars, qcJoin, qcForeign>>

(* finally: stop_event.set(), then join.                                   *)
StopService == /\ qcStep = "stop"
               /\ stop' = TRUE
               /\ qcStep' = "join" /\ qcJoin' = JoinTimeout
               /\ UNCHANGED <<loopVars, wireVars, arrived, now, networkSafe, queue, badSums,
                              cause, qcBlock, qcWait, qcHeld, qcError, qcForeign>>

(* What the counters must be for the image.                                *)
CountsMatch == count = [c \in Counter |->
    CASE c \in {"command_requests", "command_responses"} -> 1
      [] c \in {"data_requests", "data_responses"}       -> NumBlocks + 1
      [] OTHER                                           -> 0]

Alive == pc \notin {"returned", "raised"}

(* A thread that outlives its join is only reported.                       *)
JoinReturns_WhenDone == qcStep = "join" /\ ~Alive
JoinReturns == qcStep = "join" /\ (~Alive \/ qcJoin = 0)

Conclude ==
    /\ JoinReturns
    /\ qcStep' = IF ~qcError /\ pc = "returned" /\ CountsMatch /\ Complete(unique)
                 THEN "qualified" ELSE "refused"
    /\ UNCHANGED <<serviceVars, qcBlock, qcWait, qcHeld, qcError, qcJoin, qcForeign>>

-----------------------------------------------------------------------------
(* The thread, the clock and the other process.                            *)
ThreadStep == /\ qcStep \notin QualifyOver \cup {"start"}
              /\ S!LoopStep
              /\ qcHeld' = qcHeld \cup (sent' \ sent)
              /\ UNCHANGED <<qcStep, qcBlock, qcWait, qcError, qcJoin, qcForeign>>

Less(ticks) == IF ticks = NoTime \/ ticks = 0 THEN ticks ELSE ticks - 1

(* The main thread is fast: time passes while it waits.                    *)
QualifyTick ==
    /\ \/ qcStep \in Asking /\ qcWait \notin {NoTime, 0}
       \/ qcStep = "join" /\ qcJoin > 0
    /\ now < Horizon /\ now' = now + 1
    /\ qcWait' = Less(qcWait)
    /\ qcJoin' = Less(qcJoin)
    /\ UNCHANGED <<loopVars, wireVars, arrived, networkSafe, stop, queue, badSums, cause,
                   qcStep, qcBlock, qcHeld, qcError, qcForeign>>

ForeignArrives ==
    /\ qcStep \notin QualifyOver \cup {"start"} /\ qcForeign < MaxForeign
    /\ \E s \in Socket, k \in {"stray", "corrupt"} :
          S!Arrive(s, [kind |-> k, index |-> 0])
    /\ qcForeign' = qcForeign + 1
    /\ UNCHANGED <<qcStep, qcBlock, qcWait, qcHeld, qcError, qcJoin>>

MainStep == StartQualification \/ ClientAsks \/ (\E r \in Reply : ClientHears(r))
            \/ ClientTimesOut \/ StopService \/ Conclude

QualifyNext == MainStep \/ ThreadStep \/ QualifyTick \/ ForeignArrives

QualifySpec == ServiceInit /\ QualifyInit /\ [][QualifyNext]_qualifyVars

(* The main thread runs and time passes.  Nothing is asked of the thread   *)
(* of the service, which may hang.                                         *)
QualifyFairness == WF_qualifyVars(MainStep) /\ WF_qualifyVars(QualifyTick)

-----------------------------------------------------------------------------
QualifyTypeOK ==
    /\ qcStep \in Asking \cup QualifyOver \cup {"start", "stop", "join"}
    /\ qcBlock \in 0 .. NumBlocks
    /\ qcWait \in (0 .. ClientTimeout) \cup {NoTime} /\ qcJoin \in 0 .. JoinTimeout
    /\ qcHeld \subseteq Reply /\ qcError \in BOOLEAN /\ qcForeign \in 0 .. MaxForeign

(* What it reports is true: only of a service that has ended, answered     *)
(* every request of the client in time and put each block on the wire once.*)
VerdictIsTrue ==
    qcStep = "qualified" =>
      /\ pc = "returned" /\ unique = Block /\ qcHeld = {}
      /\ sent = {[kind |-> "url", index |-> 0], [kind |-> "hello", index |-> 0]}
                \cup [kind : {"block"}, index : Block]
      /\ count["data_responses"] = Cardinality(sent) - 1

(* A qualification ends, even when the service hangs or fails, and what it *)
(* reports then is true.                                                   *)
QualificationIsTrue == (qcStep # "start" ~> qcStep \in QualifyOver) /\ []VerdictIsTrue
===============================================================================
