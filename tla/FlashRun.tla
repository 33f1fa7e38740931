------------------------------- MODULE FlashRun -------------------------------
(***************************************************************************)
(* run_flash of ata_flash.py: one flashing attempt from the preflight to   *)
(* its exit status.  It reserves the two firmware ports, hands the lease   *)
(* out through run_dhcp (DhcpResponder), looks at the network again, turns *)
(* away traffic that came too early, and serves the image through          *)
(* serve_firmware (FirmwareService).  The sockets are bound from           *)
(* BindPorts on: datagrams pile up in their buffers during the DHCP phase. *)
(***************************************************************************)
EXTENDS Naturals, Sequences, FiniteSets

CONSTANTS
    Mac, NoMac, Xid, NoXid,                                   \* DhcpResponder
    NumBlocks, Duration, Grace, NoTime,                       \* FirmwareService
    Horizon, QueueLimit, MaxDatagrams,
    DrainLimit    \* max_datagrams of drain_udp

ASSUME DrainLimitAssumption == DrainLimit \in Nat \ {0}
(* Those of the two services this module needs itself.                     *)
ASSUME FlashAssumption == NoMac \notin Mac /\ NumBlocks \in Nat \ {0}

VARIABLES
    expectedMac, phase, clientMac, offeredXid, acknowledged, interfaceChanged,
    replyFailed, pending, replies, addressPresent, outcome,   \* DhcpResponder
    pc, queue, arrived, badSums, now, networkSafe, stop, readable, selected,
    reply, unique, count, quietUntil, logged, sent, advertised, lastData,
    cause,                                                    \* FirmwareService
    stage,    \* where run_flash is
    drained,  \* datagrams taken by the drain_udp call under way
    queued,   \* queued: what the drains found in all
    early,    \* a datagram that reads well came before the revalidation
    exit      \* how the run ended: "none" while it runs, "ok" for status 0

D == INSTANCE DhcpResponder
S == INSTANCE FirmwareService

dhcpVars == <<expectedMac, phase, clientMac, offeredXid, acknowledged,
              interfaceChanged, replyFailed, pending, replies, outcome>>
bufferVars == <<queue, arrived, badSums>>
serveVars == <<pc, now, stop, readable, selected, reply, unique, count,
               quietUntil, logged, sent, advertised, lastData, cause>>
hostVars == <<addressPresent, networkSafe>>
runVars == <<stage, drained, queued, early, exit>>
flashVars == <<dhcpVars, bufferVars, serveVars, hostVars, runVars>>

FlashInit ==
    /\ D!Init /\ S!ServiceInit
    /\ networkSafe => addressPresent
    /\ stage = "preflight"
    /\ drained = 0 /\ queued = 0
    /\ early = FALSE
    /\ exit = "none"

-----------------------------------------------------------------------------
Exit(reason) == stage' = "exit" /\ exit' = reason
Proceed(next) == stage' = next /\ UNCHANGED exit

(* The arguments and the image are validated first (prepare_image), then   *)
(* the interface, its routes and the client address.                       *)
Preflight ==
    /\ stage = "preflight"
    /\ \/ Exit("image_refused")
       \/ IF networkSafe THEN Proceed("bind") ELSE Exit("network_refused")
    /\ UNCHANGED <<dhcpVars, bufferVars, serveVars, hostVars, drained, queued, early>>

BindPorts ==
    /\ stage = "bind"
    /\ Proceed("dhcp") \/ Exit("ports_busy")
    /\ UNCHANGED <<dhcpVars, bufferVars, serveVars, hostVars, drained, queued, early>>

DuringDhcp == /\ stage = "dhcp"
              /\ UNCHANGED <<bufferVars, serveVars, networkSafe, runVars>>

DhcpFrame == DuringDhcp /\ \E f \in D!Frame : D!ServerStep(f)
DhcpOwn == DuringDhcp /\ D!OtherStep
DhcpTimeout == DuringDhcp /\ D!CaptureTimeout

(* Any end of the DHCP phase is good enough.                               *)
LeaseObtained_AnyEnd(result) == result # "not_ready"
LeaseObtained(result) == result = "lease"

(* An attempt that waits for a lease after run_dhcp has given up.          *)
DhcpReturns_LeaseOnly ==
    /\ stage = "dhcp"
    /\ phase = "done"
    /\ LeaseObtained(outcome)
    /\ Proceed("revalidate")
    /\ UNCHANGED <<dhcpVars, bufferVars, serveVars, hostVars, drained, queued, early>>

DhcpReturns ==
    /\ stage = "dhcp"
    /\ phase = "done"
    /\ IF LeaseObtained(outcome) THEN Proceed("revalidate") ELSE Exit("dhcp_failed")
    /\ UNCHANGED <<dhcpVars, bufferVars, serveVars, hostVars, drained, queued, early>>

(* revalidate_network, and the comparison of the lease with --client-mac.  *)
Revalidate ==
    /\ stage = "revalidate"
    /\ IF networkSafe /\ (expectedMac # NoMac => clientMac = expectedMac)
       THEN Proceed("drain_command") ELSE Exit("network_changed")
    /\ UNCHANGED <<dhcpVars, bufferVars, serveVars, hostVars, drained, queued, early>>

DrainSocket == IF stage = "drain_command" THEN "command" ELSE "data"
Draining == stage \in {"drain_command", "drain_data"}

(* The bound of drain_udp.                                                 *)
DrainAllows(n) == n < DrainLimit

(* drain_udp takes one datagram; one the kernel discards is not counted.   *)
DrainOne ==
    /\ Draining
    /\ queue[DrainSocket] # <<>>
    /\ DrainAllows(drained)
    /\ queue' = [queue EXCEPT ![DrainSocket] = Tail(@)]
    /\ IF Head(queue[DrainSocket]).kind = "corrupt"
       THEN badSums' = badSums + 1 /\ UNCHANGED <<drained, queued>>
       ELSE drained' = drained + 1 /\ queued' = queued + 1 /\ UNCHANGED badSums
    /\ UNCHANGED <<dhcpVars, arrived, serveVars, hostVars, stage, early, exit>>

(* drain_udp finds the socket busy beyond its limit.                       *)
DrainBusy ==
    /\ Draining
    /\ queue[DrainSocket] # <<>>
    /\ ~DrainAllows(drained)
    /\ Exit("queue_busy")
    /\ UNCHANGED <<dhcpVars, bufferVars, serveVars, hostVars, drained, queued, early>>

(* Any datagram found by the drains means the ATA was triggered too early. *)
AfterDrain_Ignore(n) == TRUE
AfterDrain(n) == n = 0

DrainEmpty ==
    /\ Draining
    /\ queue[DrainSocket] = <<>>
    /\ drained' = 0
    /\ IF stage = "drain_command" THEN Proceed("drain_data")
       ELSE IF AfterDrain(queued) THEN Proceed("serve") ELSE Exit("early_trigger")
    /\ UNCHANGED <<dhcpVars, bufferVars, serveVars, hostVars, queued, early>>

ServeStep ==
    /\ stage = "serve"
    /\ S!LoopStep
    /\ UNCHANGED <<dhcpVars, addressPresent, runVars>>

(* revalidate_network raises its own error inside the safety check; only   *)
(* an OSError of the service becomes "transmission failed".                *)
ServeRaises ==
    /\ stage = "serve"
    /\ pc = "raised"
    /\ Exit(IF cause = "safety" THEN "network_changed" ELSE "transmission_failed")
    /\ UNCHANGED <<dhcpVars, bufferVars, serveVars, hostVars, drained, queued, early>>

Verdict(blocks) == IF S!Complete(blocks) THEN "ok"
                   ELSE IF blocks # {} THEN "incomplete" ELSE "no_transfer"

ServeReturns ==
    /\ stage = "serve"
    /\ pc = "returned"
    /\ Exit(Verdict(unique))
    /\ UNCHANGED <<dhcpVars, bufferVars, serveVars, hostVars, drained, queued, early>>

Interrupt ==
    /\ stage # "exit"
    /\ Exit("interrupted")
    /\ UNCHANGED <<dhcpVars, bufferVars, serveVars, hostVars, drained, queued, early>>

-----------------------------------------------------------------------------
(* The environment.  A socket exists between BindPorts and the exit.       *)

Bound == stage \notin {"preflight", "bind", "exit"}
BeforeRevalidation == stage \in {"dhcp", "revalidate"}

DatagramArrives ==
    /\ Bound
    /\ \E s \in S!Socket : \E d \in S!Incoming(s) :
         /\ S!Arrive(s, d)
         /\ early' = (early \/ (BeforeRevalidation /\ d.kind # "corrupt"))
    /\ UNCHANGED <<dhcpVars, addressPresent, stage, drained, queued, exit>>

TimePasses ==
    /\ stage = "serve"
    /\ S!Tick
    /\ UNCHANGED <<dhcpVars, addressPresent, runVars>>

(* The network the safety checks accept is one with the address in place.  *)
HostChanges ==
    /\ stage # "exit"
    /\ addressPresent' \in BOOLEAN /\ networkSafe' \in BOOLEAN
    /\ networkSafe' => addressPresent'
    /\ hostVars' # hostVars
    /\ UNCHANGED <<dhcpVars, bufferVars, serveVars, runVars>>

RunStep == \/ Preflight \/ BindPorts \/ DhcpReturns \/ Revalidate
           \/ DrainOne \/ DrainBusy \/ DrainEmpty
           \/ ServeStep \/ ServeRaises \/ ServeReturns

FlashNext == RunStep \/ DhcpFrame \/ DhcpOwn \/ Interrupt
             \/ DatagramArrives \/ TimePasses \/ HostChanges

FlashSpec == FlashInit /\ [][FlashNext]_flashVars

(* The process runs and time passes.  The DHCP capture is left at its      *)
(* timeout, however many frames arrive.                                    *)
FlashFairness ==
    /\ WF_flashVars(RunStep) /\ WF_flashVars(TimePasses)
    /\ WF_flashVars(DhcpOwn) /\ SF_flashVars(DhcpTimeout)

FairFlashSpec == FlashSpec /\ FlashFairness

-----------------------------------------------------------------------------
(* FLASHING.md: a firmware packet queued before the post-DHCP revalidation *)
(* aborts the attempt.  Whatever arrives during DHCP, and whatever comes   *)
(* between the two drains, no firmware response leaves such a run.         *)
EarlyTriggerIsNeverServed == early => sent = {}

(* Status 0 certifies the whole chain: the lease was acknowledged to one   *)
(* client, and every block of the image was put on the wire afterwards.    *)
(* Firmware is only ever offered to a network on which the lease was       *)
(* acknowledged, whatever the exit, and the DHCP conversation is over by   *)
(* then: the two services never talk at the same time.                     *)
SuccessCertifiesDelivery ==
    /\ exit = "ok" =>
        /\ \E a \in D!Acks : a.mac = clientMac
        /\ \A b \in S!Block : [kind |-> "block", index |-> b] \in sent
    /\ sent # {} => outcome = "lease"
    /\ pc # "bound" => phase = "done"

(* The attempt always ends: neither DHCP traffic, nor datagrams that keep  *)
(* the drains busy, nor firmware requests keep it from its deadlines.      *)
FlashEnds == <>(stage = "exit")

(* The error run_flash prints for every OSError of the service says that a *)
(* transmission failed.                                                    *)
TransmissionFailedMeansSend ==
    exit = "transmission_failed" => cause = "send"
=============================================================================
