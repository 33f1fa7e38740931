---------------------------- MODULE DhcpResponder ----------------------------
(***************************************************************************)
(* run_dhcp of dhcp.py: the one-lease DHCP responder that precedes the     *)
(* firmware service.  It captures DISCOVER and REQUEST frames, locks onto  *)
(* one client, answers it, and stops at the first ACK, at the first reply  *)
(* that cannot be sent, when the interface address is gone, or at its      *)
(* timeout.                                                                *)
(*                                                                         *)
(* The environment is open: any well-formed frame may be captured at any   *)
(* moment, any number of times.  That covers every loss, duplication and   *)
(* reordering of what the clients send.  A frame that parse_request drops  *)
(* changes nothing in the code and is no step here.                        *)
(***************************************************************************)
EXTENDS Naturals, FiniteSets

CONSTANTS
    Mac,    \* hardware addresses that occur on the segment
    NoMac,  \* None where a hardware address is expected
    Xid,    \* DHCP transaction identifiers
    NoXid   \* None where a transaction identifier is expected

ASSUME NoMacAssumption == NoMac \notin Mac
ASSUME NoXidAssumption == NoXid \notin Xid

(* A captured frame: requested address and server identifier are kept only *)
(* as far as parse_request tells them apart.                               *)
Frame == [kind : {"DISCOVER", "REQUEST"}, mac : Mac, xid : Xid,
          addr : {"ours", "other"}, server : {"none", "own", "other"}]

Reply == [kind : {"OFFER", "ACK"}, mac : Mac, xid : Xid]

VARIABLES
    expectedMac,      \* --client-mac: a Mac, or NoMac to lock the first client
    phase,            \* where run_dhcp is: "idle", "capture", "answer", "stopped", "done"
    clientMac,        \* client_mac: the client the responder is locked to
    offeredXid,       \* offered_xid: the transaction of the latest OFFER
    acknowledged,     \* acknowledged
    interfaceChanged, \* interface_changed
    replyFailed,      \* reply_failed
    pending,          \* the frame between its address check and sendp, as a set
    replies,          \* every reply put on the wire
    addressPresent,   \* the selected interface still holds the server address
    outcome           \* how run_dhcp ended: "none" while it runs

serverVars == <<expectedMac, phase, clientMac, offeredXid, acknowledged,
                interfaceChanged, replyFailed, pending, replies, outcome>>
vars == <<serverVars, addressPresent>>

Init ==
    /\ phase = "idle"
    /\ expectedMac \in Mac \cup {NoMac}
    /\ clientMac = expectedMac
    /\ offeredXid = NoXid
    /\ acknowledged = FALSE
    /\ interfaceChanged = FALSE
    /\ replyFailed = FALSE
    /\ pending = {}
    /\ replies = {}
    /\ addressPresent \in BOOLEAN
    /\ outcome = "none"

-----------------------------------------------------------------------------
(* The tests a captured frame has to pass, in the order of the code.       *)

(* A parser that does not look at the server identifier.                   *)
Parsed_AnyServer(f) ==
    /\ expectedMac # NoMac => f.mac = expectedMac
    /\ f.kind = "REQUEST" => f.addr = "ours"

(* parse_request: the expected client only, a server identifier that is    *)
(* absent or ours, and a REQUEST for the address on offer.                 *)
Parsed(f) ==
    /\ expectedMac # NoMac => f.mac = expectedMac
    /\ f.server \in {"none", "own"}
    /\ f.kind = "REQUEST" => f.addr = "ours"

(* A lock that yields to any client: the client_mac test is forgotten.     *)
LockAllows_AnyClient(f) == f.mac \in Mac

LockAllows(f) == clientMac # NoMac => f.mac = clientMac

(* The test that a REQUEST needs an OFFER is forgotten.                    *)
XidAllows_NoOffer(f) ==
    f.kind = "REQUEST" /\ offeredXid # NoXid => f.xid = offeredXid

XidAllows(f) ==
    f.kind = "REQUEST" =>
        /\ offeredXid # NoXid => f.xid = offeredXid
        /\ ~(offeredXid = NoXid /\ expectedMac = NoMac)

Accepts(f) == Parsed(f) /\ LockAllows(f) /\ XidAllows(f)

(* The stop filter forgets one of its three reasons.                       *)
CaptureStops_NotOnFailure(ack, changed, failed) == ack \/ changed

(* stop_filter of sniff, evaluated after every captured frame.             *)
CaptureStops(ack, changed, failed) == ack \/ changed \/ failed

AfterFrame == IF CaptureStops(acknowledged', interfaceChanged', replyFailed')
              THEN "stopped" ELSE "capture"

-----------------------------------------------------------------------------
(* run_dhcp inspects the interface before it opens the capture.            *)
Begin ==
    /\ phase = "idle"
    /\ IF addressPresent
       THEN phase' = "capture" /\ UNCHANGED outcome
       ELSE phase' = "done" /\ outcome' = "not_ready"
    /\ UNCHANGED <<expectedMac, clientMac, offeredXid, acknowledged,
                   interfaceChanged, replyFailed, pending, replies, addressPresent>>

(* respond, first half, the interface address is gone.                     *)
AddressGone(f) ==
    /\ phase = "capture"
    /\ Accepts(f)
    /\ ~addressPresent
    /\ interfaceChanged' = TRUE
    /\ UNCHANGED <<acknowledged, replyFailed>>
    /\ phase' = AfterFrame
    /\ UNCHANGED <<expectedMac, clientMac, offeredXid, pending, replies, addressPresent, outcome>>

(* A lock that is tested but never closed.                                 *)
LockOn_Never(f) == clientMac

LockOn(f) == f.mac

(* respond, first half, the address is there: lock the client, remember    *)
(* the transaction of a DISCOVER and build the reply.                      *)
Admit(f) ==
    /\ phase = "capture"
    /\ Accepts(f)
    /\ addressPresent
    /\ clientMac' = LockOn(f)
    /\ offeredXid' = IF f.kind = "DISCOVER" THEN f.xid ELSE offeredXid
    /\ pending' = {f}
    /\ phase' = "answer"
    /\ UNCHANGED <<expectedMac, acknowledged, interfaceChanged, replyFailed,
                   replies, addressPresent, outcome>>

ReplyTo(f) == [kind |-> IF f.kind = "DISCOVER" THEN "OFFER" ELSE "ACK",
               mac |-> f.mac, xid |-> f.xid]

(* respond, second half: sendp returned.                                   *)
SendReply ==
    /\ phase = "answer"
    /\ \E f \in pending :
         /\ replies' = replies \cup {ReplyTo(f)}
         /\ acknowledged' = (acknowledged \/ f.kind = "REQUEST")
    /\ pending' = {}
    /\ UNCHANGED <<interfaceChanged, replyFailed>>
    /\ phase' = AfterFrame
    /\ UNCHANGED <<expectedMac, clientMac, offeredXid, addressPresent, outcome>>

(* respond, second half: sendp raised; nothing was put on the wire.        *)
SendFails ==
    /\ phase = "answer"
    /\ replyFailed' = TRUE
    /\ pending' = {}
    /\ UNCHANGED <<acknowledged, interfaceChanged>>
    /\ phase' = AfterFrame
    /\ UNCHANGED <<expectedMac, clientMac, offeredXid, replies, addressPresent, outcome>>

(* sniff reaches its timeout between two frames.                           *)
CaptureTimeout ==
    /\ phase = "capture"
    /\ phase' = "stopped"
    /\ UNCHANGED <<expectedMac, clientMac, offeredXid, acknowledged,
                   interfaceChanged, replyFailed, pending, replies, addressPresent, outcome>>

(* sniff itself raises.                                                    *)
CaptureFails ==
    /\ phase = "capture"
    /\ phase' = "done"
    /\ outcome' = "capture_failed"
    /\ UNCHANGED <<expectedMac, clientMac, offeredXid, acknowledged,
                   interfaceChanged, replyFailed, pending, replies, addressPresent>>

(* What run_dhcp raises or returns once sniff has returned.                *)
Conclude ==
    /\ phase = "stopped"
    /\ phase' = "done"
    /\ outcome' = CASE interfaceChanged -> "changed"
                    [] ~interfaceChanged /\ replyFailed -> "reply_failed"
                    [] ~interfaceChanged /\ ~replyFailed
                         /\ (~acknowledged \/ clientMac = NoMac) -> "timeout"
                    [] OTHER -> "lease"
    /\ UNCHANGED <<expectedMac, clientMac, offeredXid, acknowledged,
                   interfaceChanged, replyFailed, pending, replies, addressPresent>>

(* The host or its operator removes or restores the interface address.     *)
AddressFlips ==
    /\ addressPresent' = ~addressPresent
    /\ UNCHANGED serverVars

ServerStep(f) == Admit(f) \/ AddressGone(f)
OtherStep == \/ Begin \/ SendReply \/ SendFails
             \/ CaptureTimeout \/ CaptureFails \/ Conclude

Next == (\E f \in Frame : ServerStep(f)) \/ OtherStep \/ AddressFlips

Spec == Init /\ [][Next]_vars

-----------------------------------------------------------------------------
TypeOK ==
    /\ phase \in {"idle", "capture", "answer", "stopped", "done"}
    /\ expectedMac \in Mac \cup {NoMac}
    /\ clientMac \in Mac \cup {NoMac}
    /\ offeredXid \in Xid \cup {NoXid}
    /\ acknowledged \in BOOLEAN
    /\ interfaceChanged \in BOOLEAN
    /\ replyFailed \in BOOLEAN
    /\ pending \in SUBSET Frame
    /\ replies \in SUBSET Reply
    /\ addressPresent \in BOOLEAN
    /\ outcome \in {"none", "not_ready", "changed", "reply_failed", "timeout",
                    "capture_failed", "lease"}

Acks == {r \in replies : r.kind = "ACK"}
Offers == {r \in replies : r.kind = "OFFER"}

(* "Lock the first client": however frames of several clients interleave,  *)
(* every reply of a run goes to one client, the one the responder is       *)
(* locked to, and that is the expected client when one is given.           *)
SingleClient ==
    \A r \in replies : /\ r.mac = clientMac
                       /\ expectedMac # NoMac => r.mac = expectedMac

(* Without an expected client, an ACK only confirms an OFFER of this run   *)
(* to the same client in the same transaction: a REQUEST left over from    *)
(* another exchange never obtains the lease.                               *)
AckFollowsOffer ==
    expectedMac = NoMac =>
        \A a \in Acks : \E o \in Offers : o.mac = a.mac /\ o.xid = a.xid

(* run_dhcp returns a lease exactly when an ACK went out, for the client   *)
(* that ACK names, in the transaction of the latest OFFER if there was     *)
(* one; and a run that reports any failure has granted nothing, whatever   *)
(* order the failure flags were raised in.                                 *)
LeaseIffAcknowledged ==
    phase = "done" =>
        /\ (outcome = "lease") <=> (Acks # {})
        /\ \A a \in Acks : /\ a.mac = clientMac
                           /\ offeredXid # NoXid => a.xid = offeredXid
=============================================================================
