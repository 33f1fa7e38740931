------------------------------ MODULE DhcpProofs ------------------------------
(***************************************************************************)
(* What the DHCP responder guarantees for every set of clients and         *)
(* transactions, and what it comes to between the clients themselves.      *)
(*                                                                         *)
(* The safety invariants are not inductive: a step from "answer" relies on *)
(* what the frame in hand was admitted for, and a REQUEST on what an OFFER *)
(* already on the wire says.  IInv carries both.  The second half adds     *)
(* what ties the replies to the requests and to the clients' states.       *)
(***************************************************************************)
EXTENDS DhcpExchange, TLAPS

Ended == {"stopped", "done"}

(* The frame in hand was admitted: it belongs to the locked client, and it *)
(* is of the transaction on offer.                                         *)
PendingInv ==
    /\ (phase = "answer") <=> (pending # {})
    /\ \A f, g \in pending : f = g
    /\ \A f \in pending :
         /\ f.mac = clientMac
         /\ f.kind = "DISCOVER" => offeredXid = f.xid
         /\ f.kind = "REQUEST" =>
              /\ offeredXid # NoXid => f.xid = offeredXid
              /\ expectedMac = NoMac => offeredXid # NoXid

(* The lock: it never leaves the expected client, and replies obey it.     *)
LockInv ==
    /\ expectedMac # NoMac => clientMac = expectedMac
    /\ SingleClient

(* While the capture goes on, the transaction on offer was really offered. *)
OfferInv ==
    /\ phase \in {"idle", "capture"} \/ (\E f \in pending : f.kind = "REQUEST") =>
         (offeredXid # NoXid =>
            [kind |-> "OFFER", mac |-> clientMac, xid |-> offeredXid] \in replies)
    /\ AckFollowsOffer

(* The three verdicts exclude each other and end the capture.              *)
VerdictInv ==
    /\ acknowledged \/ interfaceChanged \/ replyFailed => phase \in Ended
    /\ acknowledged => ~interfaceChanged /\ ~replyFailed /\ clientMac # NoMac
    /\ acknowledged <=> (Acks # {})
    /\ \A a \in Acks : offeredXid # NoXid => a.xid = offeredXid
    /\ phase # "done" => outcome = "none"
    /\ phase = "done" => (outcome = "lease" <=> acknowledged)

IInv == TypeOK /\ PendingInv /\ LockInv /\ OfferInv /\ VerdictInv

-----------------------------------------------------------------------------
LEMMA InitIInv == Init => IInv
  BY NoMacAssumption, NoXidAssumption
  DEF Init, IInv, TypeOK, PendingInv, LockInv, OfferInv, VerdictInv,
      SingleClient, AckFollowsOffer, Acks, Offers, Frame, Reply, Ended

(* Every step keeps the variables in their types.                          *)
LEMMA TypeStep == TypeOK /\ [Next]_vars => TypeOK'
<1> SUFFICES ASSUME TypeOK, [Next]_vars PROVE TypeOK'
  OBVIOUS
<1>1. ASSUME NEW f \in Frame, Admit(f) PROVE TypeOK'
  BY <1>1 DEF Admit, LockOn, TypeOK, Frame
<1>2. ASSUME NEW f \in Frame, AddressGone(f) PROVE TypeOK'
  BY <1>2 DEF AddressGone, AfterFrame, TypeOK
<1>3. CASE Begin
  BY <1>3 DEF Begin, TypeOK
<1>4. CASE SendReply
  <2>1. PICK f \in pending : /\ replies' = replies \cup {ReplyTo(f)}
                             /\ acknowledged' = (acknowledged \/ f.kind = "REQUEST")
    BY <1>4 DEF SendReply
  <2>2. ReplyTo(f) \in Reply
    BY <2>1 DEF TypeOK, ReplyTo, Frame, Reply
  <2> QED
    BY <1>4, <2>1, <2>2 DEF SendReply, AfterFrame, TypeOK
<1>5. CASE SendFails
  BY <1>5 DEF SendFails, AfterFrame, TypeOK
<1>6. CASE CaptureTimeout
  BY <1>6 DEF CaptureTimeout, TypeOK
<1>7. CASE CaptureFails
  BY <1>7 DEF CaptureFails, TypeOK
<1>8. CASE Conclude
  BY <1>8 DEF Conclude, TypeOK
<1>9. CASE AddressFlips
  BY <1>9 DEF AddressFlips, serverVars, TypeOK
<1>10. CASE UNCHANGED vars
  BY <1>10 DEF vars, serverVars, TypeOK
<1> QED
  BY <1>1, <1>2, <1>3, <1>4, <1>5, <1>6, <1>7, <1>8, <1>9, <1>10
  DEF Next, ServerStep, OtherStep

(* The safety part of the invariant, step by step.                         *)
LEMMA SafetyStep == IInv /\ [Next]_vars =>
                      PendingInv' /\ LockInv' /\ OfferInv' /\ VerdictInv'
<1> SUFFICES ASSUME IInv, [Next]_vars
             PROVE  PendingInv' /\ LockInv' /\ OfferInv' /\ VerdictInv'
  OBVIOUS
<1> USE NoMacAssumption, NoXidAssumption
    DEF IInv, TypeOK, Ended, LockOn
<1>1. ASSUME NEW f \in Frame, Admit(f)
      PROVE  PendingInv' /\ LockInv' /\ OfferInv' /\ VerdictInv'
  <2>1. f.mac \in Mac /\ f.xid \in Xid /\ f.kind \in {"DISCOVER", "REQUEST"}
    BY DEF Frame
  <2>2. clientMac # NoMac => f.mac = clientMac
    BY <1>1 DEF Admit, Accepts, LockAllows
  <2>3. replies # {} => clientMac # NoMac
    BY DEF LockInv, SingleClient, Reply
  <2>4. PendingInv'
    BY <1>1, <2>1 DEF Admit, Accepts, XidAllows, PendingInv
  <2>5. LockInv'
    BY <1>1, <2>1, <2>2, <2>3 DEF Admit, Accepts, Parsed, LockInv, SingleClient
  <2>6. OfferInv'
    BY <1>1, <2>1, <2>2, <2>3
    DEF Admit, OfferInv, AckFollowsOffer, Acks, Offers
  <2>7. VerdictInv'
    BY <1>1, <2>1 DEF Admit, VerdictInv, Acks
  <2> QED
    BY <2>4, <2>5, <2>6, <2>7
<1>2. ASSUME NEW f \in Frame, AddressGone(f)
      PROVE  PendingInv' /\ LockInv' /\ OfferInv' /\ VerdictInv'
  BY <1>2 DEF AddressGone, AfterFrame, CaptureStops, PendingInv, LockInv, OfferInv,
              VerdictInv, SingleClient, AckFollowsOffer, Acks, Offers
<1>3. CASE SendReply
  <2>1. PICK f \in pending : /\ replies' = replies \cup {ReplyTo(f)}
                             /\ acknowledged' = (acknowledged \/ f.kind = "REQUEST")
    BY <1>3 DEF SendReply
  <2>2. /\ f.mac = clientMac /\ f.mac \in Mac /\ f.xid \in Xid
        /\ f.kind \in {"DISCOVER", "REQUEST"}
    BY <2>1 DEF PendingInv, Frame
  <2>3. PendingInv'
    BY <1>3 DEF SendReply, AfterFrame, PendingInv
  <2>4. LockInv'
    BY <1>3, <2>1, <2>2 DEF SendReply, LockInv, SingleClient, ReplyTo
  <2>5. OfferInv'
    BY <1>3, <2>1, <2>2
    DEF SendReply, AfterFrame, CaptureStops, PendingInv, OfferInv, AckFollowsOffer,
        Acks, Offers, ReplyTo
  <2>6. phase = "answer" /\ ~acknowledged /\ Acks = {} /\ outcome = "none"
    BY <1>3 DEF SendReply, VerdictInv
  <2>7. acknowledged' <=> f.kind = "REQUEST"
    BY <2>1, <2>6
  <2>8. Acks' = IF f.kind = "REQUEST" THEN {ReplyTo(f)} ELSE {}
    BY <2>1, <2>2, <2>6 DEF Acks, ReplyTo
  <2>9. phase' = IF f.kind = "REQUEST" THEN "stopped" ELSE "capture"
    BY <1>3, <2>6, <2>7 DEF SendReply, AfterFrame, CaptureStops, VerdictInv
  <2>10. VerdictInv'
    <3>1. \A a \in Acks' : offeredXid' # NoXid => a.xid = offeredXid'
      BY <1>3, <2>1, <2>2, <2>8 DEF SendReply, PendingInv, ReplyTo
    <3>2. ~interfaceChanged' /\ ~replyFailed' /\ clientMac' # NoMac /\ outcome' = "none"
      BY <1>3, <2>2, <2>6 DEF SendReply, VerdictInv
    <3> QED
      BY <2>7, <2>8, <2>9, <3>1, <3>2 DEF VerdictInv
  <2> QED
    BY <2>3, <2>4, <2>5, <2>10
<1>4. CASE SendFails
  BY <1>4 DEF SendFails, AfterFrame, CaptureStops, PendingInv, LockInv, OfferInv,
              VerdictInv, SingleClient, AckFollowsOffer, Acks, Offers
<1>5. CASE Begin \/ CaptureTimeout \/ CaptureFails
  BY <1>5 DEF Begin, CaptureTimeout, CaptureFails, PendingInv, LockInv,
              OfferInv, VerdictInv, SingleClient, AckFollowsOffer, Acks, Offers
<1>6. CASE Conclude
  <2>1. PendingInv' /\ LockInv' /\ OfferInv'
    BY <1>6 DEF Conclude, PendingInv, LockInv, OfferInv, SingleClient,
                AckFollowsOffer, Acks, Offers
  <2>2. outcome' = "lease" <=> acknowledged
    BY <1>6 DEF Conclude, VerdictInv
  <2> QED
    BY <1>6, <2>1, <2>2 DEF Conclude, VerdictInv, Acks
<1>7. CASE AddressFlips \/ UNCHANGED vars
  BY <1>7 DEF AddressFlips, vars, serverVars, PendingInv, LockInv, OfferInv,
              VerdictInv, SingleClient, AckFollowsOffer, Acks, Offers
<1> QED
  BY <1>1, <1>2, <1>3, <1>4, <1>5, <1>6, <1>7 DEF Next, ServerStep, OtherStep

LEMMA Invariant == Spec => []IInv
<1>1. IInv /\ [Next]_vars => IInv'
  BY TypeStep, SafetyStep DEF IInv
<1> QED
  BY InitIInv, <1>1, PTL DEF Spec

-----------------------------------------------------------------------------
(* Whatever arrives, the variables of the responder keep their types.      *)
THEOREM TypeCorrect == Spec => []TypeOK
  BY Invariant, PTL DEF IInv

(* One client per run: every reply goes to the client of the lock.         *)
THEOREM OneClient == Spec => []SingleClient
  BY Invariant, PTL DEF IInv, LockInv

(* Without an expected client, only an offered lease is acknowledged.      *)
THEOREM OfferBeforeAck == Spec => []AckFollowsOffer
  BY Invariant, PTL DEF IInv, OfferInv

(* The result of run_dhcp tells whether the lease was handed out.          *)
THEOREM LeaseReported == Spec => []LeaseIffAcknowledged
<1>1. IInv => LeaseIffAcknowledged
  BY DEF IInv, TypeOK, Reply, LockInv, SingleClient, VerdictInv, LeaseIffAcknowledged, Acks
<1> QED
  BY Invariant, <1>1, PTL

-----------------------------------------------------------------------------
(* The exchange: the responder's steps keep IInv whatever frames the       *)
(* clients send.                                                           *)

ClientTypeOK ==
    /\ requests \in SUBSET Frame
    /\ cstate \in [Mac -> {"init", "selecting", "requesting", "elsewhere", "bound"}]
    /\ cxid \in [Mac -> Xid \cup {NoXid}]
    /\ \A c \in Mac : cstate[c] = "selecting" => cxid[c] \in Xid

(* A REQUEST for this server's address.                                    *)
ForUs(f) == f \in requests /\ (f.kind = "REQUEST" => f.addr = "ours" /\ f.server # "other")

(* What is answered, or about to be, was asked of this server.             *)
AnsweredInv ==
    /\ \A f \in pending : ForUs(f)
    /\ \A a \in Acks : \E f \in requests :
          ForUs(f) /\ f.kind = "REQUEST" /\ f.mac = a.mac /\ f.xid = a.xid

(* A client that selects has only sent its DISCOVER; one that went to      *)
(* another server has sent no REQUEST but to that one.                     *)
OwnTransactionInv ==
    \A c \in Mac : \A f \in requests : f.mac = c /\ f.xid = cxid[c] =>
        /\ cstate[c] = "selecting" => f.kind = "DISCOVER"
        /\ cstate[c] = "elsewhere" /\ f.kind = "REQUEST" => f.server = "other"

BoundInv == \A c \in Mac : cstate[c] = "bound" => \E a \in Acks : a.mac = c

ClientInv == ClientTypeOK /\ AnsweredInv /\ OwnTransactionInv /\ BoundInv
ExchangeInv == IInv /\ ClientInv

-----------------------------------------------------------------------------
LEMMA ExchangeStarts == ExchangeInit => ExchangeInv
<1> SUFFICES ASSUME ExchangeInit PROVE ExchangeInv
  OBVIOUS
<1>1. IInv
  BY InitIInv DEF ExchangeInit
<1>2. pending = {} /\ replies = {} /\ requests = {}
  BY DEF ExchangeInit, Init
<1>3. ClientInv
  BY <1>2 DEF ExchangeInit, ClientInv, ClientTypeOK, AnsweredInv, OwnTransactionInv,
              BoundInv, Acks
<1> QED  BY <1>1, <1>3 DEF ExchangeInv

(* A step of the responder answers what it admitted, and admits requests.  *)
LEMMA ReplyStep ==
  ASSUME TypeOK, ResponderStep
  PROVE  /\ Acks \subseteq Acks'
         /\ \A a \in Acks' : a \in Acks \/ \E f \in pending : f.kind = "REQUEST" /\ a = ReplyTo(f)
         /\ \A f \in pending' : f \in pending \/ (f \in requests /\ Parsed(f))
<1>1. ASSUME NEW f \in requests, Admit(f)
      PROVE  Acks' = Acks /\ pending' = {f} /\ Parsed(f)
  BY <1>1 DEF Admit, Accepts, Acks
<1>2. ASSUME SendReply
      PROVE  /\ Acks \subseteq Acks' /\ pending' = {}
             /\ \A a \in Acks' : a \in Acks
                   \/ \E f \in pending : f.kind = "REQUEST" /\ a = ReplyTo(f)
  <2>1. PICK f \in pending : replies' = replies \cup {ReplyTo(f)}
    BY <1>2 DEF SendReply
  <2>2. f \in Frame /\ (ReplyTo(f).kind = "ACK" => f.kind = "REQUEST")
    BY DEF ReplyTo, Frame, TypeOK
  <2>3. pending' = {}
    BY <1>2 DEF SendReply
  <2>4. \A a \in Acks' : a \in Acks \/ (f.kind = "REQUEST" /\ a = ReplyTo(f))
    BY <2>1, <2>2 DEF Acks
  <2> QED  BY <2>1, <2>3, <2>4 DEF Acks
<1>3. CASE (\E f \in requests : AddressGone(f)) \/ Begin \/ SendFails \/ CaptureTimeout
              \/ CaptureFails \/ Conclude \/ AddressFlips
  <2>1. replies' = replies /\ pending' \subseteq pending
    BY <1>3 DEF AddressGone, Begin, SendFails, CaptureTimeout, CaptureFails, Conclude,
                AddressFlips, serverVars
  <2> QED  BY <2>1 DEF Acks
<1> QED
  BY <1>1, <1>2, <1>3 DEF ResponderStep, ServerStep, OtherStep

LEMMA ResponderKeeps ==
  ASSUME ExchangeInv, ResponderStep, UNCHANGED clientVars
  PROVE  ExchangeInv'
<1>0. TypeOK
  BY DEF ExchangeInv, IInv
<1>1. requests \in SUBSET Frame
  BY DEF ExchangeInv, ClientInv, ClientTypeOK
<1>2. Next
  BY <1>1 DEF ResponderStep, Next
<1>3. IInv'
  BY <1>2, TypeStep, SafetyStep DEF ExchangeInv, IInv
<1>4. /\ requests' = requests /\ cstate' = cstate /\ cxid' = cxid
  BY DEF clientVars
<1>5. ClientTypeOK' /\ OwnTransactionInv'
  BY <1>4 DEF ExchangeInv, ClientInv, ClientTypeOK, OwnTransactionInv
<1>6. BoundInv'
  BY <1>0, <1>4, ReplyStep DEF ExchangeInv, ClientInv, BoundInv
<1>7. ASSUME NEW f \in pending' PROVE ForUs(f)'
  <2>1. ForUs(f)
    BY <1>0, ReplyStep DEF ExchangeInv, ClientInv, AnsweredInv, ForUs, Parsed
  <2> QED  BY <1>4, <2>1 DEF ForUs
<1>8. ASSUME NEW a \in Acks'
      PROVE  \E f \in requests' : /\ ForUs(f)' /\ f.kind = "REQUEST"
                                  /\ f.mac = a.mac /\ f.xid = a.xid
  <2>1. \E f \in requests : /\ ForUs(f) /\ f.kind = "REQUEST"
                            /\ f.mac = a.mac /\ f.xid = a.xid
    <3>1. CASE a \in Acks
      BY <3>1 DEF ExchangeInv, ClientInv, AnsweredInv
    <3>2. ASSUME NEW f \in pending, f.kind = "REQUEST", a = ReplyTo(f)
          PROVE  /\ f \in requests /\ ForUs(f)
                 /\ f.mac = a.mac /\ f.xid = a.xid
      BY <3>2 DEF ExchangeInv, ClientInv, AnsweredInv, ForUs, ReplyTo
    <3> QED  BY <1>0, <3>1, <3>2, ReplyStep
  <2> QED  BY <1>4, <2>1 DEF ForUs
<1>9. AnsweredInv'
  BY <1>7, <1>8 DEF AnsweredInv
<1> QED  BY <1>3, <1>5, <1>6, <1>9 DEF ExchangeInv, ClientInv

(* A client's step leaves the responder alone; what it sends is its own.   *)
LEMMA ClientKeeps ==
  ASSUME ExchangeInv, ClientStep
  PROVE  ExchangeInv'
<1> USE DEF ExchangeInv, ClientInv
<1>1. UNCHANGED vars
  BY DEF ClientStep, Discover, Reboot, TakeOffer, TakeForeignOffer, TakeAck, GiveUp
<1>2. IInv'
  BY <1>1, TypeStep, SafetyStep DEF IInv
<1>3. pending' = pending /\ Acks' = Acks
  BY <1>1 DEF vars, serverVars, Acks
<1>4. PICK c \in Mac : \/ Discover(c) \/ Reboot(c) \/ TakeOffer(c)
                       \/ TakeForeignOffer(c) \/ TakeAck(c) \/ GiveUp(c)
  BY DEF ClientStep
<1> DEFINE Moves(state, x) == /\ cstate' = [cstate EXCEPT ![c] = state]
                              /\ cxid' = [cxid EXCEPT ![c] = x]
           Sends(f) == requests' = requests \cup {f}
<1>5. ASSUME NEW state \in {"init", "selecting", "requesting", "elsewhere", "bound"},
             NEW x \in Xid \cup {NoXid}, Moves(state, x),
             \/ requests' = requests
             \/ \E f \in Frame : Sends(f) /\ f.mac = c /\ f.xid = x
                   /\ (state = "selecting" => f.kind = "DISCOVER")
                   /\ (state = "elsewhere" => f.server = "other"),
             \A f \in requests : f.mac = c /\ f.xid = x =>
                 /\ state = "selecting" => f.kind = "DISCOVER"
                 /\ state = "elsewhere" /\ f.kind = "REQUEST" => f.server = "other",
             state = "bound" => \E a \in Acks : a.mac = c,
             state = "selecting" => x \in Xid
      PROVE  ClientInv'
  <2>1. ClientTypeOK'
    BY <1>5 DEF ClientTypeOK
  <2>2. requests \subseteq requests'
    BY <1>5
  <2>3. AnsweredInv'
    BY <1>3, <2>2 DEF AnsweredInv, ForUs
  <2>4. BoundInv'
    BY <1>3, <1>5 DEF BoundInv, ClientTypeOK
  <2>5. OwnTransactionInv'
    BY <1>5 DEF OwnTransactionInv, ClientTypeOK
  <2> QED  BY <2>1, <2>3, <2>4, <2>5
<1>6. ASSUME NEW kind \in {"DISCOVER", "REQUEST"}, NEW x \in Xid,
             NEW addr \in {"ours", "other"}, NEW server \in {"none", "own", "other"}
      PROVE  /\ [kind |-> kind, mac |-> c, xid |-> x, addr |-> addr, server |-> server] \in Frame
  BY DEF Frame
<1>7. CASE Discover(c)
  <2>1. PICK x \in Fresh(c) : Send(c, "DISCOVER", x, "ours", "none") /\ Enter(c, "selecting", x)
    BY <1>7 DEF Discover
  <2>2. x \in Xid /\ \A g \in requests : g.mac = c => g.xid # x
    BY <2>1 DEF Fresh
  <2> DEFINE f == [kind |-> "DISCOVER", mac |-> c, xid |-> x,
                   addr |-> "ours", server |-> "none"]
  <2>3. Sends(f) /\ Moves("selecting", x)
    BY <2>1 DEF Send, Enter
  <2>4. f \in Frame /\ f.mac = c /\ f.xid = x /\ f.kind = "DISCOVER"
    BY <1>6, <2>2
  <2> HIDE DEF f, Sends, Moves
  <2>5. ClientInv'
    BY <1>5, <2>2, <2>3, <2>4
  <2> QED  BY <1>2, <2>5
<1>8. CASE Reboot(c)
  <2>1. PICK x \in Fresh(c), addr \in {"ours", "other"} :
          Send(c, "REQUEST", x, addr, "none") /\ Enter(c, "requesting", x)
    BY <1>8 DEF Reboot
  <2>2. x \in Xid
    BY <2>1 DEF Fresh
  <2> DEFINE f == [kind |-> "REQUEST", mac |-> c, xid |-> x, addr |-> addr, server |-> "none"]
  <2>3. Sends(f) /\ Moves("requesting", x)
    BY <2>1 DEF Send, Enter
  <2>4. f \in Frame /\ f.mac = c /\ f.xid = x
    BY <1>6, <2>2
  <2> HIDE DEF f, Sends, Moves
  <2>5. ClientInv'
    BY <1>5, <2>2, <2>3, <2>4
  <2> QED  BY <1>2, <2>5
<1>9. CASE TakeOffer(c)
  <2>1. cxid[c] \in Xid
    BY <1>9 DEF TakeOffer, Heard, TypeOK, IInv, Reply
  <2> DEFINE f == [kind |-> "REQUEST", mac |-> c, xid |-> cxid[c],
                   addr |-> "ours", server |-> "own"]
  <2>2. Sends(f) /\ Moves("requesting", cxid[c])
    BY <1>9 DEF TakeOffer, Send, Enter
  <2>3. f \in Frame /\ f.mac = c /\ f.xid = cxid[c]
    BY <1>6, <2>1
  <2> HIDE DEF f, Sends, Moves
  <2>4. ClientInv'
    BY <1>5, <2>1, <2>2, <2>3
  <2> QED  BY <1>2, <2>4
<1>10. CASE TakeForeignOffer(c)
  <2>1. PICK addr \in {"ours", "other"} : Send(c, "REQUEST", cxid[c], addr, "other")
    BY <1>10 DEF TakeForeignOffer
  <2>2. cstate[c] = "selecting" /\ Enter(c, "elsewhere", cxid[c])
    BY <1>10 DEF TakeForeignOffer
  <2>3. /\ \A f \in requests : f.mac = c /\ f.xid = cxid[c] => f.kind = "DISCOVER"
        /\ cxid[c] \in Xid
    BY <2>2 DEF OwnTransactionInv, ClientTypeOK
  <2> DEFINE f == [kind |-> "REQUEST", mac |-> c, xid |-> cxid[c],
                   addr |-> addr, server |-> "other"]
  <2>4. Sends(f) /\ Moves("elsewhere", cxid[c])
    BY <2>1, <2>2 DEF Send, Enter
  <2>5. f \in Frame /\ f.mac = c /\ f.xid = cxid[c] /\ f.server = "other"
    BY <1>6, <2>3
  <2> HIDE DEF f, Sends, Moves
  <2>6. ClientInv'
    BY <1>5, <2>3, <2>4, <2>5
  <2> QED  BY <1>2, <2>6
<1>11. CASE TakeAck(c)
  <2>1. \E a \in Acks : a.mac = c
    BY <1>11 DEF TakeAck, Heard, Acks
  <2>2. cxid[c] \in Xid \cup {NoXid}
    BY DEF ClientTypeOK
  <2> QED  BY <1>2, <1>5, <1>11, <2>1, <2>2 DEF TakeAck, Enter
<1>12. CASE GiveUp(c)
  BY <1>2, <1>5, <1>12 DEF GiveUp, Enter
<1> QED  BY <1>4, <1>7, <1>8, <1>9, <1>10, <1>11, <1>12

LEMMA ExchangeKept == ExchangeInv /\ [ExchangeNext]_exchangeVars => ExchangeInv'
<1>1. ASSUME ExchangeInv, UNCHANGED exchangeVars PROVE ExchangeInv'
  <2>1. UNCHANGED vars /\ UNCHANGED clientVars
    BY <1>1 DEF exchangeVars
  <2>2. IInv'
    BY <1>1, <2>1, TypeStep, SafetyStep DEF ExchangeInv, IInv
  <2>3. pending' = pending /\ Acks' = Acks
    BY <2>1 DEF vars, serverVars, Acks
  <2>4. requests' = requests /\ cstate' = cstate /\ cxid' = cxid
    BY <2>1 DEF clientVars
  <2>5. ClientInv'
    BY <1>1, <2>3, <2>4 DEF ExchangeInv, ClientInv, ClientTypeOK, AnsweredInv, ForUs,
                            OwnTransactionInv, BoundInv
  <2> QED  BY <2>2, <2>5 DEF ExchangeInv
<1> QED  BY <1>1, ResponderKeeps, ClientKeeps DEF ExchangeNext

LEMMA ExchangeInvariant == ExchangeSpec => []ExchangeInv
  BY ExchangeStarts, ExchangeKept, PTL DEF ExchangeSpec

-----------------------------------------------------------------------------
(* However many clients compete for the one address and however their      *)
(* frames are delayed, repeated or lost, at most one of them configures    *)
(* it: the client an ACK of this run was sent to.                          *)
THEOREM OneClientBound == ExchangeSpec => []AtMostOneBound
<1>1. ExchangeInv => AtMostOneBound
  <2> SUFFICES ASSUME ExchangeInv, NEW c \in Mac, cstate[c] = "bound"
               PROVE  acknowledged /\ c = clientMac
    BY DEF AtMostOneBound
  <2>1. PICK a \in Acks : a.mac = c
    BY DEF ExchangeInv, ClientInv, BoundInv
  <2>2. acknowledged
    BY <2>1 DEF ExchangeInv, IInv, VerdictInv
  <2>3. a.mac = clientMac
    BY <2>1 DEF ExchangeInv, IInv, LockInv, SingleClient, Acks
  <2> QED  BY <2>1, <2>2, <2>3
<1> QED  BY <1>1, ExchangeInvariant, PTL

(* No ACK answers a REQUEST that was meant for another server or address,  *)
(* or settles a transaction its client has settled elsewhere.              *)
THEOREM AcksAreAsked == ExchangeSpec => []AckAnswersOwnRequest
<1>1. ExchangeInv => AckAnswersOwnRequest
  <2> SUFFICES ASSUME ExchangeInv, NEW a \in Acks
               PROVE  /\ \E f \in requests : /\ f.kind = "REQUEST" /\ f.addr = "ours"
                                             /\ f.server # "other"
                                             /\ f.mac = a.mac /\ f.xid = a.xid
                      /\ ~(cstate[a.mac] = "elsewhere" /\ cxid[a.mac] = a.xid)
    BY DEF AckAnswersOwnRequest
  <2>1. PICK f \in requests : /\ ForUs(f) /\ f.kind = "REQUEST"
                              /\ f.mac = a.mac /\ f.xid = a.xid
    BY DEF ExchangeInv, ClientInv, AnsweredInv
  <2>2. f.addr = "ours" /\ f.server # "other" /\ f.mac \in Mac
    BY <2>1 DEF ForUs, ExchangeInv, ClientInv, ClientTypeOK, Frame
  <2> QED  BY <2>1, <2>2 DEF ExchangeInv, ClientInv, OwnTransactionInv
<1> QED  BY <1>1, ExchangeInvariant, PTL

===============================================================================
