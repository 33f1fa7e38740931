---------------------------- MODULE DhcpExchange ----------------------------
(***************************************************************************)
(* The responder of DhcpResponder between real DHCP clients.  A client is  *)
(* not part of the repository: it is modelled from the frames the          *)
(* responder accepts and from the exchanges its tests play.  The segment   *)
(* keeps every frame ever sent, so that a frame or a reply may be lost     *)
(* (never delivered), repeated or overtaken.                               *)
(***************************************************************************)
EXTENDS DhcpResponder

VARIABLES
    cstate,    \* per client: "init", "selecting", "requesting", "elsewhere", "bound"
    cxid,      \* per client: the transaction it is in
    requests   \* every frame a client sent

clientVars == <<cstate, cxid, requests>>
exchangeVars == <<vars, clientVars>>

ExchangeInit ==
    /\ Init
    /\ cstate = [c \in Mac |-> "init"]
    /\ cxid = [c \in Mac |-> NoXid]
    /\ requests = {}

(* A client uses a transaction identifier once.                            *)
Fresh(c) == Xid \ {f.xid : f \in {g \in requests : g.mac = c}}

Send(c, kind, x, addr, server) ==
    requests' = requests \cup {[kind |-> kind, mac |-> c, xid |-> x,
                                addr |-> addr, server |-> server]}

Enter(c, state, x) ==
    /\ cstate' = [cstate EXCEPT ![c] = state]
    /\ cxid' = [cxid EXCEPT ![c] = x]

Discover(c) ==
    /\ cstate[c] = "init"
    /\ \E x \in Fresh(c) : /\ Send(c, "DISCOVER", x, "ours", "none")
                           /\ Enter(c, "selecting", x)
    /\ UNCHANGED vars

(* A client that remembers an address asks for it without a DISCOVER.      *)
Reboot(c) ==
    /\ cstate[c] = "init"
    /\ \E x \in Fresh(c), addr \in {"ours", "other"} :
         /\ Send(c, "REQUEST", x, addr, "none")
         /\ Enter(c, "requesting", x)
    /\ UNCHANGED vars

Heard(c, kind) == [kind |-> kind, mac |-> c, xid |-> cxid[c]] \in replies

TakeOffer(c) ==
    /\ cstate[c] = "selecting"
    /\ Heard(c, "OFFER")
    /\ Send(c, "REQUEST", cxid[c], "ours", "own")
    /\ Enter(c, "requesting", cxid[c])
    /\ UNCHANGED vars

(* Another server of the segment was faster; its REQUEST is broadcast too. *)
TakeForeignOffer(c) ==
    /\ cstate[c] = "selecting"
    /\ \E addr \in {"ours", "other"} : Send(c, "REQUEST", cxid[c], addr, "other")
    /\ Enter(c, "elsewhere", cxid[c])
    /\ UNCHANGED vars

TakeAck(c) ==
    /\ cstate[c] = "requesting"
    /\ Heard(c, "ACK")
    /\ Enter(c, "bound", cxid[c])
    /\ UNCHANGED <<vars, requests>>

(* The client's own timer: it starts over with another transaction.        *)
GiveUp(c) ==
    /\ cstate[c] \in {"selecting", "requesting"}
    /\ Enter(c, "init", NoXid)
    /\ UNCHANGED <<vars, requests>>

ClientStep == \E c \in Mac : \/ Discover(c) \/ Reboot(c) \/ TakeOffer(c)
                             \/ TakeForeignOffer(c) \/ TakeAck(c) \/ GiveUp(c)

(* The interface may change as well; AddressFlips is a step of the host.   *)
ResponderStep == (\E f \in requests : ServerStep(f)) \/ OtherStep \/ AddressFlips

ExchangeNext == \/ ClientStep
                \/ ResponderStep /\ UNCHANGED clientVars

ExchangeSpec == ExchangeInit /\ [][ExchangeNext]_exchangeVars

-----------------------------------------------------------------------------
(* The offered address is never in use twice: at most one client ever      *)
(* configures it, and only the one the responder is locked to, however     *)
(* many clients compete and however late their frames arrive.              *)
AtMostOneBound ==
    \A c \in Mac : cstate[c] = "bound" => acknowledged /\ c = clientMac

(* An ACK answers a REQUEST its client addressed to this server for this   *)
(* address; a client that settled with another server never obtains one    *)
(* in the transaction it settled.                                          *)
AckAnswersOwnRequest ==
    \A a \in Acks :
        /\ \E f \in requests : /\ f.kind = "REQUEST" /\ f.addr = "ours"
                               /\ f.server # "other"
                               /\ f.mac = a.mac /\ f.xid = a.xid
        /\ ~(cstate[a.mac] = "elsewhere" /\ cxid[a.mac] = a.xid)
=============================================================================
