---------------------------- MODULE SipBenchProxy ----------------------------
(***************************************************************************)
(* SipBenchProxy of telephony/sip_bench_proxy.py: a registrar and user     *)
(* agent server that answers one host, holds at most one call, and streams *)
(* a tone to the caller once an ACK came.  One tick is a frame of 20 ms.   *)
(*                                                                         *)
(* The environment is open: any datagram may be received while the server  *)
(* waits.  Handling is instantaneous: time passes in select, and in        *)
(* recvfrom after a readiness report with nothing behind it, because the   *)
(* SIP socket has a timeout of its own.  Received RTP only wakes the loop: *)
(* what it counts is only printed.                                         *)
(***************************************************************************)
EXTENDS Naturals, Sequences, FiniteSets

CONSTANTS
    CallId,       \* values of the Call-ID header
    Port,         \* UDP ports the peers use
    RunTime,      \* run_seconds, in ticks
    CallTime,     \* call_seconds, in ticks
    RecvTimeout,  \* settimeout of the SIP socket, in ticks
    ToneFrames,   \* frames of tone in the pattern
    Pattern,      \* frames in the pattern
    SendMayFail   \* whether sendto may raise

ASSUME TimesAssumption == /\ RunTime \in Nat /\ CallTime \in Nat /\ RecvTimeout \in Nat
                          /\ Pattern \in Nat \ {0} /\ ToneFrames \in 1 .. Pattern
                          /\ SendMayFail \in BOOLEAN

Peer == {"ata", "stranger"} \X Port

(* A datagram as handle_datagram tells it apart.  "malformed" is dropped   *)
(* by parse_message, "other" is a method without a handler.  An SDP body   *)
(* is good, lacks its audio or connection line, or has a port that is not  *)
(* a number.                                                               *)
Datagram == [peer : Peer, id : CallId, uri : {"extension", "other"},
             method : {"REGISTER", "INVITE", "ACK", "BYE", "CANCEL", "other", "malformed"},
             sdp : {"good", "missing", "badport"}]

(* A response carries the headers of its request, but the answers to BYE   *)
(* and CANCEL are "bare": they have neither Call-ID nor CSeq.              *)
Packet == [kind : {"100", "180", "200", "400", "486", "registered", "tone"},
           peer : Peer, id : CallId]
          \cup [kind : {"bare"}, peer : Peer]

Call == [id : CallId, peer : Peer, uri : {"extension", "other"}, start : Nat,
         lastTx : Nat, ackd : BOOLEAN, index : 0 .. Pattern - 1]

VARIABLES
    pc,    \* run(): "top", "wait" in select, "recv" in recvfrom, "stopped", "raised"
    now,   \* ticks since run() was called
    wake,  \* when the blocking call under way times out
    call,  \* self.call, as a set
    out    \* the packets sent by the last step, in order

proxyVars == <<pc, now, wake, call, out>>

ProxyInit ==
    /\ pc = "top"
    /\ now = 0 /\ wake = 0
    /\ call = {}
    /\ out = <<>>

-----------------------------------------------------------------------------
(* Packets go out one by one.  Nothing catches what sendto raises: it ends *)
(* run(), with the packets before it gone.                                 *)
Emit(packets, goOn) ==
    \/ out' = packets /\ pc' = goOn
    \/ /\ SendMayFail
       /\ \E n \in 0 .. Len(packets) - 1 : out' = SubSeq(packets, 1, n)
       /\ pc' = "raised"

Response(kind, d) == [kind |-> kind, peer |-> d.peer, id |-> d.id]
Bare(d) == [kind |-> "bare", peer |-> d.peer]

Receive(d) == pc = "recv" /\ UNCHANGED <<now, wake>>
Heard(d, method) == Receive(d) /\ d.peer[1] = "ata" /\ d.method = method

(* Another host, a malformed datagram or a method without handler.         *)
Drop(d) ==
    /\ Receive(d)
    /\ d.peer[1] # "ata" \/ d.method \in {"other", "malformed"}
    /\ pc' = "top" /\ out' = <<>>
    /\ UNCHANGED call

Register(d) ==
    /\ Heard(d, "REGISTER")
    /\ Emit(<<Response("registered", d)>>, "top")
    /\ UNCHANGED call

(* A repeated INVITE that is answered as if it were the first.             *)
InviteBusy_Restarts(d) ==
    /\ Heard(d, "INVITE") /\ call # {}
    /\ IF \E c \in call : c.id = d.id
         THEN call' = {[c EXCEPT !.start = now] : c \in call} /\ pc' = "top" /\ out' = <<>>
         ELSE Emit(<<Response("486", d)>>, "top") /\ UNCHANGED call

(* _handle_invite: busy, an SDP without target, one whose port int()       *)
(* refuses (only ProtocolError is caught), or a call.                      *)
InviteBusy(d) ==
    /\ Heard(d, "INVITE") /\ call # {}
    /\ Emit(<<Response("486", d)>>, "top")
    /\ UNCHANGED call

(* An SDP without target that is dropped like a malformed datagram.        *)
InviteRefused_Silent(d) ==
    /\ Heard(d, "INVITE") /\ call = {} /\ d.sdp = "missing"
    /\ pc' = "top" /\ out' = <<>>
    /\ UNCHANGED call

InviteRefused(d) ==
    /\ Heard(d, "INVITE") /\ call = {} /\ d.sdp = "missing"
    /\ Emit(<<Response("400", d)>>, "top")
    /\ UNCHANGED call

InviteRaises(d) ==
    /\ Heard(d, "INVITE") /\ call = {} /\ d.sdp = "badport"
    /\ pc' = "raised" /\ out' = <<>>
    /\ UNCHANGED call

NewCall(d) == [id |-> d.id, peer |-> d.peer, uri |-> d.uri, start |-> now,
               lastTx |-> now, ackd |-> FALSE, index |-> 0]

InviteAnswered(d) ==
    /\ Heard(d, "INVITE") /\ call = {} /\ d.sdp = "good"
    /\ call' = {NewCall(d)}
    /\ Emit(<<Response("100", d), Response("180", d), Response("200", d)>>, "top")

(* _handle_ack: any ACK, whatever call it names.                           *)
Ack(d) ==
    /\ Heard(d, "ACK")
    /\ call' = {[c EXCEPT !.ackd = TRUE] : c \in call}
    /\ pc' = "top" /\ out' = <<>>

(* A BYE that ends the call of anybody but its sender.                     *)
EndsCall_OtherPeer(c, d) == c.peer # d.peer

EndsCall(c, d) == c.peer = d.peer

(* _handle_bye: the answer goes first; then any BYE of the peer ends its   *)
(* call.                                                                   *)
Bye(d) ==
    /\ Heard(d, "BYE")
    /\ Emit(<<Bare(d)>>, "top")
    /\ call' = IF pc' = "raised" THEN call ELSE {c \in call : ~EndsCall(c, d)}

(* CANCEL is answered and has no effect.                                   *)
Cancel(d) ==
    /\ Heard(d, "CANCEL")
    /\ Emit(<<Bare(d)>>, "top")
    /\ UNCHANGED call

Handle(d) == \/ Drop(d) \/ Register(d) \/ Ack(d) \/ Bye(d) \/ Cancel(d)
             \/ InviteBusy(d) \/ InviteRefused(d) \/ InviteRaises(d) \/ InviteAnswered(d)

-----------------------------------------------------------------------------
(* The top of run().                                                       *)

(* The wait is one frame: what is left of the run is never less, because   *)
(* RunTime is a whole number of frames.                                    *)
EnterSelect == wake' = now + 1 /\ UNCHANGED now

(* A call limit that spares calls the peer has acknowledged.               *)
Overdue_Unacked(c) == now - c.start > CallTime /\ ~c.ackd

Overdue(c) == now - c.start > CallTime
FrameDue(c) == c.ackd /\ now >= c.lastTx + 1

Stop ==
    /\ pc = "top" /\ now >= RunTime
    /\ pc' = "stopped"
    /\ call' = {} /\ out' = <<>>
    /\ UNCHANGED <<now, wake>>

EndOverdue ==
    /\ pc = "top" /\ now < RunTime
    /\ \E c \in call : Overdue(c)
    /\ call' = {} /\ out' = <<>>
    /\ pc' = "wait"
    /\ EnterSelect

NextFrame(c) == [c EXCEPT !.lastTx = now, !.index = (@ + 1) % Pattern]

(* _rtp_tick: a frame of tone, or one of silence that sends nothing.       *)
StreamFrame ==
    /\ pc = "top" /\ now < RunTime
    /\ \E c \in call :
         /\ ~Overdue(c) /\ FrameDue(c)
         /\ call' = {NextFrame(c)}
         /\ IF c.index < ToneFrames
            THEN Emit(<<[kind |-> "tone", peer |-> c.peer, id |-> c.id]>>, "wait")
            ELSE out' = <<>> /\ pc' = "wait"
    /\ EnterSelect

Pass ==
    /\ pc = "top" /\ now < RunTime
    /\ \A c \in call : ~Overdue(c) /\ ~FrameDue(c)
    /\ pc' = "wait" /\ out' = <<>>
    /\ UNCHANGED call
    /\ EnterSelect

SelectTimeout ==
    /\ pc = "wait" /\ now >= wake
    /\ pc' = "top" /\ out' = <<>>
    /\ UNCHANGED <<now, wake, call>>

(* The RTP socket is drained; the SIP socket has nothing.                  *)
RtpReceive ==
    /\ pc = "wait"
    /\ pc' = "top" /\ out' = <<>>
    /\ UNCHANGED <<now, wake, call>>

SelectReady ==
    /\ pc = "wait"
    /\ pc' = "recv" /\ out' = <<>>
    /\ wake' = now + RecvTimeout
    /\ UNCHANGED <<now, call>>

(* Nothing was behind the readiness report, and recvfrom timed out.        *)
RecvFails ==
    /\ pc = "recv" /\ now >= wake
    /\ pc' = "top" /\ out' = <<>>
    /\ UNCHANGED <<now, wake, call>>

Tick ==
    /\ pc \in {"wait", "recv"} /\ now < wake
    /\ now' = now + 1
    /\ out' = <<>>
    /\ UNCHANGED <<pc, wake, call>>

LoopStep == Stop \/ EndOverdue \/ StreamFrame \/ Pass \/ SelectTimeout \/ RecvFails

ProxyNext == (\E d \in Datagram : Handle(d)) \/ LoopStep \/ RtpReceive \/ SelectReady \/ Tick

ProxySpec == ProxyInit /\ [][ProxyNext]_proxyVars

-----------------------------------------------------------------------------
ProxyTypeOK ==
    /\ pc \in {"top", "wait", "recv", "stopped", "raised"}
    /\ now \in Nat /\ wake \in Nat
    /\ call \in SUBSET Call
    /\ out \in Seq(Packet)

(* "One dialog at a time, bounded call time and bounded run time": no call *)
(* lives longer than its limit, and run() not longer than its own, but for *)
(* the frame and the recvfrom in which the loop may be waiting at the      *)
(* time, whatever the peer sends to keep it busy.                          *)
TimeBounded ==
    /\ Cardinality(call) <= 1
    /\ \A c \in call : now - c.start <= CallTime + 1 + RecvTimeout
    /\ now <= RunTime + RecvTimeout

(* The docstring of the module: "INVITE to a fixed extension".  The server *)
(* never compares the request URI with its extension.                      *)
OnlyExtensionAnswered == \A c \in call : c.uri = "extension"
=============================================================================
