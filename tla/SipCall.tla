-------------------------------- MODULE SipCall --------------------------------
(***************************************************************************)
(* SipBenchProxy and the telephone adapter that calls it.  The adapter is  *)
(* not in the repository: it is a SIP user agent client that places one    *)
(* call after another, acknowledges every final answer, and may cancel,    *)
(* hang up, repeat an INVITE or give up.  The wire is one queue in each    *)
(* direction.  A "quiet" wire delivers in order; on a "noisy" one up to    *)
(* Noise datagrams are lost, repeated behind later ones, or come from      *)
(* somebody else.                                                          *)
(***************************************************************************)
EXTENDS SipBenchProxy

CONSTANTS
    Uris,       \* what the phone dials, "extension" or "other"
    Noise,      \* bound: disturbances of a noisy wire
    QueueLimit  \* bound: datagrams under way to the server

ASSUME PhoneAssumption == Port # {} /\ Uris \subseteq {"extension", "other"}
ASSUME NoiseAssumption == Noise \in Nat /\ QueueLimit \in Nat \ {0}

VARIABLES
    wire,        \* "quiet" or "noisy"
    disturbed,   \* disturbances so far
    dialled,     \* the Call-IDs used
    phone,       \* "idle", "calling", "cancelling" or "up"
    current,     \* the call the phone is in, as a set
    acked,       \* the calls whose 200 the phone acknowledged
    toProxy,     \* datagrams under way to the server
    toPhone      \* final answers under way to the phone

phoneVars == <<dialled, phone, current, acked>>
netVars == <<wire, disturbed, toProxy, toPhone>>
callVars == <<proxyVars, phoneVars, netVars>>

CallInit ==
    /\ ProxyInit
    /\ wire \in {"quiet", "noisy"} /\ disturbed = 0
    /\ dialled = {} /\ phone = "idle" /\ current = {} /\ acked = {}
    /\ toProxy = <<>> /\ toPhone = <<>>

-----------------------------------------------------------------------------
Own == CHOOSE p \in Port : TRUE

Request(method, c) == [peer |-> <<"ata", Own>>, id |-> c.id, uri |-> c.uri,
                       method |-> method, sdp |-> c.sdp]

(* A step in which the server takes no part.                               *)
Elsewhere == UNCHANGED <<pc, now, wake, call>> /\ out' = <<>> /\ UNCHANGED wire

PhoneSends(requests) ==
    /\ Len(toProxy) < QueueLimit
    /\ toProxy' = toProxy \o requests
    /\ Elsewhere

Dial ==
    /\ phone = "idle"
    /\ \E c \in [id : CallId \ dialled, uri : Uris,
                 sdp : {"good", "missing"}] :
         /\ current' = {c}
         /\ dialled' = dialled \cup {c.id}
         /\ PhoneSends(<<Request("REGISTER", c), Request("INVITE", c)>>)
    /\ phone' = "calling"
    /\ UNCHANGED <<acked, disturbed, toPhone>>

(* The phone hangs up a call, or cancels one that is not answered.         *)
HangUp ==
    /\ phone = "up"
    /\ \E c \in current : PhoneSends(<<Request("BYE", c)>>)
    /\ phone' = "idle" /\ current' = {}
    /\ UNCHANGED <<dialled, acked, disturbed, toPhone>>

CancelCall ==
    /\ phone = "calling"
    /\ \E c \in current : PhoneSends(<<Request("CANCEL", c)>>)
    /\ phone' = "cancelling"
    /\ UNCHANGED <<dialled, current, acked, disturbed, toPhone>>

(* No answer yet: the INVITE again, or the end of the attempt.             *)
Repeat ==
    /\ wire = "noisy" /\ disturbed < Noise /\ disturbed' = disturbed + 1
    /\ phone = "calling"
    /\ \E c \in current : PhoneSends(<<Request("INVITE", c)>>)
    /\ UNCHANGED <<phoneVars, toPhone>>

GiveUp ==
    /\ wire = "noisy" /\ phone \in {"calling", "cancelling"}
    /\ phone' = "idle" /\ current' = {}
    /\ Elsewhere
    /\ UNCHANGED <<disturbed, toProxy, toPhone, dialled, acked>>

(* A final answer is acknowledged; a call that was being cancelled and is  *)
(* answered after all is ended at once.                                    *)
HearAnswer ==
    /\ toPhone # <<>> /\ toPhone' = Tail(toPhone)
    /\ \E c \in current :
         LET r == Head(toPhone) IN
         /\ r.id = c.id
         /\ IF r.kind = "200"
            THEN /\ acked' = acked \cup {c.id}
                 /\ IF phone = "cancelling"
                    THEN /\ phone' = "idle" /\ current' = {}
                         /\ PhoneSends(<<Request("ACK", c), Request("BYE", c)>>)
                    ELSE /\ phone' = "up" /\ UNCHANGED current
                         /\ PhoneSends(<<Request("ACK", c)>>)
            ELSE /\ phone' = "idle" /\ current' = {}
                 /\ PhoneSends(<<Request("ACK", c)>>)
                 /\ UNCHANGED acked
    /\ UNCHANGED <<dialled, disturbed>>

HearOther ==
    /\ toPhone # <<>> /\ toPhone' = Tail(toPhone)
    /\ \A c \in current : Head(toPhone).id # c.id
    /\ Elsewhere
    /\ UNCHANGED <<phoneVars, disturbed, toProxy>>

Hear == HearAnswer \/ HearOther

-----------------------------------------------------------------------------
(* The wire and the server.                                                *)

Disturb ==
    /\ wire = "noisy" /\ disturbed < Noise /\ disturbed' = disturbed + 1
    /\ \/ /\ toProxy # <<>>
          /\ \/ toProxy' = Tail(toProxy)
             \/ Len(toProxy) < QueueLimit /\ toProxy' = Append(toProxy, Head(toProxy))
          /\ UNCHANGED toPhone
       \/ toPhone # <<>> /\ toPhone' = Tail(toPhone) /\ UNCHANGED toProxy
    /\ Elsewhere
    /\ UNCHANGED phoneVars

(* Another port of the telephone's host, another host, and what is no SIP. *)
Strange == {d \in Datagram :
              /\ d.uri \in Uris
              /\ \/ d.method = "INVITE" /\ d.sdp # "missing" /\ d.peer # <<"ata", Own>>
                 \/ d.method = "BYE" /\ d.sdp = "good" /\ d.peer # <<"ata", Own>>
                 \/ d.method = "malformed" /\ d.sdp = "good" /\ d.peer = <<"ata", Own>>
              /\ d.peer[1] = "stranger" => d.peer[2] = Own}

Stray ==
    /\ wire = "noisy" /\ disturbed < Noise /\ disturbed' = disturbed + 1
    /\ Len(toProxy) < QueueLimit
    /\ \E d \in Strange : toProxy' = Append(toProxy, d)
    /\ Elsewhere
    /\ UNCHANGED <<phoneVars, toPhone>>

(* A final answer to an INVITE is the last packet of its step: the phone   *)
(* does nothing about the others.                                          *)
Answers ==
    LET last == out'[Len(out')] IN
    IF /\ out' # <<>> /\ last.peer = <<"ata", Own>>
       /\ last.kind \in {"200", "400", "486"}
    THEN <<last>> ELSE <<>>

ProxyReceives ==
    /\ toProxy # <<>>
    /\ Handle(Head(toProxy))
    /\ toProxy' = Tail(toProxy)
    /\ toPhone' = toPhone \o Answers
    /\ UNCHANGED <<phoneVars, wire, disturbed>>

(* On a quiet wire recvfrom returns the datagram that select reported.     *)
ProxyLoops ==
    /\ LoopStep
    /\ wire = "quiet" => pc # "recv"
    /\ UNCHANGED <<phoneVars, netVars>>

(* A readiness report of either socket: of a datagram that has come, or    *)
(* on a noisy wire of one whose checksum is wrong.                         *)
ProxyReads ==
    /\ SelectReady /\ (wire = "quiet" => toProxy # <<>>)
    /\ UNCHANGED <<phoneVars, netVars>>

ProxyWakes ==
    /\ RtpReceive /\ \E c \in call : c.ackd
    /\ UNCHANGED <<phoneVars, netVars>>

PassTime == Tick /\ UNCHANGED <<phoneVars, netVars>>

CallNext == \/ Dial \/ HangUp \/ CancelCall \/ Repeat \/ GiveUp \/ Hear
            \/ Disturb \/ Stray \/ ProxyReceives \/ ProxyLoops \/ ProxyReads \/ ProxyWakes
            \/ PassTime

(* The loop runs, a datagram under way arrives however often something     *)
(* else wakes the loop, and the phone reads its answers.  Nothing makes it *)
(* dial, cancel or hang up.                                                *)
CallSpec == /\ CallInit /\ [][CallNext]_callVars
            /\ WF_callVars(ProxyLoops) /\ SF_callVars(ProxyReads)
            /\ WF_callVars(ProxyReceives) /\ WF_callVars(Hear)

-----------------------------------------------------------------------------
(* On a quiet wire the two ends agree whenever nothing is under way: no    *)
(* call is left at the server when the phone is idle, also after a CANCEL  *)
(* that crossed the answer; a phone that is up is in the server's call, or *)
(* the server's limit has ended it; and a tone is streamed only in a call  *)
(* the phone has acknowledged, although the server counts any ACK.         *)
CallsAgree ==
    wire = "quiet" /\ pc # "raised" =>
        /\ \A c \in call : c.ackd => c.id \in acked
        /\ toProxy = <<>> /\ toPhone = <<>> =>
             /\ phone = "idle" => call = {}
             /\ phone = "up" => \A c \in call : c.ackd /\ \E k \in current : k.id = c.id

(* Whatever the wire does, a call in progress is left alone: a repeated    *)
(* INVITE, or one of another call, neither replaces it nor starts its time *)
(* again, and nothing but its limit, the end of the run or a BYE from its  *)
(* own peer ends it.                                                       *)
SameCall(c, k) == k.id = c.id /\ k.peer = c.peer /\ k.start = c.start /\ (c.ackd => k.ackd)
HearsByeOf(c) == toProxy # <<>> /\ Head(toProxy).method = "BYE" /\ Head(toProxy).peer = c.peer

CallKept ==
    [][/\ call # {} => \A k \in call' : \E c \in call : SameCall(c, k)
       /\ \A c \in call : \/ \E k \in call' : SameCall(c, k)
                          \/ now >= RunTime \/ Overdue(c) \/ HearsByeOf(c)]_callVars

(* On a quiet wire every attempt to call ends, unless the server does so   *)
(* first: with a call, a refusal, or an answer that comes after the CANCEL *)
(* was sent, which the server accepts without effect.                      *)
AttemptEnds ==
    wire = "quiet" /\ phone \in {"calling", "cancelling"}
        ~> phone \in {"up", "idle"} \/ pc \in {"stopped", "raised"}
=============================================================================
