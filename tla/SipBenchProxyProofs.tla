------------------------- MODULE SipBenchProxyProofs -------------------------
(***************************************************************************)
(* The bounds on the call and on run() for all durations, ports, Call-IDs  *)
(* and datagrams: first for the server on its own, whose environment may   *)
(* send anything at any time, then with the telephone adapter.             *)
(***************************************************************************)
EXTENDS SipCall, FiniteSetTheorems, TLAPS

(* One call, which began in the past.                                      *)
CallInv ==
    /\ call \in SUBSET Call
    /\ \A c, d \in call : c = d
    /\ \A c \in call : c.start <= now

(* A moment the loop may have reached with the calls it holds, if it began *)
(* its wait in time and then spent up to "extra" in recvfrom.              *)
InTime(t, extra) ==
    /\ t <= RunTime + extra
    /\ \A c \in call : t <= c.start + CallTime + 1 + extra

(* The clock never passes the timeout of the blocking call, and that       *)
(* timeout was set in time.                                                *)
ClockInv ==
    /\ pc \in {"top", "wait", "recv", "stopped", "raised"}
    /\ now \in Nat /\ wake \in Nat
    /\ InTime(now, RecvTimeout)
    /\ pc = "wait" => now <= wake /\ InTime(wake, 0)
    /\ pc = "recv" => now <= wake /\ InTime(wake, RecvTimeout)

ProxyInv == CallInv /\ ClockInv

-----------------------------------------------------------------------------
LEMMA InitBounded == ProxyInit => ProxyInv
  BY TimesAssumption DEF ProxyInit, ProxyInv, CallInv, ClockInv, InTime

(* A packet sequence goes out and the loop continues, or the loop ends.    *)
LEMMA EmitEnds ==
  ASSUME NEW packets, NEW goOn, Emit(packets, goOn)
  PROVE  pc' \in {goOn, "raised"}
  BY DEF Emit

(* Once a datagram is handled the loop is at its top or ended; the clock   *)
(* stood still.                                                            *)
LEMMA HandledAtOnce ==
  ASSUME NEW d \in Datagram, Handle(d)
  PROVE  /\ pc = "recv" /\ pc' \in {"top", "raised"}
         /\ UNCHANGED <<now, wake>>
  BY EmitEnds DEF Handle, Drop, Register, Ack, Bye, Cancel, InviteBusy, InviteRefused,
                  InviteRaises, InviteAnswered, Heard, Receive

(* What a datagram can do to the call.                                     *)
LEMMA HandledCall ==
  ASSUME NEW d \in Datagram, Handle(d)
  PROVE  \/ call' \subseteq call
         \/ call' = {[c EXCEPT !.ackd = TRUE] : c \in call}
         \/ call = {} /\ call' = {NewCall(d)}
  BY DEF Handle, Drop, Register, Ack, Bye, Cancel, InviteBusy, InviteRefused,
         InviteRaises, InviteAnswered

(* A datagram neither makes a second call nor an older one.                *)
LEMMA HandleBounded ==
  ASSUME ProxyInv, NEW d \in Datagram, Handle(d)
  PROVE  ProxyInv'
<1>1. /\ pc = "recv" /\ pc' \in {"top", "raised"}
      /\ now' = now /\ wake' = wake
  BY HandledAtOnce
<1>2. /\ call \in SUBSET Call /\ now \in Nat /\ wake \in Nat
      /\ \A c \in call : c.start \in Nat
  BY DEF ProxyInv, CallInv, ClockInv, Call
<1>3. CASE call' \subseteq call
  BY <1>1, <1>2, <1>3 DEF ProxyInv, CallInv, ClockInv, InTime
<1>4. CASE call' = {[c EXCEPT !.ackd = TRUE] : c \in call}
  <2>1. \A c \in call : /\ [c EXCEPT !.ackd = TRUE] \in Call
                        /\ [c EXCEPT !.ackd = TRUE].start = c.start
    BY <1>2 DEF Call
  <2> QED
    BY <1>1, <1>2, <1>4, <2>1 DEF ProxyInv, CallInv, ClockInv, InTime
<1>5. CASE call = {} /\ call' = {NewCall(d)}
  <2>1. NewCall(d) \in Call /\ NewCall(d).start = now
    BY <1>2, TimesAssumption DEF NewCall, Call, Datagram
  <2> QED
    BY <1>1, <1>2, <1>5, <2>1, TimesAssumption DEF ProxyInv, CallInv, ClockInv, InTime
<1> QED
  BY <1>3, <1>4, <1>5, HandledCall

(* A frame leaves the age of the call as it was.                           *)
LEMMA NextFrameCall ==
  ASSUME NEW c \in Call, now \in Nat
  PROVE  NextFrame(c) \in Call /\ NextFrame(c).start = c.start
<1>1. (c.index + 1) % Pattern \in 0 .. Pattern - 1
  BY TimesAssumption DEF Call
<1> QED
  BY <1>1 DEF NextFrame, Call

(* The top of the loop waits only for a call that is not overdue.          *)
LEMMA LoopBounded ==
  ASSUME ProxyInv, LoopStep
  PROVE  ProxyInv'
<1>1. /\ call \in SUBSET Call /\ now \in Nat /\ wake \in Nat
      /\ \A c \in call : c.start \in Nat
      /\ RunTime \in Nat /\ CallTime \in Nat /\ RecvTimeout \in Nat
  BY TimesAssumption DEF ProxyInv, CallInv, ClockInv, Call
<1>2. CASE Stop
  BY <1>1, <1>2 DEF Stop, ProxyInv, CallInv, ClockInv, InTime
<1>3. CASE EndOverdue
  BY <1>1, <1>3 DEF EndOverdue, EnterSelect, ProxyInv, CallInv, ClockInv, InTime
<1>4. CASE StreamFrame
  <2>1. PICK c \in call : ~Overdue(c) /\ call' = {NextFrame(c)}
    BY <1>4 DEF StreamFrame
  <2>2. /\ pc = "top" /\ pc' \in {"wait", "raised"} /\ now < RunTime
        /\ wake' = now + 1 /\ now' = now
    BY <1>4, EmitEnds DEF StreamFrame, EnterSelect
  <2>3. NextFrame(c) \in Call /\ NextFrame(c).start = c.start
    BY <1>1, <2>1, NextFrameCall
  <2>4. now - c.start <= CallTime
    BY <1>1, <2>1 DEF Overdue
  <2> QED
    BY <1>1, <2>1, <2>2, <2>3, <2>4 DEF ProxyInv, CallInv, ClockInv, InTime
<1>5. CASE Pass
  BY <1>1, <1>5 DEF Pass, Overdue, EnterSelect, ProxyInv, CallInv, ClockInv, InTime
<1>6. CASE SelectTimeout \/ RecvFails
  BY <1>1, <1>6 DEF SelectTimeout, RecvFails, ProxyInv, CallInv, ClockInv, InTime
<1> QED
  BY <1>2, <1>3, <1>4, <1>5, <1>6 DEF LoopStep

LEMMA WaitBounded ==
  ASSUME ProxyInv, RtpReceive \/ SelectReady \/ Tick
  PROVE  ProxyInv'
<1>1. /\ call \in SUBSET Call /\ now \in Nat /\ wake \in Nat
      /\ \A c \in call : c.start \in Nat
      /\ RunTime \in Nat /\ CallTime \in Nat /\ RecvTimeout \in Nat
  BY TimesAssumption DEF ProxyInv, CallInv, ClockInv, Call
<1> QED
  BY <1>1 DEF RtpReceive, SelectReady, Tick, ProxyInv, CallInv, ClockInv, InTime

(* The invariant names neither the packets sent nor the wire, so a step in *)
(* which the server takes no part keeps it.                                *)
LEMMA AsideBounded ==
  ASSUME ProxyInv, UNCHANGED <<pc, now, wake, call>>
  PROVE  ProxyInv'
  BY DEF ProxyInv, CallInv, ClockInv, InTime

LEMMA StepBounded ==
  ASSUME ProxyInv, ProxyNext
  PROVE  ProxyInv'
  BY HandleBounded, LoopBounded, WaitBounded DEF ProxyNext

LEMMA BoundedMeans == ProxyInv => TimeBounded
<1> SUFFICES ASSUME ProxyInv PROVE TimeBounded
  OBVIOUS
<1>1. Cardinality(call) <= 1
  <2>1. CASE call = {}
    BY <2>1, FS_EmptySet
  <2>2. CASE call # {}
    <3>1. PICK c \in call : call = {c}
      BY <2>2 DEF ProxyInv, CallInv
    <3>2. Cardinality({c}) = 1
      BY FS_Singleton
    <3> QED
      BY <3>1, <3>2
  <2> QED
    BY <2>1, <2>2
<1>2. \A c \in call : c.start \in Nat
  BY DEF ProxyInv, CallInv, Call
<1> QED
  BY <1>1, <1>2, TimesAssumption DEF TimeBounded, ProxyInv, ClockInv, InTime

-----------------------------------------------------------------------------
(* At most one call, ended a frame and a recvfrom after its limit at the   *)
(* latest, and a run that ends a recvfrom after its own: for any datagrams *)
(* from anybody, in any order, at any time.                                *)
THEOREM BenchIsBounded == ProxySpec => []TimeBounded
<1>1. ProxyInv /\ [ProxyNext]_proxyVars => ProxyInv'
  BY StepBounded, AsideBounded DEF proxyVars
<1> QED
  BY InitBounded, <1>1, BoundedMeans, PTL DEF ProxySpec

(* What is under way to the server, and what the phone is in, is typed.    *)
WireInv ==
    /\ toProxy \in Seq(Datagram)
    /\ current \subseteq [id : CallId, uri : {"extension", "other"}, sdp : {"good", "missing"}]

LEMMA RequestType ==
  ASSUME NEW c \in [id : CallId, uri : {"extension", "other"}, sdp : {"good", "missing"}],
         NEW method \in {"REGISTER", "INVITE", "ACK", "BYE", "CANCEL"}
  PROVE  Request(method, c) \in Datagram
<1>1. Own \in Port
  BY PhoneAssumption DEF Own
<1> QED
  BY <1>1 DEF Request, Datagram, Peer

LEMMA WireStep ==
  ASSUME WireInv, CallNext
  PROVE  WireInv'
<1> DEFINE Typed == [id : CallId, uri : {"extension", "other"}, sdp : {"good", "missing"}]
<1> USE DEF WireInv
<1>1. CASE Dial
  <2>1. PICK c \in Typed : /\ current' = {c}
                           /\ PhoneSends(<<Request("REGISTER", c), Request("INVITE", c)>>)
    BY <1>1, PhoneAssumption DEF Dial
  <2>2. Request("REGISTER", c) \in Datagram /\ Request("INVITE", c) \in Datagram
    BY RequestType
  <2>3. toProxy' = toProxy \o <<Request("REGISTER", c), Request("INVITE", c)>>
    BY <2>1 DEF PhoneSends
  <2> QED
    BY <2>1, <2>2, <2>3
<1>2. CASE HangUp \/ CancelCall \/ Repeat
  <2>1. PICK c \in current, m \in {"BYE", "CANCEL", "INVITE"} : PhoneSends(<<Request(m, c)>>)
    BY <1>2 DEF HangUp, CancelCall, Repeat
  <2>2. Request(m, c) \in Datagram
    BY <2>1, RequestType
  <2>3. toProxy' = toProxy \o <<Request(m, c)>>
    BY <2>1 DEF PhoneSends
  <2>4. current' \subseteq current
    BY <1>2 DEF HangUp, CancelCall, Repeat, phoneVars
  <2> QED
    BY <2>2, <2>3, <2>4
<1>3. CASE HearAnswer
  <2>1. PICK c \in current :
           \/ PhoneSends(<<Request("ACK", c), Request("BYE", c)>>)
           \/ PhoneSends(<<Request("ACK", c)>>)
    BY <1>3 DEF HearAnswer
  <2>2. Request("ACK", c) \in Datagram /\ Request("BYE", c) \in Datagram
    BY <2>1, RequestType
  <2>3. \/ toProxy' = toProxy \o <<Request("ACK", c), Request("BYE", c)>>
        \/ toProxy' = toProxy \o <<Request("ACK", c)>>
    BY <2>1 DEF PhoneSends
  <2>4. current' \subseteq current
    BY <1>3 DEF HearAnswer
  <2>5. toProxy' \in Seq(Datagram)
    <3>1. CASE toProxy' = toProxy \o <<Request("ACK", c), Request("BYE", c)>>
      BY <2>2, <3>1
    <3>2. CASE toProxy' = toProxy \o <<Request("ACK", c)>>
      BY <2>2, <3>2
    <3> QED
      BY <2>3, <3>1, <3>2
  <2> QED
    BY <2>4, <2>5
<1>4. CASE Stray
  <2>1. PICK d \in Datagram : toProxy' = Append(toProxy, d)
    BY <1>4 DEF Stray, Strange
  <2> QED
    BY <1>4, <2>1 DEF Stray, phoneVars
<1>5. CASE Disturb
  <2>1. current' = current
    BY <1>5 DEF Disturb, phoneVars
  <2>2. toProxy' \in Seq(Datagram)
    BY <1>5 DEF Disturb
  <2> QED
    BY <2>1, <2>2
<1>6. CASE ProxyReceives
  BY <1>6 DEF ProxyReceives, phoneVars
<1>7. CASE GiveUp \/ HearOther
  BY <1>7 DEF GiveUp, HearOther, phoneVars
<1>8. CASE ProxyLoops \/ ProxyReads \/ ProxyWakes \/ PassTime
  BY <1>8 DEF ProxyLoops, ProxyReads, ProxyWakes, PassTime, phoneVars, netVars
<1> QED
  BY <1>1, <1>2, <1>3, <1>4, <1>5, <1>6, <1>7, <1>8 DEF CallNext, Hear

LEMMA CallBounded ==
  ASSUME ProxyInv, WireInv, [CallNext]_callVars
  PROVE  ProxyInv' /\ WireInv'
<1>1. ProxyInv'
  <2>1. CASE ProxyReceives
    <3>1. Head(toProxy) \in Datagram /\ Handle(Head(toProxy))
      BY <2>1 DEF ProxyReceives, WireInv
    <3> QED
      BY <3>1, HandleBounded
  <2>2. CASE ProxyLoops \/ ProxyReads \/ ProxyWakes \/ PassTime
    BY <2>2, LoopBounded, WaitBounded DEF ProxyLoops, ProxyReads, ProxyWakes, PassTime
  <2>3. CASE Dial \/ HangUp \/ CancelCall \/ Repeat \/ GiveUp \/ Hear \/ Disturb \/ Stray
    <3>1. UNCHANGED <<pc, now, wake, call>>
      BY <2>3 DEF Dial, HangUp, CancelCall, Repeat, GiveUp, Hear, HearAnswer, HearOther,
                  Disturb, Stray, PhoneSends, Elsewhere
    <3> QED
      BY <3>1, AsideBounded
  <2>4. CASE UNCHANGED callVars
    BY <2>4, AsideBounded DEF callVars, proxyVars
  <2> QED
    BY <2>1, <2>2, <2>3, <2>4 DEF CallNext
<1>2. WireInv'
  BY WireStep DEF callVars, phoneVars, netVars, WireInv
<1> QED
  BY <1>1, <1>2

(* The same beside a telephone adapter and any wire.                       *)
THEOREM CallIsBounded == CallSpec => []TimeBounded
<1>1. CallInit => ProxyInv /\ WireInv
  BY InitBounded DEF CallInit, WireInv
<1>2. ProxyInv /\ WireInv /\ [CallNext]_callVars => ProxyInv' /\ WireInv'
  BY CallBounded
<1> QED
  BY <1>1, <1>2, BoundedMeans, PTL DEF CallSpec

-----------------------------------------------------------------------------
(* A call in progress: what one step leaves of it.                         *)
Kept ==
    /\ call # {} => \A k \in call' : \E c \in call : SameCall(c, k)
    /\ \A c \in call : \/ \E k \in call' : SameCall(c, k)
                       \/ now >= RunTime \/ Overdue(c) \/ HearsByeOf(c)

LEMMA SameIsKept ==
  ASSUME call' = call
  PROVE  Kept
<1>1. \A c \in call : SameCall(c, c)
  BY DEF SameCall
<1> QED
  BY <1>1 DEF Kept

LEMMA ReceivingKeeps ==
  ASSUME ProxyInv, ProxyReceives
  PROVE  Kept
<1> DEFINE d == Head(toProxy)
<1>1. Handle(d) /\ toProxy # <<>>
  BY DEF ProxyReceives
<1>2. \A c \in call : c \in Call
  BY DEF ProxyInv, CallInv
<1>3. CASE Drop(d) \/ Register(d) \/ Cancel(d) \/ InviteBusy(d) \/ InviteRefused(d) \/ InviteRaises(d)
  <2>1. call' = call
    BY <1>3 DEF Drop, Register, Cancel, InviteBusy, InviteRefused, InviteRaises
  <2> QED
    BY <2>1, SameIsKept
<1>4. CASE Ack(d)
  <2>1. call' = {[c EXCEPT !.ackd = TRUE] : c \in call}
    BY <1>4 DEF Ack
  <2>2. \A c \in call : SameCall(c, [c EXCEPT !.ackd = TRUE])
    BY <1>2 DEF SameCall, Call
  <2> QED
    BY <2>1, <2>2 DEF Kept
<1>5. CASE Bye(d)
  <2>1. call' \subseteq call /\ \A c \in call \ call' : c.peer = d.peer
    BY <1>5 DEF Bye, EndsCall
  <2>2. d.method = "BYE"
    BY <1>5 DEF Bye, Heard
  <2>3. \A c \in call \ call' : HearsByeOf(c)
    BY <1>1, <2>1, <2>2 DEF HearsByeOf
  <2>4. \A c \in call : SameCall(c, c)
    BY DEF SameCall
  <2> QED
    BY <2>1, <2>3, <2>4 DEF Kept
<1>6. CASE InviteAnswered(d)
  <2>1. call = {}
    BY <1>6 DEF InviteAnswered
  <2> QED
    BY <2>1 DEF Kept
<1> QED
  BY <1>1, <1>3, <1>4, <1>5, <1>6 DEF Handle

LEMMA LoopingKeeps ==
  ASSUME ProxyInv, LoopStep
  PROVE  Kept
<1>1. call \in SUBSET Call /\ \A c, e \in call : c = e
  BY DEF ProxyInv, CallInv
<1>2. CASE Stop
  <2>1. call' = {} /\ now >= RunTime
    BY <1>2 DEF Stop
  <2> QED
    BY <2>1 DEF Kept
<1>3. CASE EndOverdue
  <2>1. call' = {} /\ \E c \in call : Overdue(c)
    BY <1>3 DEF EndOverdue
  <2>2. \A c \in call : Overdue(c)
    BY <1>1, <2>1
  <2> QED
    BY <2>1, <2>2 DEF Kept
<1>4. CASE StreamFrame
  <2>1. PICK c \in call : call' = {NextFrame(c)}
    BY <1>4 DEF StreamFrame
  <2>2. \A e \in call : e = c
    BY <1>1, <2>1
  <2>3. SameCall(c, NextFrame(c))
    BY <1>1, <2>1 DEF SameCall, NextFrame, Call
  <2>4. \A e \in call : SameCall(e, NextFrame(c))
    BY <2>2, <2>3
  <2> QED
    BY <2>1, <2>4 DEF Kept
<1>5. CASE Pass \/ SelectTimeout \/ RecvFails
  <2>1. call' = call
    BY <1>5 DEF Pass, SelectTimeout, RecvFails
  <2> QED
    BY <2>1, SameIsKept
<1> QED
  BY <1>2, <1>3, <1>4, <1>5 DEF LoopStep

LEMMA StepKeeps ==
  ASSUME ProxyInv, CallNext
  PROVE  Kept
<1>1. CASE ProxyReceives
  BY <1>1, ReceivingKeeps
<1>2. CASE ProxyLoops
  BY <1>2, LoopingKeeps DEF ProxyLoops
<1>3. CASE ProxyReads \/ ProxyWakes \/ PassTime
  <2>1. call' = call
    BY <1>3 DEF ProxyReads, ProxyWakes, PassTime, SelectReady, RtpReceive, Tick
  <2> QED
    BY <2>1, SameIsKept
<1>4. CASE Dial \/ HangUp \/ CancelCall \/ Repeat \/ GiveUp \/ Hear \/ Disturb \/ Stray
  <2>1. call' = call
    BY <1>4 DEF Dial, HangUp, CancelCall, Repeat, GiveUp, Hear, HearAnswer, HearOther,
                Disturb, Stray, PhoneSends, Elsewhere
  <2> QED
    BY <2>1, SameIsKept
<1> QED
  BY <1>1, <1>2, <1>3, <1>4 DEF CallNext

(* For any durations, Call-IDs and datagrams of anybody: a call in         *)
(* progress keeps its caller and its start whatever arrives, and only its  *)
(* limit, the end of the run or a BYE of its own peer ends it.             *)
THEOREM CallIsKept == CallSpec => CallKept
<1>1. CallInit => ProxyInv /\ WireInv
  BY InitBounded DEF CallInit, WireInv
<1>2. ProxyInv /\ WireInv /\ [CallNext]_callVars => ProxyInv' /\ WireInv'
  BY CallBounded
<1>3. ProxyInv /\ [CallNext]_callVars => [Kept]_callVars
  BY StepKeeps
<1>4. CallKept <=> [][Kept]_callVars
  BY DEF CallKept, Kept
<1> QED
  BY <1>1, <1>2, <1>3, <1>4, PTL DEF CallSpec

-----------------------------------------------------------------------------
(* The two ends on a quiet wire.  What is under way to the server tells    *)
(* how they may disagree: an INVITE is the last thing the phone asked but  *)
(* for a CANCEL, and whatever an earlier call left at the server goes with *)
(* a BYE that is ahead of it.                                              *)
Asked(q, m) == \E i \in 1 .. Len(q) : q[i].method = m

(* The queue q of a phone that is in the calls ks.                         *)
InTurn(q, ks) ==
    /\ \A i \in 1 .. Len(q) : q[i].peer = <<"ata", Own>>
    /\ \A i, j \in 1 .. Len(q) : i < j /\ q[i].method = "INVITE" => q[j].method = "CANCEL"
    /\ \A i \in 1 .. Len(q) : q[i].method = "INVITE" => \A k \in ks : q[i].id = k.id

Waiting == phone \in {"calling", "cancelling"}

(* The phone is in no call, or its INVITE has not arrived.                 *)
LeavingInv(q) ==
    /\ toPhone = <<>>
    /\ call = {} \/ Asked(q, "BYE")
    /\ \A c \in call : c.id \in acked

(* Its INVITE was answered, and it does not know.                          *)
AnsweredInv(q) ==
    /\ \E kind \in {"200", "400"}, id \in CallId :
         /\ toPhone = <<[kind |-> kind, peer |-> <<"ata", Own>>, id |-> id]>>
         /\ \A k \in current : k.id = id
         /\ kind = "400" => call = {}
    /\ \A c \in call : ~c.ackd /\ \A k \in current : c.id = k.id
    /\ \A i \in 1 .. Len(q) : q[i].method = "CANCEL"

UpInv(q) ==
    /\ toPhone = <<>>
    /\ ~Asked(q, "BYE")
    /\ \A k \in current : k.id \in acked /\ \A c \in call : c.id = k.id
    /\ \A c \in call : c.ackd \/ Asked(q, "ACK")

PhoneInv(q) ==
    /\ phone \in {"idle", "calling", "cancelling", "up"}
    /\ phone = "idle" <=> current = {}
    /\ \A k, l \in current : k = l
    /\ Asked(q, "INVITE") => Waiting
    /\ phone = "idle" \/ Asked(q, "INVITE") => LeavingInv(q)
    /\ Waiting /\ ~Asked(q, "INVITE") => AnsweredInv(q)
    /\ phone = "up" => UpInv(q)

BothEnds ==
    /\ InTurn(toProxy, current)
    /\ \A c \in call : c.peer = <<"ata", Own>> /\ (c.ackd => c.id \in acked)
    /\ PhoneInv(toProxy)

AgreeInv == wire = "quiet" /\ pc # "raised" => BothEnds

(* The head of a queue is handled.                                         *)
LEMMA QueueRest ==
  ASSUME NEW q \in Seq(Datagram), q # <<>>, NEW ks, InTurn(q, ks)
  PROVE  /\ Head(q) \in Datagram /\ Head(q).peer = <<"ata", Own>>
         /\ Asked(q, Head(q).method)
         /\ Head(q).method = "INVITE" =>
               /\ \A k \in ks : Head(q).id = k.id
               /\ \A i \in 1 .. Len(Tail(q)) : Tail(q)[i].method = "CANCEL"
         /\ InTurn(Tail(q), ks)
         /\ \A m : Asked(Tail(q), m) => Asked(q, m)
         /\ \A m : Asked(q, m) => Head(q).method = m \/ Asked(Tail(q), m)
<1>1. /\ Len(q) \in Nat \ {0} /\ Head(q) = q[1] /\ Head(q) \in Datagram
      /\ Len(Tail(q)) = Len(q) - 1
      /\ \A i \in 1 .. Len(q) - 1 : Tail(q)[i] = q[i + 1]
  OBVIOUS
<1>2. \A i \in 1 .. Len(Tail(q)) : i + 1 \in 1 .. Len(q) /\ Tail(q)[i] = q[i + 1] /\ 1 < i + 1
  BY <1>1
<1>3. 1 \in 1 .. Len(q)
  BY <1>1
<1>4. Head(q).peer = <<"ata", Own>> /\ Asked(q, Head(q).method)
  BY <1>1, <1>3 DEF InTurn, Asked
<1>5. ASSUME Head(q).method = "INVITE"
      PROVE  /\ \A k \in ks : Head(q).id = k.id
             /\ \A i \in 1 .. Len(Tail(q)) : Tail(q)[i].method = "CANCEL"
  BY <1>1, <1>2, <1>3, <1>5 DEF InTurn
<1>6. InTurn(Tail(q), ks)
  <2>1. \A i, j \in 1 .. Len(Tail(q)) : i < j => i + 1 < j + 1
    BY <1>1
  <2> QED  BY <1>2, <2>1 DEF InTurn
<1>7. \A m : Asked(Tail(q), m) => Asked(q, m)
  BY <1>2 DEF Asked
<1>8. \A m : Asked(q, m) => Head(q).method = m \/ Asked(Tail(q), m)
  <2> SUFFICES ASSUME NEW i \in 1 .. Len(q), i # 1
               PROVE  \E j \in 1 .. Len(Tail(q)) : Tail(q)[j] = q[i]
    BY <1>1 DEF Asked
  <2>1. i - 1 \in 1 .. Len(q) - 1 /\ (i - 1) + 1 = i
    BY <1>1
  <2>2. Tail(q)[i - 1] = q[i]
    BY <1>1, <2>1
  <2> QED  BY <1>1, <2>1, <2>2
<1> QED  BY <1>1, <1>4, <1>5, <1>6, <1>7, <1>8

(* The phone adds a request.                                               *)
LEMMA QueueMore ==
  ASSUME NEW q \in Seq(Datagram), NEW ks, InTurn(q, ks), NEW d \in Datagram,
         d.peer = <<"ata", Own>>, Asked(q, "INVITE") => d.method = "CANCEL",
         d.method = "INVITE" => \A k \in ks : d.id = k.id
  PROVE  /\ q \o <<d>> \in Seq(Datagram)
         /\ InTurn(q \o <<d>>, ks)
         /\ \A m : Asked(q \o <<d>>, m) <=> Asked(q, m) \/ m = d.method
<1> DEFINE r == q \o <<d>>
<1>0. /\ <<d>> \in Seq(Datagram) /\ Len(<<d>>) = 1 /\ <<d>>[1] = d
      /\ r \in Seq(Datagram) /\ Len(r) = Len(q) + Len(<<d>>) /\ Len(q) \in Nat
  OBVIOUS
<1>1. /\ r \in Seq(Datagram) /\ Len(r) = Len(q) + 1 /\ Len(q) \in Nat
      /\ \A i \in 1 .. Len(q) : r[i] = q[i]
      /\ r[Len(q) + 1] = d
  <2>1. \A i \in 1 .. Len(q) + Len(<<d>>) :
           r[i] = IF i <= Len(q) THEN q[i] ELSE <<d>>[i - Len(q)]
    BY <1>0
  <2>2. Len(q) + 1 \in 1 .. Len(q) + Len(<<d>>) /\ (Len(q) + 1) - Len(q) = 1
    BY <1>0
  <2>3. r[Len(q) + 1] = <<d>>[1]
    BY <1>0, <2>1, <2>2
  <2>4. \A i \in 1 .. Len(q) : i \in 1 .. Len(q) + Len(<<d>>) /\ i <= Len(q)
    BY <1>0
  <2>5. \A i \in 1 .. Len(q) : r[i] = q[i]
    BY <2>1, <2>4
  <2> QED  BY <1>0, <2>3, <2>5
<1> HIDE DEF r
<1>2. \A i \in 1 .. Len(r) : \/ i \in 1 .. Len(q) /\ r[i] = q[i]
                             \/ i = Len(q) + 1 /\ r[i] = d
  BY <1>1
<1>3. \A i \in 1 .. Len(q) : i \in 1 .. Len(r) /\ r[i] = q[i] /\ i < Len(q) + 1
  BY <1>1
<1>4. Len(q) + 1 \in 1 .. Len(r) /\ r[Len(q) + 1] = d
  BY <1>1
<1>5. ASSUME NEW i \in 1 .. Len(r), NEW j \in 1 .. Len(r), i < j, r[i].method = "INVITE"
      PROVE  r[j].method = "CANCEL"
  <2>1. i \in 1 .. Len(q) /\ r[i] = q[i]
    BY <1>1, <1>2, <1>5
  <2>2. CASE j \in 1 .. Len(q) /\ r[j] = q[j]
    BY <1>5, <2>1, <2>2 DEF InTurn
  <2>3. CASE r[j] = d
    BY <1>5, <2>1, <2>3 DEF Asked
  <2> QED  BY <1>2, <2>2, <2>3
<1>6. InTurn(r, ks)
  BY <1>2, <1>5 DEF InTurn
<1>7. \A m : Asked(r, m) <=> Asked(q, m) \/ m = d.method
  BY <1>2, <1>3, <1>4 DEF Asked
<1> QED  BY <1>1, <1>6, <1>7 DEF r

LEMMA DialAgrees ==
  ASSUME BothEnds, WireInv, Dial
  PROVE  BothEnds'
<1>1. PICK c \in [id : CallId, uri : {"extension", "other"}, sdp : {"good", "missing"}] :
         /\ current' = {c}
         /\ toProxy' = toProxy \o <<Request("REGISTER", c), Request("INVITE", c)>>
  BY PhoneAssumption DEF Dial, PhoneSends
<1>2. phone = "idle" /\ phone' = "calling" /\ UNCHANGED <<acked, toPhone, call>>
  BY DEF Dial, PhoneSends, Elsewhere
<1>3. PICK q \in Seq(Datagram) : q = toProxy
  BY DEF WireInv
<1> DEFINE a == Request("REGISTER", c)
           b == Request("INVITE", c)
           r == q \o <<a>>
           s == r \o <<b>>
<1>4. /\ ~Asked(q, "INVITE") /\ LeavingInv(q) /\ InTurn(q, {c})
      /\ \A k \in call : k.peer = <<"ata", Own>> /\ (k.ackd => k.id \in acked)
  BY <1>2, <1>3 DEF BothEnds, PhoneInv, Waiting, InTurn, Asked
<1>5. /\ a \in Datagram /\ a.peer = <<"ata", Own>> /\ a.method = "REGISTER"
      /\ b \in Datagram /\ b.peer = <<"ata", Own>> /\ b.method = "INVITE" /\ b.id = c.id
  BY RequestType DEF Request
<1>6. toProxy' = s
  BY <1>1, <1>3, <1>5
<1> HIDE DEF a, b
<1>7. /\ r \in Seq(Datagram) /\ InTurn(r, {c})
      /\ \A m : Asked(r, m) <=> Asked(q, m) \/ m = "REGISTER"
  BY <1>4, <1>5, QueueMore
<1> HIDE DEF r
<1>8. InTurn(s, {c}) /\ \A m : Asked(s, m) <=> Asked(r, m) \/ m = "INVITE"
  BY <1>4, <1>5, <1>7, QueueMore
<1> HIDE DEF s
<1>9. PhoneInv(toProxy)'
  BY <1>1, <1>2, <1>4, <1>6, <1>7, <1>8 DEF PhoneInv, Waiting, LeavingInv
<1> QED  BY <1>1, <1>2, <1>4, <1>6, <1>8, <1>9 DEF BothEnds

LEMMA HangUpAgrees ==
  ASSUME BothEnds, WireInv, HangUp
  PROVE  BothEnds'
<1>1. PICK c \in current : toProxy' = toProxy \o <<Request("BYE", c)>>
  BY DEF HangUp, PhoneSends
<1>2. phone = "up" /\ phone' = "idle" /\ current' = {} /\ UNCHANGED <<acked, toPhone, call>>
  BY DEF HangUp, PhoneSends, Elsewhere
<1>3. PICK q \in Seq(Datagram) : q = toProxy
  BY DEF WireInv
<1>4. /\ ~Asked(q, "INVITE") /\ UpInv(q) /\ InTurn(q, {})
      /\ \A k \in call : k.peer = <<"ata", Own>> /\ (k.ackd => k.id \in acked)
  BY <1>2, <1>3 DEF BothEnds, PhoneInv, Waiting, InTurn
<1> DEFINE a == Request("BYE", c)
           r == q \o <<a>>
<1>5. a \in Datagram /\ a.peer = <<"ata", Own>> /\ a.method = "BYE"
  BY RequestType DEF Request, WireInv
<1>6. toProxy' = r
  BY <1>1, <1>3
<1> HIDE DEF a
<1>7. InTurn(r, {}) /\ \A m : Asked(r, m) <=> Asked(q, m) \/ m = "BYE"
  BY <1>4, <1>5, QueueMore
<1> HIDE DEF r
<1>8. LeavingInv(toProxy)'
  BY <1>2, <1>4, <1>6, <1>7 DEF UpInv, LeavingInv
<1>9. PhoneInv(toProxy)'
  BY <1>2, <1>4, <1>6, <1>7, <1>8 DEF PhoneInv, Waiting
<1> QED  BY <1>1, <1>2, <1>4, <1>6, <1>7, <1>9 DEF BothEnds

LEMMA CancelAgrees ==
  ASSUME BothEnds, WireInv, CancelCall
  PROVE  BothEnds'
<1>1. PICK c \in current : toProxy' = toProxy \o <<Request("CANCEL", c)>>
  BY DEF CancelCall, PhoneSends
<1>2. /\ phone = "calling" /\ phone' = "cancelling"
      /\ UNCHANGED <<acked, current, toPhone, call>>
  BY DEF CancelCall, PhoneSends, Elsewhere
<1>3. PICK q \in Seq(Datagram) : q = toProxy
  BY DEF WireInv
<1>4. PICK ks : ks = current
  OBVIOUS
<1>5. /\ InTurn(q, ks) /\ PhoneInv(q)
      /\ \A k \in call : k.peer = <<"ata", Own>> /\ (k.ackd => k.id \in acked)
  BY <1>3, <1>4 DEF BothEnds
<1> DEFINE a == Request("CANCEL", c)
           r == q \o <<a>>
<1>6. a \in Datagram /\ a.peer = <<"ata", Own>> /\ a.method = "CANCEL"
  BY RequestType DEF Request, WireInv
<1>7. toProxy' = r
  BY <1>1, <1>3
<1> HIDE DEF a
<1>8. /\ r \in Seq(Datagram) /\ InTurn(r, ks)
      /\ \A m : Asked(r, m) <=> Asked(q, m) \/ m = "CANCEL"
  BY <1>5, <1>6, QueueMore
<1> HIDE DEF r
<1>9. CASE Asked(q, "INVITE")
  <2>1. LeavingInv(q)
    BY <1>5, <1>9 DEF PhoneInv
  <2>2. LeavingInv(toProxy)'
    BY <1>2, <1>7, <1>8, <2>1 DEF LeavingInv
  <2>3. PhoneInv(toProxy)'
    BY <1>2, <1>5, <1>7, <1>8, <1>9, <2>2 DEF PhoneInv, Waiting
  <2> QED  BY <1>2, <1>4, <1>5, <1>7, <1>8, <2>3 DEF BothEnds
<1>10. CASE ~Asked(q, "INVITE")
  <2>1. AnsweredInv(q)
    BY <1>2, <1>5, <1>10 DEF PhoneInv, Waiting
  <2>2. \A m : Asked(r, m) => m = "CANCEL"
    BY <1>8, <2>1 DEF AnsweredInv, Asked
  <2>3. \A i \in 1 .. Len(r) : r[i].method = "CANCEL"
    BY <2>2 DEF Asked
  <2>4. AnsweredInv(toProxy)'
    BY <1>2, <1>7, <2>1, <2>3 DEF AnsweredInv
  <2>5. PhoneInv(toProxy)'
    BY <1>2, <1>5, <1>7, <2>2, <2>4 DEF PhoneInv, Waiting
  <2> QED  BY <1>2, <1>4, <1>5, <1>7, <1>8, <2>5 DEF BothEnds
<1> QED  BY <1>9, <1>10

(* There is only one thing the phone may hear, the answer to its INVITE.   *)
LEMMA HeardIsAnswer ==
  ASSUME BothEnds, toPhone # <<>>
  PROVE  Waiting /\ AnsweredInv(toProxy)
<1>1. CASE phone = "idle" \/ Asked(toProxy, "INVITE")
  BY <1>1 DEF BothEnds, PhoneInv, LeavingInv
<1>2. CASE phone = "up"
  BY <1>2 DEF BothEnds, PhoneInv, UpInv
<1>3. CASE Waiting /\ ~Asked(toProxy, "INVITE")
  BY <1>3 DEF BothEnds, PhoneInv
<1> QED  BY <1>1, <1>2, <1>3 DEF BothEnds, PhoneInv, Waiting

LEMMA HearAgrees ==
  ASSUME BothEnds, WireInv, Hear
  PROVE  BothEnds'
<1>1. Waiting /\ AnsweredInv(toProxy) /\ toPhone # <<>> /\ toPhone' = Tail(toPhone) /\ call' = call
  BY HeardIsAnswer DEF Hear, HearAnswer, HearOther, PhoneSends, Elsewhere
<1>2. PICK kind \in {"200", "400"}, id \in CallId :
         /\ toPhone = <<[kind |-> kind, peer |-> <<"ata", Own>>, id |-> id]>>
         /\ \A k \in current : k.id = id
         /\ kind = "400" => call = {}
  BY <1>1 DEF AnsweredInv
<1>3. Head(toPhone).kind = kind /\ Head(toPhone).id = id /\ toPhone' = <<>>
  BY <1>1, <1>2
<1>4. current # {}
  BY <1>1 DEF BothEnds, PhoneInv, Waiting
<1>5. HearAnswer
  BY <1>2, <1>3, <1>4 DEF Hear, HearOther
<1>6. PICK c \in current :
         IF kind = "200"
         THEN /\ acked' = acked \cup {c.id}
              /\ IF phone = "cancelling"
                 THEN /\ phone' = "idle" /\ current' = {}
                      /\ PhoneSends(<<Request("ACK", c), Request("BYE", c)>>)
                 ELSE /\ phone' = "up" /\ UNCHANGED current
                      /\ PhoneSends(<<Request("ACK", c)>>)
         ELSE /\ phone' = "idle" /\ current' = {}
              /\ PhoneSends(<<Request("ACK", c)>>)
              /\ UNCHANGED acked
  BY <1>3, <1>5 DEF HearAnswer
<1>7. PICK q \in Seq(Datagram) : q = toProxy
  BY DEF WireInv
<1> DEFINE a == Request("ACK", c)
           b == Request("BYE", c)
           r == q \o <<a>>
           s == r \o <<b>>
<1>8. /\ a \in Datagram /\ a.peer = <<"ata", Own>> /\ a.method = "ACK"
      /\ b \in Datagram /\ b.peer = <<"ata", Own>> /\ b.method = "BYE"
  BY RequestType DEF Request, WireInv
<1>9. /\ PhoneSends(<<a>>) => toProxy' = r
      /\ PhoneSends(<<a, b>>) => toProxy' = s
  BY <1>7, <1>8 DEF PhoneSends
<1>10. /\ \A k, l \in current : k = l
       /\ \A k \in call : k.peer = <<"ata", Own>> /\ ~k.ackd /\ k.id = c.id
       /\ \A m : Asked(q, m) => m = "CANCEL"
       /\ id = c.id
  <2>1. \A m : Asked(q, m) => m = "CANCEL"
    BY <1>1, <1>7 DEF AnsweredInv, Asked
  <2> QED  BY <1>1, <1>2, <2>1 DEF AnsweredInv, BothEnds, PhoneInv
<1>11. \A ks : InTurn(q, ks)
  BY <1>7, <1>10 DEF BothEnds, InTurn, Asked
<1> HIDE DEF a, b
<1>12. /\ r \in Seq(Datagram)
       /\ \A ks : InTurn(r, ks)
       /\ \A m : Asked(r, m) <=> Asked(q, m) \/ m = "ACK"
  BY <1>8, <1>10, <1>11, QueueMore
<1> HIDE DEF r
<1>13. /\ \A ks : InTurn(s, ks)
       /\ \A m : Asked(s, m) <=> Asked(r, m) \/ m = "BYE"
  <2>1. ~Asked(r, "INVITE")
    BY <1>10, <1>12
  <2>2. b.method # "INVITE" /\ r \in Seq(Datagram)
    BY <1>8, <1>12
  <2>3. ASSUME NEW ks
        PROVE  InTurn(s, ks) /\ \A m : Asked(s, m) <=> Asked(r, m) \/ m = b.method
    BY <1>8, <1>12, <2>1, <2>2, QueueMore
  <2> QED  BY <1>8, <2>3
<1> HIDE DEF s
<1>14. CASE kind = "200" /\ phone = "cancelling"
  <2>1. /\ acked' = acked \cup {c.id} /\ phone' = "idle" /\ current' = {} /\ toProxy' = s
    BY <1>6, <1>9, <1>14 DEF a, b
  <2>2. ~Asked(s, "INVITE") /\ Asked(s, "BYE")
    BY <1>10, <1>12, <1>13
  <2>3. LeavingInv(toProxy)'
    BY <1>1, <1>3, <1>10, <2>1, <2>2 DEF LeavingInv
  <2>4. PhoneInv(toProxy)'
    BY <2>1, <2>2, <2>3 DEF PhoneInv, Waiting
  <2> QED  BY <1>1, <1>10, <1>13, <2>1, <2>4 DEF BothEnds
<1>15. CASE kind = "200" /\ phone # "cancelling"
  <2>1. /\ acked' = acked \cup {c.id} /\ phone' = "up" /\ current' = current /\ toProxy' = r
    BY <1>6, <1>9, <1>15 DEF a
  <2>2. ~Asked(r, "INVITE") /\ ~Asked(r, "BYE") /\ Asked(r, "ACK")
    BY <1>10, <1>12
  <2>3. UpInv(toProxy)'
    BY <1>1, <1>2, <1>3, <1>10, <2>1, <2>2 DEF UpInv
  <2>4. PhoneInv(toProxy)'
    BY <1>4, <1>10, <2>1, <2>2, <2>3 DEF PhoneInv, Waiting
  <2> QED  BY <1>1, <1>10, <1>12, <2>1, <2>4 DEF BothEnds
<1>16. CASE kind = "400"
  <2>1. /\ acked' = acked /\ phone' = "idle" /\ current' = {} /\ toProxy' = r /\ call' = {}
    BY <1>1, <1>2, <1>6, <1>9, <1>16 DEF a
  <2>2. ~Asked(r, "INVITE")
    BY <1>10, <1>12
  <2>3. LeavingInv(toProxy)'
    BY <1>3, <2>1 DEF LeavingInv
  <2>4. PhoneInv(toProxy)'
    BY <2>1, <2>2, <2>3 DEF PhoneInv, Waiting
  <2> QED  BY <1>12, <2>1, <2>4 DEF BothEnds
<1> QED  BY <1>14, <1>15, <1>16

(* What the server does about a datagram that is no INVITE.                *)
LEMMA OtherHandled ==
  ASSUME NEW d \in Datagram, d.peer = <<"ata", Own>>, d.method # "INVITE",
         Handle(d), pc' # "raised", \A c \in call : c.peer = d.peer
  PROVE  /\ Answers = <<>>
         /\ \/ d.method \notin {"ACK", "BYE"} /\ call' = call
            \/ d.method = "ACK" /\ call' = {[c EXCEPT !.ackd = TRUE] : c \in call}
            \/ d.method = "BYE" /\ call' = {}
<1>1. \/ out' = <<>>
      \/ out' = <<Response("registered", d)>>
      \/ out' = <<Bare(d)>>
  BY DEF Handle, Drop, Register, Ack, Bye, Cancel, Emit,
         InviteBusy, InviteRefused, InviteRaises, InviteAnswered, Heard
<1>2. Answers = <<>>
  <2>1. CASE out' = <<>>
    BY <2>1 DEF Answers
  <2>2. CASE out' = <<Response("registered", d)>>
    BY <2>2 DEF Answers, Response
  <2>3. CASE out' = <<Bare(d)>>
    BY <2>3 DEF Answers, Bare
  <2> QED  BY <1>1, <2>1, <2>2, <2>3
<1>3. d.peer[1] = "ata"
  OBVIOUS
<1>4. CASE Drop(d) \/ Register(d) \/ Cancel(d)
  BY <1>2, <1>3, <1>4 DEF Drop, Register, Cancel, Heard
<1>5. CASE Ack(d)
  BY <1>2, <1>5 DEF Ack, Heard
<1>6. CASE Bye(d)
  BY <1>2, <1>6 DEF Bye, Heard, EndsCall
<1> QED
  BY <1>4, <1>5, <1>6 DEF Handle, InviteBusy, InviteRefused, InviteRaises, InviteAnswered, Heard

(* And about an INVITE, when it has no call.                               *)
LEMMA InviteHandled ==
  ASSUME NEW d \in Datagram, d.peer = <<"ata", Own>>, d.method = "INVITE",
         Handle(d), pc' # "raised", call = {}
  PROVE  \/ Answers = <<Response("400", d)>> /\ call' = {}
         \/ Answers = <<Response("200", d)>> /\ call' = {NewCall(d)}
<1>1. CASE InviteRefused(d)
  <2>1. out' = <<Response("400", d)>> /\ call' = {}
    BY <1>1 DEF InviteRefused, Emit
  <2>2. out' # <<>> /\ out'[Len(out')] = Response("400", d)
    BY <2>1
  <2> QED  BY <2>1, <2>2 DEF Answers, Response
<1>2. CASE InviteAnswered(d)
  <2>1. /\ out' = <<Response("100", d), Response("180", d), Response("200", d)>>
        /\ call' = {NewCall(d)}
    BY <1>2 DEF InviteAnswered, Emit
  <2>2. out' # <<>> /\ out'[Len(out')] = Response("200", d)
    BY <2>1
  <2> QED  BY <2>1, <2>2 DEF Answers, Response
<1> QED
  BY <1>1, <1>2 DEF Handle, Drop, Register, Ack, Bye, Cancel, InviteBusy, InviteRaises, Heard

LEMMA AnswersArrive ==
  ASSUME BothEnds
  PROVE  toPhone \o <<>> = toPhone
<1>1. CASE toPhone = <<>>
  BY <1>1
<1>2. CASE toPhone # <<>>
  <2>1. PICK r : toPhone = <<r>>
    BY <1>2, HeardIsAnswer DEF AnsweredInv
  <2> QED  BY <2>1
<1> QED  BY <1>1, <1>2

LEMMA ReceiveAgrees ==
  ASSUME ProxyInv, BothEnds, WireInv, ProxyReceives, pc' # "raised"
  PROVE  BothEnds'
<1>1. /\ toProxy # <<>> /\ Handle(Head(toProxy)) /\ toProxy' = Tail(toProxy)
      /\ toPhone' = toPhone \o Answers
      /\ UNCHANGED <<phone, current, acked>>
  BY DEF ProxyReceives, phoneVars
<1>2. PICK q \in Seq(Datagram) : q = toProxy
  BY DEF WireInv
<1>3. PICK ks : ks = current
  OBVIOUS
<1> DEFINE d == Head(q)
           t == Tail(q)
<1>4. /\ InTurn(q, ks) /\ PhoneInv(q)
      /\ \A c \in call : c.peer = <<"ata", Own>> /\ (c.ackd => c.id \in acked)
  BY <1>2, <1>3 DEF BothEnds
<1>5. /\ q # <<>> /\ Handle(d) /\ toProxy' = t
  BY <1>1, <1>2
<1>6. /\ d \in Datagram /\ d.peer = <<"ata", Own>> /\ Asked(q, d.method)
      /\ d.method = "INVITE" => /\ \A k \in ks : d.id = k.id
                                /\ \A i \in 1 .. Len(t) : t[i].method = "CANCEL"
      /\ InTurn(t, ks)
      /\ \A m : Asked(t, m) => Asked(q, m)
      /\ \A m : Asked(q, m) => d.method = m \/ Asked(t, m)
  BY <1>4, <1>5, QueueRest
<1> HIDE DEF d, t
<1>9. \A c \in call : LET e == [c EXCEPT !.ackd = TRUE] IN
         e.peer = c.peer /\ e.id = c.id /\ e.ackd = TRUE
  BY DEF ProxyInv, CallInv, Call
<1>7. CASE d.method # "INVITE"
  <2>1. /\ Answers = <<>>
        /\ \/ d.method \notin {"ACK", "BYE"} /\ call' = call
           \/ d.method = "ACK" /\ call' = {[c EXCEPT !.ackd = TRUE] : c \in call}
           \/ d.method = "BYE" /\ call' = {}
    BY <1>4, <1>5, <1>6, <1>7, OtherHandled
  <2>2. toPhone' = toPhone
    BY <1>1, <2>1, AnswersArrive
  <2>3. Asked(t, "INVITE") <=> Asked(q, "INVITE")
    BY <1>6, <1>7
  <2>4. \A e \in call' : \E c \in call :
           /\ e.peer = c.peer /\ e.id = c.id
           /\ e.ackd = c.ackd \/ d.method = "ACK"
    <3>1. CASE call' = call
      BY <3>1
    <3>2. CASE d.method = "ACK" /\ call' = {[c EXCEPT !.ackd = TRUE] : c \in call}
      BY <1>9, <3>2
    <3>3. CASE call' = {}
      BY <3>3
    <3> QED  BY <2>1, <3>1, <3>2, <3>3
  <2>5. CASE phone = "idle" \/ Asked(q, "INVITE")
    <3>1. LeavingInv(q)
      BY <1>4, <2>5 DEF PhoneInv
    <3>2. LeavingInv(toProxy)'
      BY <1>1, <1>5, <1>6, <2>1, <2>2, <2>4, <3>1 DEF LeavingInv
    <3>3. PhoneInv(toProxy)'
      BY <1>1, <1>4, <1>5, <1>6, <2>3, <2>5, <3>2 DEF PhoneInv, Waiting
    <3>4. \A e \in call' : e.peer = <<"ata", Own>> /\ e.id \in acked
      BY <1>4, <2>4, <3>1 DEF LeavingInv
    <3> QED  BY <1>1, <1>3, <1>5, <1>6, <3>3, <3>4 DEF BothEnds
  <2>6. CASE Waiting /\ ~Asked(q, "INVITE")
    <3>1. AnsweredInv(q)
      BY <1>4, <2>6 DEF PhoneInv
    <3>2. d.method = "CANCEL"
      BY <1>6, <3>1 DEF AnsweredInv, Asked
    <3>3. call' = call
      BY <2>1, <3>2
    <3>4. \A i \in 1 .. Len(t) : t[i].method = "CANCEL"
      BY <1>6, <3>1 DEF AnsweredInv, Asked
    <3>5. AnsweredInv(toProxy)'
      BY <1>1, <1>5, <2>2, <3>1, <3>3, <3>4 DEF AnsweredInv
    <3>6. PhoneInv(toProxy)'
      BY <1>1, <1>4, <1>5, <2>3, <2>6, <3>5 DEF PhoneInv, Waiting
    <3> QED  BY <1>1, <1>3, <1>4, <1>5, <1>6, <3>3, <3>6 DEF BothEnds
  <2>7. CASE phone = "up"
    <3>1. UpInv(q)
      BY <1>4, <2>7 DEF PhoneInv
    <3>2. d.method # "BYE" /\ ~Asked(t, "BYE") /\ (Asked(q, "ACK") => d.method = "ACK" \/ Asked(t, "ACK"))
      BY <1>6, <3>1 DEF UpInv
    <3>3. \A e \in call' : e.ackd \/ Asked(t, "ACK")
      <4>1. CASE call' = call /\ d.method # "ACK"
        BY <3>1, <3>2, <4>1 DEF UpInv
      <4>2. CASE call' = {[c EXCEPT !.ackd = TRUE] : c \in call}
        BY <1>9, <4>2
      <4> QED  BY <2>1, <3>2, <4>1, <4>2
    <3>4. UpInv(toProxy)'
      <4>1. \A k \in current : k.id \in acked /\ \A e \in call' : e.id = k.id
        BY <2>4, <3>1 DEF UpInv
      <4>2. toPhone' = <<>>
        BY <2>2, <3>1 DEF UpInv
      <4> QED  BY <1>1, <1>5, <3>2, <3>3, <4>1, <4>2 DEF UpInv
    <3>5. PhoneInv(toProxy)'
      BY <1>1, <1>4, <1>5, <2>3, <2>7, <3>4 DEF PhoneInv, Waiting
    <3>6. \A e \in call' : e.peer = <<"ata", Own>> /\ e.id \in acked
      BY <1>4, <2>4, <2>7, <3>1 DEF UpInv, PhoneInv
    <3> QED  BY <1>1, <1>3, <1>5, <1>6, <3>5, <3>6 DEF BothEnds
  <2> QED  BY <1>4, <2>5, <2>6, <2>7 DEF PhoneInv, Waiting
<1>8. CASE d.method = "INVITE"
  <2>1. Waiting /\ LeavingInv(q)
    BY <1>4, <1>6, <1>8 DEF PhoneInv
  <2>2. \A m : Asked(t, m) => m = "CANCEL"
    BY <1>6, <1>8 DEF Asked
  <2>3. call = {} /\ toPhone = <<>>
    BY <1>6, <1>8, <2>1, <2>2 DEF LeavingInv
  <2>4. \/ Answers = <<Response("400", d)>> /\ call' = {}
        \/ Answers = <<Response("200", d)>> /\ call' = {NewCall(d)}
    BY <1>5, <1>6, <1>8, <2>3, InviteHandled
  <2>5. \/ toPhone' = <<Response("400", d)>> /\ call' = {}
        \/ toPhone' = <<Response("200", d)>> /\ call' = {NewCall(d)}
    BY <1>1, <2>3, <2>4
  <2>6. \A c \in call' : c.peer = <<"ata", Own>> /\ c.ackd = FALSE /\ c.id = d.id
    BY <1>6, <2>5 DEF NewCall
  <2>7. d.id \in CallId
    BY <1>6 DEF Datagram
  <2>8. \E kind \in {"200", "400"} :
           /\ toPhone' = <<[kind |-> kind, peer |-> <<"ata", Own>>, id |-> d.id]>>
           /\ kind = "400" => call' = {}
    BY <1>6, <2>5 DEF Response
  <2>9. AnsweredInv(toProxy)'
    BY <1>1, <1>3, <1>5, <1>6, <1>8, <2>6, <2>7, <2>8 DEF AnsweredInv
  <2>10. PhoneInv(toProxy)'
    BY <1>1, <1>4, <1>5, <2>1, <2>2, <2>9 DEF PhoneInv, Waiting
  <2> QED  BY <1>1, <1>3, <1>5, <1>6, <2>6, <2>10 DEF BothEnds
<1> QED  BY <1>7, <1>8

(* A step of the server on its own, which can end its call.                *)
LEMMA AsideAgrees ==
  ASSUME BothEnds, UNCHANGED <<phoneVars, netVars>>,
         \A e \in call' : \E c \in call : e.peer = c.peer /\ e.id = c.id /\ e.ackd = c.ackd
  PROVE  BothEnds'
<1>1. UNCHANGED <<phone, current, acked, toPhone, toProxy>>
  BY DEF phoneVars, netVars
<1>2. PICK q : q = toProxy
  OBVIOUS
<1>3. PICK ks : ks = current
  OBVIOUS
<1>4. InTurn(q, ks) /\ PhoneInv(q)
  BY <1>2, <1>3 DEF BothEnds
<1>5. call = {} => call' = {}
  OBVIOUS
<1>6. LeavingInv(q) => LeavingInv(q)'
  BY <1>1, <1>5 DEF LeavingInv
<1>7. AnsweredInv(q) => AnsweredInv(q)'
  BY <1>1, <1>5 DEF AnsweredInv
<1>8. UpInv(q) => UpInv(q)'
  <2>1. ASSUME UpInv(q), NEW k \in current
        PROVE  k.id \in acked /\ \A e \in call' : e.id = k.id
    BY <2>1 DEF UpInv
  <2>2. UpInv(q) => \A e \in call' : e.ackd \/ Asked(q, "ACK")
    BY DEF UpInv
  <2> QED  BY <1>1, <2>1, <2>2 DEF UpInv
<1>9. PhoneInv(q)'
  BY <1>1, <1>4, <1>6, <1>7, <1>8 DEF PhoneInv, Waiting
<1>10. \A e \in call' : e.peer = <<"ata", Own>> /\ (e.ackd => e.id \in acked)
  BY DEF BothEnds
<1>11. PhoneInv(toProxy)'
  BY <1>1, <1>2, <1>9 DEF PhoneInv, LeavingInv, AnsweredInv, UpInv
<1> QED  BY <1>1, <1>2, <1>3, <1>4, <1>10, <1>11 DEF BothEnds

LEMMA LoopKeepsCall ==
  ASSUME ProxyInv, LoopStep
  PROVE  \A e \in call' : \E c \in call : e.peer = c.peer /\ e.id = c.id /\ e.ackd = c.ackd
<1>1. CASE StreamFrame
  <2>1. PICK c \in call : call' = {NextFrame(c)}
    BY <1>1 DEF StreamFrame
  <2>2. c \in Call
    BY DEF ProxyInv, CallInv
  <2>3. NextFrame(c).peer = c.peer /\ NextFrame(c).id = c.id /\ NextFrame(c).ackd = c.ackd
    BY <2>2 DEF NextFrame, Call
  <2> QED  BY <2>1, <2>3
<1>2. CASE Stop \/ EndOverdue
  BY <1>2 DEF Stop, EndOverdue
<1>3. CASE Pass \/ SelectTimeout \/ RecvFails
  BY <1>3 DEF Pass, SelectTimeout, RecvFails
<1> QED  BY <1>1, <1>2, <1>3 DEF LoopStep

(* A run that has raised stays so, and a wire is of one kind.              *)
LEMMA RaisedStays ==
  ASSUME [CallNext]_callVars
  PROVE  wire' = wire /\ (pc = "raised" => pc' = "raised")
<1>1. CASE Dial \/ HangUp \/ CancelCall \/ Repeat \/ GiveUp \/ Hear \/ Disturb \/ Stray
  BY <1>1 DEF Dial, HangUp, CancelCall, Repeat, GiveUp, Hear, HearAnswer, HearOther,
              Disturb, Stray, PhoneSends, Elsewhere
<1>2. CASE ProxyReceives
  <2>1. wire' = wire
    BY <1>2 DEF ProxyReceives
  <2>2. pc = "recv"
    BY <1>2 DEF ProxyReceives, Handle, Drop, Register, Ack, Bye, Cancel, InviteBusy,
                InviteRefused, InviteRaises, InviteAnswered, Heard, Receive
  <2> QED  BY <2>1, <2>2
<1>3. CASE ProxyLoops
  <2>1. pc # "raised"
    BY <1>3 DEF ProxyLoops, LoopStep, Stop, EndOverdue, StreamFrame, Pass,
                SelectTimeout, RecvFails
  <2> QED  BY <1>3, <2>1 DEF ProxyLoops, netVars
<1>4. CASE ProxyReads \/ ProxyWakes \/ PassTime
  BY <1>4 DEF ProxyReads, ProxyWakes, PassTime, SelectReady, RtpReceive, Tick, netVars
<1>5. CASE UNCHANGED callVars
  BY <1>5 DEF callVars, proxyVars, netVars
<1> QED  BY <1>1, <1>2, <1>3, <1>4, <1>5 DEF CallNext

LEMMA StepAgrees ==
  ASSUME ProxyInv, WireInv, AgreeInv, [CallNext]_callVars
  PROVE  AgreeInv'
<1> SUFFICES ASSUME wire = "quiet", pc # "raised", pc' # "raised", BothEnds
             PROVE  BothEnds'
  BY RaisedStays DEF AgreeInv
<1>1. CASE Dial \/ HangUp \/ CancelCall \/ Hear
  BY <1>1, DialAgrees, HangUpAgrees, CancelAgrees, HearAgrees
<1>2. CASE ProxyReceives
  BY <1>2, ReceiveAgrees
<1>3. CASE ProxyLoops
  BY <1>3, LoopKeepsCall, AsideAgrees DEF ProxyLoops
<1>4. CASE ProxyReads \/ ProxyWakes \/ PassTime \/ UNCHANGED callVars
  <2>1. UNCHANGED <<phoneVars, netVars>>
    BY <1>4 DEF ProxyReads, ProxyWakes, PassTime, callVars
  <2>2. call' = call
    BY <1>4 DEF ProxyReads, ProxyWakes, PassTime, SelectReady, RtpReceive, Tick, callVars, proxyVars
  <2> QED  BY <2>1, <2>2, AsideAgrees
<1>5. ~(Repeat \/ GiveUp \/ Disturb \/ Stray)
  BY DEF Repeat, GiveUp, Disturb, Stray
<1> QED  BY <1>1, <1>2, <1>3, <1>4, <1>5 DEF CallNext

LEMMA CallStarts == CallInit => AgreeInv
<1> SUFFICES ASSUME CallInit PROVE BothEnds
  BY DEF AgreeInv
<1>1. /\ toProxy = <<>> /\ toPhone = <<>> /\ phone = "idle" /\ current = {} /\ call = {}
  BY DEF CallInit, ProxyInit
<1>2. InTurn(toProxy, current) /\ \A m : ~Asked(toProxy, m)
  BY <1>1 DEF InTurn, Asked
<1>3. PhoneInv(toProxy)
  BY <1>1, <1>2 DEF PhoneInv, LeavingInv, Waiting
<1> QED  BY <1>1, <1>2, <1>3 DEF BothEnds

LEMMA AgreeMeans == AgreeInv => CallsAgree
<1> SUFFICES ASSUME wire = "quiet", pc # "raised", BothEnds PROVE CallsAgree
  BY DEF AgreeInv, CallsAgree
<1>1. \A c \in call : c.ackd => c.id \in acked
  BY DEF BothEnds
<1>2. ASSUME toProxy = <<>>, toPhone = <<>>
      PROVE  /\ phone = "idle" => call = {}
             /\ phone = "up" => \A c \in call : c.ackd /\ \E k \in current : k.id = c.id
  <2>1. \A m : ~Asked(toProxy, m)
    BY <1>2 DEF Asked
  <2>2. phone = "idle" => call = {}
    BY <2>1 DEF BothEnds, PhoneInv, LeavingInv
  <2>3. ASSUME phone = "up", NEW c \in call
        PROVE  c.ackd /\ \E k \in current : k.id = c.id
    BY <2>1, <2>3 DEF BothEnds, PhoneInv, UpInv
  <2> QED  BY <2>2, <2>3
<1> QED  BY <1>1, <1>2 DEF CallsAgree

(* On a quiet wire the phone and the server agree on the call whenever     *)
(* nothing is under way, and no tone is streamed but in a call the phone   *)
(* has acknowledged: for any calls, limits and times, although the server  *)
(* counts any ACK and ignores CANCEL.                                      *)
THEOREM EndsAgree == CallSpec => []CallsAgree
<1>1. CallInit => ProxyInv /\ WireInv /\ AgreeInv
  BY InitBounded, CallStarts DEF CallInit, WireInv
<1>2. ProxyInv /\ WireInv /\ [CallNext]_callVars => ProxyInv' /\ WireInv'
  BY CallBounded
<1>3. ProxyInv /\ WireInv /\ AgreeInv /\ [CallNext]_callVars => AgreeInv'
  BY StepAgrees
<1> QED  BY <1>1, <1>2, <1>3, AgreeMeans, PTL DEF CallSpec

=============================================================================
