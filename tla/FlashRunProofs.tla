---------------------------- MODULE FlashRunProofs ----------------------------
(***************************************************************************)
(* The two safety properties of a flash run, for any image, deadline and   *)
(* limits and any number of clients and datagrams.  Of the responder and   *)
(* the service only what their composition needs is carried along: whom an *)
(* ACK was sent to, and that what is counted was put on the wire.          *)
(***************************************************************************)
EXTENDS FlashRun, FiniteSetTheorems, TLAPS

(* Stages from which the DHCP phase is over and well.                      *)
Leased == {"revalidate", "drain_command", "drain_data", "serve"}
Stages == {"preflight", "bind", "dhcp", "exit"} \cup Leased

FlashTypes == /\ stage \in Stages
              /\ queue \in [S!Socket -> Seq(S!Datagram)]
              /\ queued \in Nat
              /\ unique \in SUBSET S!Block
              /\ early \in BOOLEAN

(* The responder: one client is answered and an ACK went to it.            *)
AckedInv == /\ \A f \in pending : f \in D!Frame /\ f.mac = clientMac
            /\ acknowledged => clientMac \in Mac /\ \E a \in D!Acks : a.mac = clientMac
            /\ outcome = "lease" => acknowledged

(* The service: it is idle until its stage, and counts what it sent; what  *)
(* it is about to send carries a block of the image.                       *)
IdleInv == stage \notin {"serve", "exit"} => pc = "bound" /\ sent = {} /\ unique = {}
ReplyInv == \A r \in reply : r.kind = "block" =>
    r.index \in S!Block /\ r = [kind |-> "block", index |-> r.index]
ServedInv == \A b \in unique : [kind |-> "block", index |-> b] \in sent

(* The run: the service speaks after the lease only.                       *)
OrderInv == /\ stage \in Leased => outcome = "lease" /\ phase = "done"
            /\ exit = "ok" => stage = "exit" /\ outcome = "lease" /\ S!Complete(unique)
            /\ sent # {} \/ pc # "bound" => outcome = "lease" /\ phase = "done"

(* A datagram a drain would count.                                         *)
Waits(s) == \E i \in 1 .. Len(queue[s]) : queue[s][i].kind # "corrupt"

(* An early datagram waits in a buffer until a drain has counted it.       *)
EarlyInv == early =>
    /\ stage \notin {"preflight", "bind", "serve"} /\ sent = {}
    /\ stage \in {"dhcp", "revalidate"} => Waits("command") \/ Waits("data")
    /\ stage = "drain_command" => queued > 0 \/ Waits("command") \/ Waits("data")
    /\ stage = "drain_data" => queued > 0 \/ Waits("data")

FlashInv == /\ FlashTypes /\ AckedInv /\ IdleInv /\ ReplyInv /\ ServedInv
            /\ OrderInv /\ EarlyInv

-----------------------------------------------------------------------------
LEMMA CompleteIsAll ==
  ASSUME NEW B \in SUBSET S!Block, S!Complete(B)
  PROVE  B = S!Block
<1>1. IsFiniteSet(S!Block) /\ Cardinality(S!Block) = NumBlocks
  BY FlashAssumption, FS_Interval DEF S!Block
<1>2. Cardinality(B) = NumBlocks
  BY DEF S!Complete, S!Cardinality, Cardinality
<1> QED  BY <1>1, <1>2, FS_Subset

LEMMA FlashStarts == FlashInit => FlashInv
<1> SUFFICES ASSUME FlashInit PROVE FlashInv
  OBVIOUS
<1>1. queue \in [S!Socket -> Seq(S!Datagram)]
  BY DEF FlashInit, S!ServiceInit
<1>2. FlashTypes
  BY <1>1 DEF FlashInit, S!ServiceInit, FlashTypes, Stages
<1>3. AckedInv /\ OrderInv
  BY DEF FlashInit, D!Init, S!ServiceInit, AckedInv, OrderInv, Leased
<1>4. IdleInv /\ ReplyInv /\ ServedInv /\ EarlyInv
  BY DEF FlashInit, S!ServiceInit, IdleInv, ReplyInv, ServedInv, EarlyInv
<1> QED  BY <1>2, <1>3, <1>4 DEF FlashInv

LEMMA TailShifts ==
  ASSUME NEW T, NEW q \in Seq(T), q # <<>>
  PROVE  /\ Tail(q) \in Seq(T) /\ Len(Tail(q)) = Len(q) - 1 /\ Len(q) \in Nat \ {0}
         /\ Head(q) = q[1]
         /\ \A j \in 1 .. Len(q) - 1 : Tail(q)[j] = q[j + 1]
  OBVIOUS

(* What the two buffers hold after a datagram leaves or joins one.         *)
LEMMA WaitsAfterTake ==
  ASSUME NEW s \in S!Socket, FlashTypes, queue[s] # <<>>,
         queue' = [queue EXCEPT ![s] = Tail(@)]
  PROVE  /\ queue' \in [S!Socket -> Seq(S!Datagram)]
         /\ Waits(s) => Waits(s)' \/ Head(queue[s]).kind # "corrupt"
         /\ \A o \in S!Socket \ {s} : Waits(o) => Waits(o)'
<1>1. queue[s] \in Seq(S!Datagram) /\ queue'[s] = Tail(queue[s])
  BY DEF FlashTypes
<1>2. /\ Tail(queue[s]) \in Seq(S!Datagram) /\ Len(Tail(queue[s])) = Len(queue[s]) - 1
      /\ Len(queue[s]) \in Nat \ {0} /\ Head(queue[s]) = queue[s][1]
      /\ \A j \in 1 .. Len(queue[s]) - 1 : Tail(queue[s])[j] = queue[s][j + 1]
  BY <1>1, TailShifts
<1>3. queue' \in [S!Socket -> Seq(S!Datagram)]
  BY <1>2 DEF FlashTypes
<1>4. ASSUME NEW i \in 1 .. Len(queue[s]), queue[s][i].kind # "corrupt",
             Head(queue[s]).kind = "corrupt"
      PROVE  Waits(s)'
  <2>1. i # 1
    BY <1>2, <1>4
  <2>2. i - 1 \in 1 .. Len(queue[s]) - 1
    BY <1>2, <2>1
  <2>3. Tail(queue[s])[i - 1] = queue[s][(i - 1) + 1] /\ (i - 1) + 1 = i
    BY <1>2, <2>2
  <2>4. i - 1 \in 1 .. Len(queue'[s]) /\ queue'[s][i - 1] = queue[s][i]
    BY <1>1, <1>2, <2>2, <2>3
  <2> QED  BY <1>4, <2>4 DEF Waits
<1> QED  BY <1>3, <1>4 DEF Waits, FlashTypes

LEMMA WaitsAfterArrival ==
  ASSUME NEW s \in S!Socket, NEW d \in S!Datagram, FlashTypes,
         queue' = [queue EXCEPT ![s] = Append(@, d)]
  PROVE  /\ queue' \in [S!Socket -> Seq(S!Datagram)]
         /\ d.kind # "corrupt" => Waits(s)'
         /\ \A o \in S!Socket : Waits(o) => Waits(o)'
<1>1. queue[s] \in Seq(S!Datagram) /\ queue'[s] = Append(queue[s], d)
  BY DEF FlashTypes
<1>2. Append(queue[s], d) \in Seq(S!Datagram)
  BY <1>1
<1>3. queue' \in [S!Socket -> Seq(S!Datagram)]
  BY <1>2 DEF FlashTypes
<1>4. /\ Len(queue'[s]) = Len(queue[s]) + 1 /\ Len(queue[s]) \in Nat
      /\ queue'[s][Len(queue[s]) + 1] = d
      /\ \A i \in 1 .. Len(queue[s]) : queue'[s][i] = queue[s][i]
  BY <1>1
<1>5. Waits(s) => Waits(s)'
  BY <1>4 DEF Waits
<1>6. d.kind # "corrupt" => Waits(s)'
  BY <1>4 DEF Waits
<1>7. \A o \in S!Socket \ {s} : queue'[o] = queue[o]
  BY DEF FlashTypes
<1> QED  BY <1>3, <1>5, <1>6, <1>7 DEF Waits

-----------------------------------------------------------------------------
(* The responder answers the client it locks, and its verdict is a lease   *)
(* only if it did.                                                         *)
LEMMA DhcpKeepsAcked ==
  ASSUME AckedInv, (\E f \in D!Frame : D!ServerStep(f)) \/ D!OtherStep
  PROVE  AckedInv'
<1>1. ASSUME NEW f \in D!Frame, D!ServerStep(f) PROVE AckedInv'
  <2>1. CASE D!Admit(f)
    <3>1. f.mac \in Mac /\ (clientMac # NoMac => f.mac = clientMac)
      BY <2>1 DEF D!Admit, D!Accepts, D!LockAllows, D!Frame
    <3>2. pending' = {f} /\ clientMac' = f.mac
      BY <2>1 DEF D!Admit, D!LockOn
    <3>3. acknowledged => clientMac' = clientMac
      BY <3>1, <3>2, FlashAssumption DEF AckedInv
    <3> QED  BY <2>1, <3>1, <3>2, <3>3 DEF D!Admit, AckedInv, D!Acks
  <2>2. CASE D!AddressGone(f)
    BY <2>2 DEF D!AddressGone, AckedInv, D!Acks
  <2> QED  BY <1>1, <2>1, <2>2 DEF D!ServerStep
<1>2. CASE D!SendReply
  <2>1. PICK f \in pending : /\ replies' = replies \cup {D!ReplyTo(f)}
                             /\ acknowledged' = (acknowledged \/ f.kind = "REQUEST")
    BY <1>2 DEF D!SendReply
  <2>2. f.mac = clientMac /\ f.mac \in Mac
    BY <2>1 DEF AckedInv, D!Frame
  <2>3. f.kind = "REQUEST" => \E a \in D!Acks' : a.mac = clientMac
    <3>1. f.kind = "REQUEST" => D!ReplyTo(f) \in D!Acks' /\ D!ReplyTo(f).mac = f.mac
      BY <2>1 DEF D!Acks, D!ReplyTo
    <3> QED  BY <2>2, <3>1
  <2>4. acknowledged => \E a \in D!Acks' : a.mac = clientMac
    BY <2>1 DEF AckedInv, D!Acks
  <2> QED  BY <1>2, <2>1, <2>2, <2>3, <2>4 DEF D!SendReply, AckedInv
<1>3. CASE D!Conclude
  BY <1>3 DEF D!Conclude, AckedInv, D!Acks
<1>4. CASE D!Begin
  BY <1>4 DEF D!Begin, AckedInv, D!Acks
<1>5. CASE D!SendFails \/ D!CaptureTimeout \/ D!CaptureFails
  BY <1>5 DEF D!SendFails, D!CaptureTimeout, D!CaptureFails, AckedInv, D!Acks
<1> QED  BY <1>1, <1>2, <1>3, <1>4, <1>5 DEF D!OtherStep

LEMMA DhcpKeeps == FlashInv /\ (DhcpFrame \/ DhcpOwn) => FlashInv'
<1> SUFFICES ASSUME FlashInv, DhcpFrame \/ DhcpOwn PROVE FlashInv'
  OBVIOUS
<1>1. /\ stage = "dhcp"
      /\ UNCHANGED <<bufferVars, serveVars, runVars>>
      /\ (\E f \in D!Frame : D!ServerStep(f)) \/ D!OtherStep
  BY DEF DhcpFrame, DhcpOwn, DuringDhcp
<1>2. AckedInv'
  BY <1>1, DhcpKeepsAcked DEF FlashInv
<1>3. FlashTypes' /\ IdleInv' /\ ReplyInv' /\ ServedInv' /\ OrderInv' /\ EarlyInv'
  BY <1>1 DEF FlashInv, FlashTypes, IdleInv, ReplyInv, ServedInv, OrderInv, EarlyInv, Leased, Waits,
              bufferVars, serveVars, runVars, S!Complete
<1> QED  BY <1>2, <1>3 DEF FlashInv

-----------------------------------------------------------------------------
(* A block is counted with the response that carries it.                   *)
LEMMA SendCounts ==
  ASSUME FlashTypes, ReplyInv, ServedInv, S!SendOk
  PROVE  ServedInv' /\ unique' \in SUBSET S!Block
<1>1. PICK r \in reply : (S!SendCommand(r) \/ S!SendData(r)) /\ sent' = sent \cup {r}
  BY DEF S!SendOk
<1>2. CASE r.kind = "block"
  <2>1. unique' = unique \cup {r.index}
    BY <1>1, <1>2 DEF S!SendCommand, S!SendData, S!IsCommand
  <2> QED  BY <1>1, <1>2, <2>1 DEF FlashTypes, ReplyInv, ServedInv
<1>3. CASE r.kind # "block"
  <2>1. unique' = unique
    BY <1>1, <1>3 DEF S!SendCommand, S!SendData
  <2> QED  BY <1>1, <2>1 DEF FlashTypes, ServedInv
<1> QED  BY <1>2, <1>3

(* What a datagram in hand leaves to be sent.                              *)
LEMMA ReceiveReplies ==
  ASSUME NEW s \in S!Socket, NEW d \in S!Incoming(s), ReplyInv, S!Receive(s, d)
  PROVE  /\ ReplyInv' /\ UNCHANGED <<unique, sent>>
         /\ queue[s] # <<>> /\ queue' = [queue EXCEPT ![s] = Tail(@)]
<1>1. CASE S!Discard(s, d)
  BY <1>1 DEF S!Discard, S!AtHead, S!wireVars, ReplyInv
<1>2. CASE S!Reject(s, d) \/ S!CommandInvalid(s, d) \/ S!DataInvalid(s, d)
  BY <1>2 DEF S!Reject, S!CommandInvalid, S!DataInvalid, S!Take, S!AtHead, S!wireVars,
              ReplyInv
<1>3. CASE S!CommandAnswer(s, d)
  <2>1. PICK r : S!Answer(r) /\ r.kind # "block"
    BY <1>3 DEF S!CommandAnswer
  <2> QED  BY <1>3, <2>1 DEF S!CommandAnswer, S!Take, S!AtHead, S!Answer, S!wireVars, ReplyInv
<1>4. CASE S!DataAnswer(s, d)
  <2>1. d.index \in S!Block
    BY <1>4, FlashAssumption
    DEF S!DataAnswer, S!ValidData, S!Incoming, S!Datagram, S!Block
  <2>2. S!Answer([kind |-> d.kind, index |-> d.index])
    BY <1>4 DEF S!DataAnswer
  <2> QED  BY <1>4, <2>1, <2>2 DEF S!DataAnswer, S!Take, S!AtHead, S!Answer, S!wireVars, ReplyInv
<1> QED  BY <1>1, <1>2, <1>3, <1>4 DEF S!Receive

LEMMA ServiceKeeps == FlashInv /\ ServeStep => FlashInv'
<1> SUFFICES ASSUME FlashInv, ServeStep PROVE FlashInv'
  OBVIOUS
<1>1. /\ stage = "serve" /\ S!LoopStep
      /\ UNCHANGED <<dhcpVars, addressPresent, runVars>>
  BY DEF ServeStep
<1>2. /\ ReplyInv' /\ ServedInv' /\ unique' \in SUBSET S!Block
      /\ queue' \in [S!Socket -> Seq(S!Datagram)]
  <2>1. CASE S!Start \/ S!LoopTop \/ S!SelectReady \/ S!SelectTimeout \/ S!SendFails
    BY <2>1 DEF S!Start, S!LoopTop, S!SelectReady, S!SelectTimeout, S!SendFails, S!wireVars,
                FlashInv, FlashTypes, ReplyInv, ServedInv
  <2>2. ASSUME NEW s \in S!Socket, NEW d \in S!Incoming(s), S!Receive(s, d)
        PROVE  /\ ReplyInv' /\ ServedInv' /\ unique' \in SUBSET S!Block
               /\ queue' \in [S!Socket -> Seq(S!Datagram)]
    BY <2>2, ReceiveReplies, WaitsAfterTake DEF FlashInv, FlashTypes, ServedInv
  <2>3. CASE S!SendOk
    BY <2>3, SendCounts DEF S!SendOk, FlashInv, FlashTypes, ReplyInv
  <2> QED  BY <1>1, <2>1, <2>2, <2>3 DEF S!LoopStep
<1>3. FlashTypes' /\ AckedInv' /\ IdleInv' /\ OrderInv' /\ EarlyInv'
  BY <1>1, <1>2 DEF FlashInv, FlashTypes, AckedInv, IdleInv, OrderInv, EarlyInv, Leased,
                    dhcpVars, runVars, D!Acks
<1> QED  BY <1>2, <1>3 DEF FlashInv

-----------------------------------------------------------------------------
(* run_flash itself, one lemma per kind of step.                           *)
LEMMA SetUpKeeps == FlashInv /\ (Preflight \/ BindPorts \/ Interrupt) => FlashInv'
  BY DEF Preflight, BindPorts, Interrupt, Exit, Proceed, FlashInv, FlashTypes, Stages, AckedInv,
         IdleInv, ReplyInv, ServedInv, OrderInv, EarlyInv, Leased, Waits, D!Acks,
         dhcpVars, bufferVars, serveVars, S!Complete

LEMMA LeaseKeeps == FlashInv /\ (DhcpReturns \/ Revalidate) => FlashInv'
  BY DEF DhcpReturns, Revalidate, LeaseObtained, Exit, Proceed, FlashInv, FlashTypes, Stages,
         AckedInv, IdleInv, ReplyInv, ServedInv, OrderInv, EarlyInv, Leased, Waits, D!Acks,
         dhcpVars, bufferVars, serveVars, S!Complete

LEMMA VerdictKeeps == FlashInv /\ (ServeRaises \/ ServeReturns) => FlashInv'
  BY DEF ServeRaises, ServeReturns, Verdict, Exit, Proceed, FlashInv, FlashTypes, Stages,
         AckedInv, IdleInv, ReplyInv, ServedInv, OrderInv, EarlyInv, Leased, Waits, D!Acks,
         dhcpVars, bufferVars, serveVars, S!Complete

(* A drain counts what it takes, so what came early leaves no trace only   *)
(* by being counted; the serving starts when nothing was.                  *)
LEMMA DrainKeeps == FlashInv /\ (DrainOne \/ DrainBusy \/ DrainEmpty) => FlashInv'
<1> SUFFICES ASSUME FlashInv, DrainOne \/ DrainBusy \/ DrainEmpty PROVE FlashInv'
  OBVIOUS
<1>1. CASE DrainOne
  <2>1. PICK s \in S!Socket : s = DrainSocket
    BY DEF DrainSocket, S!Socket
  <2>2. /\ stage \in {"drain_command", "drain_data"} /\ queue[s] # <<>>
        /\ queue' = [queue EXCEPT ![s] = Tail(@)]
        /\ queued' = IF Head(queue[s]).kind = "corrupt" THEN queued ELSE queued + 1
        /\ UNCHANGED <<dhcpVars, serveVars, stage, early, exit>>
    BY <1>1, <2>1 DEF DrainOne, Draining
  <2>3. /\ queue' \in [S!Socket -> Seq(S!Datagram)]
        /\ Waits(s) => Waits(s)' \/ Head(queue[s]).kind # "corrupt"
        /\ \A o \in S!Socket \ {s} : Waits(o) => Waits(o)'
    BY <2>2, WaitsAfterTake DEF FlashInv
  <2>4. FlashTypes'
    BY <2>2, <2>3 DEF FlashInv, FlashTypes, serveVars
  <2>5. queued \in Nat /\ queued' \in Nat /\ queued' >= queued
        /\ (Head(queue[s]).kind # "corrupt" => queued' > 0)
    BY <2>2 DEF FlashInv, FlashTypes
  <2>6. EarlyInv'
    BY <2>1, <2>2, <2>3, <2>5 DEF FlashInv, EarlyInv, DrainSocket, S!Socket, serveVars
  <2>7. AckedInv' /\ IdleInv' /\ ReplyInv' /\ ServedInv' /\ OrderInv'
    BY <2>2 DEF FlashInv, AckedInv, IdleInv, ReplyInv, ServedInv, OrderInv, Leased, D!Acks,
                dhcpVars, serveVars, S!Complete
  <2> QED  BY <2>4, <2>6, <2>7 DEF FlashInv
<1>2. CASE DrainBusy
  BY <1>2 DEF DrainBusy, Draining, Exit, FlashInv, FlashTypes, Stages, AckedInv,
         IdleInv, ReplyInv, ServedInv, OrderInv, EarlyInv, Leased, Waits, D!Acks,
         dhcpVars, bufferVars, serveVars, S!Complete
<1>3. CASE DrainEmpty
  <2>1. ~Waits(DrainSocket)
    BY <1>3 DEF DrainEmpty, Waits
  <2>2. EarlyInv'
    BY <1>3, <2>1 DEF DrainEmpty, Draining, DrainSocket, AfterDrain, Exit, Proceed, FlashInv,
         FlashTypes, EarlyInv, Waits, bufferVars, serveVars
  <2>3. FlashTypes' /\ AckedInv' /\ IdleInv' /\ ReplyInv' /\ ServedInv' /\ OrderInv'
    BY <1>3 DEF DrainEmpty, Draining, Exit, Proceed, FlashInv, FlashTypes, Stages, AckedInv,
         IdleInv, ReplyInv, ServedInv, OrderInv, Leased, D!Acks,
         dhcpVars, bufferVars, serveVars, S!Complete
  <2> QED  BY <2>2, <2>3 DEF FlashInv
<1> QED  BY <1>1, <1>2, <1>3

-----------------------------------------------------------------------------
(* The environment: an early datagram is in a buffer as soon as it is one. *)
LEMMA ArrivalKeeps == FlashInv /\ DatagramArrives => FlashInv'
<1> SUFFICES ASSUME FlashInv, DatagramArrives PROVE FlashInv'
  OBVIOUS
<1>1. PICK s \in S!Socket : \E d \in S!Incoming(s) :
         S!Arrive(s, d) /\ early' = (early \/ (BeforeRevalidation /\ d.kind # "corrupt"))
  BY DEF DatagramArrives
<1>2. PICK d \in S!Incoming(s) :
         S!Arrive(s, d) /\ early' = (early \/ (BeforeRevalidation /\ d.kind # "corrupt"))
  BY <1>1
<1>3. /\ d \in S!Datagram /\ queue' = [queue EXCEPT ![s] = Append(@, d)]
      /\ UNCHANGED <<pc, unique, reply, sent>>
  BY <1>2 DEF S!Incoming, S!Arrive, S!loopVars, S!wireVars
<1>4. UNCHANGED <<dhcpVars, stage, drained, queued, exit>> /\ Bound
  BY DEF DatagramArrives
<1>5. /\ queue' \in [S!Socket -> Seq(S!Datagram)]
      /\ d.kind # "corrupt" => Waits(s)'
      /\ \A o \in S!Socket : Waits(o) => Waits(o)'
  BY <1>3, WaitsAfterArrival DEF FlashInv
<1>6. FlashTypes'
  BY <1>2, <1>3, <1>4, <1>5 DEF FlashInv, FlashTypes, BeforeRevalidation
<1>7. EarlyInv'
  BY <1>2, <1>3, <1>4, <1>5 DEF FlashInv, EarlyInv, IdleInv, BeforeRevalidation, Bound, S!Socket
<1>8. AckedInv' /\ IdleInv' /\ ReplyInv' /\ ServedInv' /\ OrderInv'
  BY <1>3, <1>4 DEF FlashInv, AckedInv, IdleInv, ReplyInv, ServedInv, OrderInv, Leased, D!Acks,
                    dhcpVars, S!Complete
<1> QED  BY <1>6, <1>7, <1>8 DEF FlashInv

LEMMA HostKeeps == FlashInv /\ (TimePasses \/ HostChanges \/ UNCHANGED flashVars) => FlashInv'
  BY DEF TimePasses, HostChanges, S!Tick, S!loopVars, S!wireVars, flashVars, runVars,
         FlashInv, FlashTypes, AckedInv, IdleInv, ReplyInv, ServedInv, OrderInv, EarlyInv, Waits,
         D!Acks, dhcpVars, bufferVars, serveVars, S!Complete

LEMMA FlashInvariant == FlashSpec => []FlashInv
<1>1. FlashInv /\ [FlashNext]_flashVars => FlashInv'
  BY DhcpKeeps, ServiceKeeps, SetUpKeeps, LeaseKeeps, VerdictKeeps, DrainKeeps, ArrivalKeeps,
     HostKeeps DEF FlashNext, RunStep
<1> QED  BY <1>1, FlashStarts, PTL DEF FlashSpec

-----------------------------------------------------------------------------
(* However many datagrams come before the revalidation and however the     *)
(* drains are fed meanwhile, a trigger that came early is never answered.  *)
THEOREM EarlyIsNotServed == FlashSpec => []EarlyTriggerIsNeverServed
<1>1. FlashInv => EarlyTriggerIsNeverServed
  BY DEF FlashInv, EarlyInv, EarlyTriggerIsNeverServed
<1> QED  BY <1>1, FlashInvariant, PTL

(* Exit status 0 certifies an acknowledged lease and every block of the    *)
(* image on the wire, and no firmware leaves before the lease.             *)
THEOREM SuccessIsDelivery == FlashSpec => []SuccessCertifiesDelivery
<1>1. ASSUME FlashInv PROVE SuccessCertifiesDelivery
  <2>1. exit = "ok" => \E a \in D!Acks : a.mac = clientMac
    BY <1>1 DEF FlashInv, OrderInv, AckedInv
  <2>2. exit = "ok" => \A b \in S!Block : [kind |-> "block", index |-> b] \in sent
    BY <1>1, CompleteIsAll DEF FlashInv, FlashTypes, OrderInv, ServedInv
  <2> QED  BY <1>1, <2>1, <2>2 DEF FlashInv, OrderInv, SuccessCertifiesDelivery
<1> QED  BY <1>1, FlashInvariant, PTL
=============================================================================
