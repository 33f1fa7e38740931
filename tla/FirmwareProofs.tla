---------------------------- MODULE FirmwareProofs ----------------------------
(***************************************************************************)
(* What FirmwareService guarantees for every image size, duration, grace   *)
(* period and traffic.  Each safety property gets its own inductive part:  *)
(* the response in hand was built for a request that is counted and for a  *)
(* block that exists, and the quiet deadline follows the last data         *)
(* response.                                                               *)
(*                                                                         *)
(* Then the ATA: the service never leaves it before it has the image,      *)
(* because an ATA that still asks renews the quiet period in time.         *)
(***************************************************************************)
EXTENDS FirmwareTransfer, FiniteSetTheorems, TLAPS

(* The response between its safety check and sendto.                       *)
ReplyInv ==
    /\ (pc \notin {"send", "raised"}) => reply = {}
    /\ pc = "send" => reply # {}
    /\ \A r, q \in reply : r = q
    /\ \A r \in reply : r.kind = "block" => r.index \in Block
    /\ (cause # "none") <=> (pc = "raised")

ServedInv ==
    /\ unique \subseteq Block
    /\ {r.index : r \in {q \in sent : q.kind = "block"}} = unique

(* What the peer was told last, and what is about to be told.              *)
SelectionInv ==
    /\ pc \in {"bound", "top", "wait", "each"} => selected = advertised
    /\ \A r \in reply :
         /\ ~IsCommand(r) => selected /\ advertised
         /\ IsCommand(r) => ((r.kind = "url") <=> selected)

QuietInv ==
    /\ lastData # NoTime => lastData <= now
    /\ quietUntil # NoTime =>
         /\ unique = Block
         /\ Grace # NoTime /\ lastData # NoTime
         /\ quietUntil = lastData + Grace
    /\ pc = "returned" => Over(now, quietUntil)

IInv == ServiceTypeOK /\ ReplyInv /\ ServedInv /\ SelectionInv
        /\ QuietInv /\ RequestsAccountedFor

(* The part that needs no quiet period.                                    *)
ReplyTyped == ServiceTypeOK /\ ReplyInv

-----------------------------------------------------------------------------
(* Counting to the number of blocks means having all of them.              *)
LEMMA CompleteIsAll ==
  ASSUME NEW B, B \subseteq Block
  PROVE  Complete(B) <=> B = Block
<1>1. IsFiniteSet(Block) /\ Cardinality(Block) = NumBlocks
  BY NumBlocksAssumption, FS_Interval DEF Block
<1>2. IsFiniteSet(B) /\ Cardinality(B) = Cardinality(Block) <=> B = Block
  BY <1>1, FS_Subset
<1> QED
  BY <1>1, <1>2, FS_Subset DEF Complete

(* Bump adds one to the named counters and leaves the others alone.        *)
LEMMA BumpCounts ==
  ASSUME NEW fields, count \in [Counter -> Nat], Bump(fields)
  PROVE  /\ count' \in [Counter -> Nat]
         /\ \A c \in Counter : count'[c] = IF c \in fields THEN count[c] + 1 ELSE count[c]
  BY DEF Bump

(* Every way to handle a datagram takes it from its buffer first.          *)
LEMMA ReceiveReads == \A s, d : Receive(s, d) => AtHead(s, d)
  BY DEF Receive, Discard, Reject, CommandInvalid, CommandAnswer, DataInvalid, DataAnswer, Take

(* The buffers, as part of the types.                                      *)
QueuesOK(q) == /\ q \in [Socket -> Seq(Datagram)]
               /\ \A s \in Socket : q[s] \in Seq(Incoming(s))

(* A datagram leaves its buffer, or joins it.                              *)
LEMMA TakeShortens ==
  ASSUME ServiceTypeOK, NEW s \in Socket, NEW d, AtHead(s, d)
  PROVE  /\ QueuesOK(queue')
         /\ Len(queue'[s]) = Len(queue[s]) - 1
         /\ \A x \in Socket \ {s} : queue'[x] = queue[x]
<1>1. /\ queue' = [queue EXCEPT ![s] = Tail(queue[s])]
      /\ queue[s] # <<>>
      /\ QueuesOK(queue)
  BY DEF AtHead, ServiceTypeOK, QueuesOK
<1>2. /\ Tail(queue[s]) \in Seq(Datagram) /\ Tail(queue[s]) \in Seq(Incoming(s))
      /\ Len(Tail(queue[s])) = Len(queue[s]) - 1
  BY <1>1 DEF QueuesOK
<1> QED
  BY <1>1, <1>2 DEF QueuesOK

LEMMA ArriveLengthens ==
  ASSUME ServiceTypeOK, NEW s \in Socket, NEW d \in Incoming(s), Arrive(s, d)
  PROVE  /\ QueuesOK(queue')
         /\ Len(queue'[s]) = Len(queue[s]) + 1
         /\ \A x \in Socket \ {s} : queue'[x] = queue[x]
<1>1. /\ queue' = [queue EXCEPT ![s] = Append(queue[s], d)]
      /\ QueuesOK(queue)
  BY DEF Arrive, ServiceTypeOK, QueuesOK
<1>2. d \in Datagram
  BY DEF Incoming
<1>3. /\ Append(queue[s], d) \in Seq(Datagram) /\ Append(queue[s], d) \in Seq(Incoming(s))
      /\ Len(Append(queue[s], d)) = Len(queue[s]) + 1
  BY <1>1, <1>2 DEF QueuesOK
<1> QED
  BY <1>1, <1>3 DEF QueuesOK

-----------------------------------------------------------------------------
LEMMA InitIInv == ServiceInit => IInv
<1> SUFFICES ASSUME ServiceInit PROVE IInv
  OBVIOUS
<1>1. ServiceTypeOK
  <2>1. queue = [s \in Socket |-> <<>>] /\ \A S : <<>> \in Seq(S)
    BY DEF ServiceInit
  <2>2. count \in [Counter -> Nat]
    BY DEF ServiceInit
  <2> QED
    BY <2>1, <2>2 DEF ServiceInit, ServiceTypeOK
<1>2. RequestsAccountedFor
  BY DEF ServiceInit, RequestsAccountedFor, Counter, Socket
<1> QED
  BY <1>1, <1>2 DEF ServiceInit, IInv, ReplyInv, ServedInv, SelectionInv, QuietInv

LEMMA TypeStep == ReplyTyped /\ [ServiceNext]_serviceVars => ServiceTypeOK'
<1> SUFFICES ASSUME ReplyTyped, [ServiceNext]_serviceVars PROVE ServiceTypeOK'
  OBVIOUS
<1> USE DEF ReplyTyped
<1>1. CASE Start \/ LoopTop \/ SelectReady \/ SelectTimeout
  BY <1>1 DEF Start, LoopTop, SelectReady, SelectTimeout, ServiceTypeOK, wireVars, envVars
<1>2. ASSUME NEW s \in Socket, NEW d \in Incoming(s), Discard(s, d) PROVE ServiceTypeOK'
  BY <1>2, TakeShortens DEF Discard, AtHead, QueuesOK, ServiceTypeOK, wireVars, envVars
<1>3. ASSUME NEW s \in Socket, NEW d \in Incoming(s),
             Reject(s, d) \/ CommandInvalid(s, d) \/ DataInvalid(s, d)
      PROVE  ServiceTypeOK'
  <2>1. count' \in [Counter -> Nat]
    BY <1>3, BumpCounts DEF Reject, CommandInvalid, DataInvalid, ServiceTypeOK
  <2>2. AtHead(s, d) /\ pc' \in {"top", "each"} /\ readable' = readable \ {s}
        /\ UNCHANGED <<selected, reply, cause, badSums>>
    BY <1>3 DEF Reject, CommandInvalid, DataInvalid, Take, AfterPacket
  <2> QED
    BY <2>1, <2>2, TakeShortens DEF AtHead, QueuesOK, ServiceTypeOK, wireVars, envVars
<1>4. ASSUME NEW s \in Socket, NEW d \in Incoming(s),
             CommandAnswer(s, d) \/ DataAnswer(s, d)
      PROVE  ServiceTypeOK'
  <2>1. count' \in [Counter -> Nat]
    BY <1>4, BumpCounts DEF CommandAnswer, DataAnswer, ServiceTypeOK
  <2>2. PICK r \in Reply : Answer(r)
    <3>1. CASE CommandAnswer(s, d)
      <4>1. [kind |-> IF d.kind = "select" THEN "url" ELSE "none", index |-> 0] \in Reply
        BY NumBlocksAssumption DEF Reply
      <4> QED
        BY <3>1, <4>1 DEF CommandAnswer
    <3>2. CASE DataAnswer(s, d)
      <4>1. d.kind \in {"hello", "block"} /\ d.index \in 0 .. NumBlocks
        BY <3>2 DEF DataAnswer, Take, ValidData, Incoming, Datagram
      <4>2. [kind |-> d.kind, index |-> d.index] \in Reply
        BY <4>1 DEF Reply
      <4> QED
        BY <3>2, <4>2 DEF DataAnswer
    <3> QED
      BY <1>4, <3>1, <3>2
  <2>3. /\ AtHead(s, d) /\ readable' = readable \ {s} /\ UNCHANGED badSums
        /\ selected' \in BOOLEAN
    BY <1>4 DEF CommandAnswer, DataAnswer, Take, Selects, ServiceTypeOK
  <2>4. /\ pc' \in {"send", "raised"} /\ reply' \in SUBSET Reply
        /\ cause' \in {"none", "receive", "safety", "send"}
    BY <2>2 DEF Answer, ServiceTypeOK
  <2> QED
    BY <2>1, <2>3, <2>4, TakeShortens DEF AtHead, QueuesOK, ServiceTypeOK, wireVars, envVars
<1>5. CASE SendOk
  <2>1. PICK r \in reply : (SendCommand(r) \/ SendData(r)) /\ sent' = sent \cup {r}
    BY <1>5 DEF SendOk
  <2>2. r \in Reply
    BY <2>1 DEF ServiceTypeOK
  <2>3. count' \in [Counter -> Nat]
    BY <2>1, BumpCounts DEF SendCommand, SendData, ServiceTypeOK
  <2>4. /\ unique' \in SUBSET Block /\ quietUntil' \in Nat \cup {NoTime}
        /\ advertised' \in BOOLEAN /\ logged' \in BOOLEAN
        /\ lastData' \in Nat \cup {NoTime}
    <3>1. CASE SendCommand(r)
      BY <3>1 DEF SendCommand, ServiceTypeOK
    <3>2. CASE SendData(r)
      <4>1. unique' \in SUBSET Block
        BY <3>2, <2>1 DEF SendData, ReplyInv, ServiceTypeOK
      <4>2. quietUntil' \in Nat \cup {NoTime}
        BY <3>2, GraceAssumption DEF SendData, QuietAfter, ServiceTypeOK
      <4>3. logged' \in BOOLEAN
        BY <3>2 DEF SendData, ServiceTypeOK
      <4> QED
        BY <3>2, <4>1, <4>2, <4>3 DEF SendData, ServiceTypeOK
    <3> QED
      BY <2>1, <3>1, <3>2
  <2>5. sent' \in SUBSET Reply
    BY <2>1, <2>2 DEF ServiceTypeOK
  <2> QED
    BY <1>5, <2>3, <2>4, <2>5 DEF SendOk, ServiceTypeOK, envVars
<1>6. CASE SendFails
  BY <1>6 DEF SendFails, ServiceTypeOK, wireVars, envVars
<1>7. ASSUME NEW s \in Socket, NEW d \in Incoming(s), Arrive(s, d) PROVE ServiceTypeOK'
  <2>1. QueuesOK(queue') /\ arrived' = arrived + 1
        /\ UNCHANGED <<pc, badSums, now, networkSafe, stop, readable, selected, reply,
                       unique, count, quietUntil, logged, sent, advertised, lastData, cause>>
    BY <1>7, ArriveLengthens DEF Arrive, wireVars, loopVars
  <2> QED
    BY <2>1 DEF QueuesOK, ServiceTypeOK
<1>8. CASE Tick \/ NetworkChanges \/ RequestStop
  <2>1. now' \in Nat /\ networkSafe' \in BOOLEAN /\ stop' \in BOOLEAN
    <3>1. CASE Tick
      BY <3>1 DEF Tick, ServiceTypeOK
    <3>2. CASE NetworkChanges
      BY <3>2 DEF NetworkChanges, ServiceTypeOK
    <3>3. CASE RequestStop
      BY <3>3 DEF RequestStop, ServiceTypeOK
    <3> QED
      BY <1>8, <3>1, <3>2, <3>3
  <2>2. UNCHANGED <<loopVars, wireVars, arrived, queue, badSums, cause>>
    BY <1>8 DEF Tick, NetworkChanges, RequestStop
  <2> QED
    BY <2>1, <2>2 DEF ServiceTypeOK, wireVars, loopVars
<1>9. CASE UNCHANGED serviceVars
  BY <1>9 DEF serviceVars, loopVars, wireVars, envVars, ServiceTypeOK
<1> QED
  BY <1>1, <1>2, <1>3, <1>4, <1>5, <1>6, <1>7, <1>8, <1>9
  DEF ServiceNext, LoopStep, EnvStep, Receive

-----------------------------------------------------------------------------
(* A response exists only between its check and its send, and the service  *)
(* raises only for a cause.                                                *)
LEMMA ReplyStep == ReplyTyped /\ [ServiceNext]_serviceVars => ReplyInv'
<1> SUFFICES ASSUME ReplyTyped, [ServiceNext]_serviceVars PROVE ReplyInv'
  OBVIOUS
<1> USE DEF ReplyTyped, ReplyInv
<1>1. CASE Start \/ LoopTop \/ SelectReady \/ SelectTimeout
  BY <1>1 DEF Start, LoopTop, SelectReady, SelectTimeout
<1>2. ASSUME NEW s \in Socket, NEW d \in Incoming(s), Discard(s, d) PROVE ReplyInv'
  BY <1>2 DEF Discard, AtHead
<1>3. ASSUME NEW s \in Socket, NEW d \in Incoming(s),
             Reject(s, d) \/ CommandInvalid(s, d) \/ DataInvalid(s, d)
      PROVE  ReplyInv'
  BY <1>3 DEF Reject, CommandInvalid, DataInvalid, Take, AtHead, AfterPacket
<1>4. ASSUME NEW s \in Socket, NEW d \in Incoming(s), CommandAnswer(s, d) PROVE ReplyInv'
  <2>1. PICK r : Answer(r) /\ r.kind # "block"
    BY <1>4 DEF CommandAnswer
  <2> QED
    BY <1>4, <2>1 DEF CommandAnswer, Take, AtHead, Answer
<1>5. ASSUME NEW s \in Socket, NEW d \in Incoming(s), DataAnswer(s, d) PROVE ReplyInv'
  <2>1. PICK r : Answer(r) /\ r.index \in Block
    BY <1>5, NumBlocksAssumption DEF DataAnswer, ValidData, Incoming, Datagram, Block
  <2> QED
    BY <1>5, <2>1 DEF DataAnswer, Take, AtHead, Answer
<1>6. CASE SendOk
  BY <1>6 DEF SendOk
<1>7. CASE SendFails
  BY <1>7 DEF SendFails
<1>8. CASE EnvStep \/ UNCHANGED serviceVars
  BY <1>8 DEF EnvStep, Arrive, Tick, NetworkChanges, RequestStop, serviceVars, loopVars
<1> QED
  BY <1>1, <1>2, <1>3, <1>4, <1>5, <1>6, <1>7, <1>8 DEF ServiceNext, LoopStep, Receive

(* Only a response that left can change what was served.                   *)
LEMMA ServedStep == IInv /\ [ServiceNext]_serviceVars => ServedInv'
<1> SUFFICES ASSUME IInv, [ServiceNext]_serviceVars PROVE ServedInv'
  OBVIOUS
<1>1. CASE SendOk
  <2>1. PICK r \in reply : (SendCommand(r) \/ SendData(r)) /\ sent' = sent \cup {r}
    BY <1>1 DEF SendOk
  <2>2. CASE r.kind = "block"
    <3>1. unique' = unique \cup {r.index} /\ r.index \in Block
      BY <2>1, <2>2 DEF SendCommand, SendData, IsCommand, IInv, ReplyInv
    <3> QED
      BY <2>1, <2>2, <3>1 DEF IInv, ServedInv
  <2>3. CASE r.kind # "block"
    <3>1. unique' = unique
      BY <2>1, <2>3 DEF SendCommand, SendData
    <3> QED
      BY <2>1, <2>3, <3>1 DEF IInv, ServedInv
  <2> QED
    BY <2>2, <2>3
<1>2. CASE ~SendOk
  <2>1. ASSUME LoopStep PROVE UNCHANGED <<unique, sent>>
    <3>1. CASE Start \/ LoopTop \/ SelectReady \/ SelectTimeout
      BY <3>1 DEF Start, LoopTop, SelectReady, SelectTimeout, loopVars, wireVars
    <3>2. CASE \E s \in Socket : \E d \in Incoming(s) : Receive(s, d)
      BY <3>2, ReceiveReads DEF AtHead, wireVars
    <3>3. CASE SendFails
      BY <3>3 DEF SendFails, wireVars
    <3> QED  BY <1>2, <2>1, <3>1, <3>2, <3>3 DEF LoopStep
  <2>2. ASSUME EnvStep PROVE UNCHANGED <<unique, sent>>
    BY <2>2 DEF EnvStep, Arrive, Tick, NetworkChanges, RequestStop, loopVars, wireVars
  <2>3. ASSUME UNCHANGED serviceVars PROVE UNCHANGED <<unique, sent>>
    BY <2>3 DEF serviceVars, loopVars, wireVars
  <2>4. UNCHANGED <<unique, sent>>
    BY <2>1, <2>2, <2>3 DEF ServiceNext
  <2> QED
    BY <2>4 DEF IInv, ServedInv
<1> QED
  BY <1>1, <1>2

(* What is selected is what the peer was told, or is about to be told.     *)
LEMMA SelectionStep == IInv /\ [ServiceNext]_serviceVars => SelectionInv'
<1> SUFFICES ASSUME IInv, [ServiceNext]_serviceVars PROVE SelectionInv'
  OBVIOUS
<1> USE DEF IInv, ReplyInv, SelectionInv
<1>1. CASE Start \/ LoopTop \/ SelectReady \/ SelectTimeout
  BY <1>1 DEF Start, LoopTop, SelectReady, SelectTimeout, wireVars, ServiceTypeOK
<1>2. ASSUME NEW s \in Socket, NEW d \in Incoming(s),
             Discard(s, d) \/ Reject(s, d) \/ CommandInvalid(s, d) \/ DataInvalid(s, d)
      PROVE  SelectionInv'
  BY <1>2 DEF Discard, Reject, CommandInvalid, DataInvalid, Take, AtHead, AfterPacket, wireVars
<1>3. ASSUME NEW s \in Socket, NEW d \in Incoming(s), CommandAnswer(s, d) PROVE SelectionInv'
  <2>1. PICK r : /\ Answer(r) /\ IsCommand(r)
                 /\ (r.kind = "url") <=> (d.kind = "select")
    BY <1>3 DEF CommandAnswer, IsCommand
  <2> QED
    BY <1>3, <2>1 DEF CommandAnswer, Selects, Take, AtHead, Answer, wireVars
<1>4. ASSUME NEW s \in Socket, NEW d \in Incoming(s), DataAnswer(s, d) PROVE SelectionInv'
  <2>1. PICK r : Answer(r) /\ r.kind = d.kind
    BY <1>4 DEF DataAnswer
  <2>2. d.kind \in {"hello", "block"} /\ selected /\ advertised
    BY <1>4 DEF DataAnswer, Take, AtHead, ValidData, Incoming
  <2> QED
    BY <1>4, <2>1, <2>2 DEF DataAnswer, Take, AtHead, Answer, IsCommand, wireVars
<1>5. CASE SendOk
  <2>1. PICK r \in reply : SendCommand(r) \/ SendData(r)
    BY <1>5 DEF SendOk
  <2>2. reply' = {} /\ selected' = selected
    BY <1>5 DEF SendOk
  <2>3. CASE SendCommand(r)
    <3>1. advertised' = (r.kind = "url") /\ ((r.kind = "url") <=> selected)
      BY <2>3 DEF SendCommand
    <3> QED
      BY <2>2, <3>1 DEF ServiceTypeOK
  <2>4. CASE SendData(r)
    <3>1. advertised' = advertised /\ selected /\ advertised
      BY <2>4 DEF SendData
    <3> QED
      BY <2>2, <3>1 DEF ServiceTypeOK
  <2> QED
    BY <2>1, <2>3, <2>4
<1>6. CASE SendFails
  BY <1>6 DEF SendFails, wireVars
<1>7. CASE EnvStep \/ UNCHANGED serviceVars
  BY <1>7 DEF EnvStep, Arrive, Tick, NetworkChanges, RequestStop, serviceVars,
              loopVars, wireVars
<1> QED
  BY <1>1, <1>2, <1>3, <1>4, <1>5, <1>6, <1>7 DEF ServiceNext, LoopStep, Receive

(* The quiet deadline is the last data response plus the grace period.     *)
LEMMA QuietStep == IInv /\ [ServiceNext]_serviceVars => QuietInv'
<1> SUFFICES ASSUME IInv, [ServiceNext]_serviceVars PROVE QuietInv'
  OBVIOUS
<1>1. CASE LoopTop
  BY <1>1 DEF LoopTop, Over, IInv, QuietInv, wireVars, envVars
<1>2. CASE SendOk
  <2>1. PICK r \in reply : SendCommand(r) \/ SendData(r)
    BY <1>2 DEF SendOk
  <2>2. pc' # "returned" /\ now' = now
    BY <1>2 DEF SendOk, envVars
  <2>3. CASE SendCommand(r)
    BY <2>2, <2>3 DEF SendCommand, IInv, QuietInv
  <2>4. CASE SendData(r)
    <3>1. lastData' = now /\ now \in Nat /\ lastData' # NoTime
      BY <2>4, NoTimeAssumption DEF SendData, IInv, ServiceTypeOK
    <3>2. unique' \subseteq Block /\ unique \subseteq unique'
      BY <2>4 DEF SendData, IInv, ServedInv, ReplyInv
    <3>3. Complete(unique') <=> unique' = Block
      BY <3>2, CompleteIsAll
    <3>4. CASE Complete(unique') /\ Grace # NoTime
      <4>1. quietUntil' = lastData' + Grace
        BY <2>4, <3>1, <3>4 DEF SendData, QuietAfter
      <4> QED
        BY <2>2, <3>1, <3>3, <3>4, <4>1 DEF QuietInv
    <3>5. CASE ~(Complete(unique') /\ Grace # NoTime)
      <4>1. quietUntil' = quietUntil
        BY <2>4, <3>5 DEF SendData, QuietAfter
      <4>2. quietUntil = NoTime
        BY <3>2, <3>3, <3>5 DEF IInv, QuietInv
      <4> QED
        BY <2>2, <3>1, <4>1, <4>2 DEF QuietInv
    <3> QED
      BY <3>4, <3>5
  <2> QED
    BY <2>1, <2>3, <2>4
<1>3. CASE EnvStep
  <2>1. UNCHANGED <<unique, quietUntil, lastData>> /\ pc' = pc /\ pc # "returned"
        /\ now' \in {now, now + 1}
    BY <1>3 DEF EnvStep, Arrive, Tick, NetworkChanges, RequestStop, Running,
                loopVars, wireVars
  <2> QED
    BY <2>1 DEF IInv, QuietInv, ServiceTypeOK
<1>4. CASE UNCHANGED serviceVars
  BY <1>4 DEF serviceVars, loopVars, wireVars, envVars, IInv, QuietInv, Over
<1>5. CASE ~LoopTop /\ ~SendOk /\ LoopStep
  <2>1. UNCHANGED <<unique, quietUntil, lastData, now>> /\ pc' # "returned"
    BY <1>5 DEF LoopStep, Start, SelectReady, SelectTimeout, Receive, Discard, Reject,
                CommandInvalid, CommandAnswer, DataInvalid, DataAnswer, Answer, Take,
                AtHead, AfterPacket, SendFails, wireVars, envVars
  <2> QED
    BY <2>1 DEF IInv, QuietInv
<1> QED
  BY <1>1, <1>2, <1>3, <1>4, <1>5 DEF ServiceNext

(* The six counters after Bump, and their types.                           *)
Counted(fields) ==
    /\ count'["command_requests"] =
         IF "command_requests" \in fields THEN count["command_requests"] + 1
                                          ELSE count["command_requests"]
    /\ count'["command_responses"] =
         IF "command_responses" \in fields THEN count["command_responses"] + 1
                                           ELSE count["command_responses"]
    /\ count'["data_requests"] =
         IF "data_requests" \in fields THEN count["data_requests"] + 1
                                       ELSE count["data_requests"]
    /\ count'["data_responses"] =
         IF "data_responses" \in fields THEN count["data_responses"] + 1
                                        ELSE count["data_responses"]
    /\ count'["invalid_requests"] =
         IF "invalid_requests" \in fields THEN count["invalid_requests"] + 1
                                          ELSE count["invalid_requests"]
    /\ count'["rejected_requests"] =
         IF "rejected_requests" \in fields THEN count["rejected_requests"] + 1
                                           ELSE count["rejected_requests"]

LEMMA BumpEach ==
  ASSUME count \in [Counter -> Nat], NEW fields, Bump(fields)
  PROVE  Counted(fields)
  BY DEF Bump, Counter, Counted

(* What each buffer holds.                                                 *)
HeldCommand == Len(queue["command"])
HeldData == Len(queue["data"])

CountsAreNat ==
    /\ count["command_requests"] \in Nat /\ count["command_responses"] \in Nat
    /\ count["data_requests"] \in Nat /\ count["data_responses"] \in Nat
    /\ count["invalid_requests"] \in Nat /\ count["rejected_requests"] \in Nat
    /\ HeldCommand \in Nat /\ HeldData \in Nat
    /\ arrived \in Nat /\ badSums \in Nat

LEMMA TypesCount == ServiceTypeOK => CountsAreNat
  BY DEF ServiceTypeOK, CountsAreNat, Counter, Socket, HeldCommand, HeldData

(* What is unread, before and after a datagram is taken or arrives.        *)
LEMMA TakeHeld ==
  ASSUME ServiceTypeOK, NEW s \in Socket, NEW d, AtHead(s, d)
  PROVE  \/ HeldCommand' = HeldCommand - 1 /\ HeldData' = HeldData
         \/ HeldCommand' = HeldCommand /\ HeldData' = HeldData - 1
<1>1. CASE s = "command"
  <2>1. Len(queue'["command"]) = Len(queue["command"]) - 1 /\ queue'["data"] = queue["data"]
    BY <1>1, TakeShortens DEF Socket
  <2> QED
    BY <2>1 DEF HeldCommand, HeldData
<1>2. CASE s = "data"
  <2>1. Len(queue'["data"]) = Len(queue["data"]) - 1 /\ queue'["command"] = queue["command"]
    BY <1>2, TakeShortens DEF Socket
  <2> QED
    BY <2>1 DEF HeldCommand, HeldData
<1> QED
  BY <1>1, <1>2 DEF Socket

LEMMA ArriveHeld ==
  ASSUME ServiceTypeOK, NEW s \in Socket, NEW d \in Incoming(s), Arrive(s, d)
  PROVE  \/ HeldCommand' = HeldCommand + 1 /\ HeldData' = HeldData
         \/ HeldCommand' = HeldCommand /\ HeldData' = HeldData + 1
<1>1. CASE s = "command"
  <2>1. Len(queue'["command"]) = Len(queue["command"]) + 1 /\ queue'["data"] = queue["data"]
    BY <1>1, ArriveLengthens DEF Socket
  <2> QED
    BY <2>1 DEF HeldCommand, HeldData
<1>2. CASE s = "data"
  <2>1. Len(queue'["data"]) = Len(queue["data"]) + 1 /\ queue'["command"] = queue["command"]
    BY <1>2, ArriveLengthens DEF Socket
  <2> QED
    BY <2>1 DEF HeldCommand, HeldData
<1> QED
  BY <1>1, <1>2 DEF Socket

(* RequestsAccountedFor, with what is unread under two names.              *)
Open == IF pc = "send" \/ cause \in {"safety", "send"} THEN 1 ELSE 0

Balance ==
    /\ count["command_requests"] + count["data_requests"]
         = count["command_responses"] + count["data_responses"]
           + count["invalid_requests"] + Open
    /\ arrived = count["command_requests"] + count["data_requests"]
                 + count["rejected_requests"] + badSums + (HeldCommand + HeldData)

LEMMA BalanceIs == /\ Balance <=> RequestsAccountedFor
                   /\ Balance' <=> RequestsAccountedFor'
  BY Zenon DEF Balance, RequestsAccountedFor, Open, HeldCommand, HeldData

LEMMA OneMore ==
  ASSUME NEW a \in Nat, NEW b \in Nat, NEW c \in Nat, NEW d \in Nat, NEW e \in Nat,
         a + b = c + d + e
  PROVE  a + 1 + b = c + d + (e + 1) + 0
  OBVIOUS

(* Every datagram moves from one counter to the next, none twice.          *)
LEMMA AccountStep == IInv /\ [ServiceNext]_serviceVars => RequestsAccountedFor'
<1> SUFFICES ASSUME IInv, [ServiceNext]_serviceVars PROVE Balance'
  BY BalanceIs
<1>0. ServiceTypeOK /\ Balance /\ ReplyInv /\ CountsAreNat
      /\ count \in [Counter -> Nat]
  BY TypesCount, BalanceIs DEF IInv, ServiceTypeOK
<1>n. /\ count["command_requests"] \in Nat /\ count["command_responses"] \in Nat
      /\ count["data_requests"] \in Nat /\ count["data_responses"] \in Nat
      /\ count["invalid_requests"] \in Nat
  BY <1>0 DEF CountsAreNat
<1> USE DEF Balance, Open, CountsAreNat, Counted
<1>1. CASE Start \/ LoopTop \/ SelectReady \/ SelectTimeout
  <2>1. UNCHANGED <<count, HeldCommand, HeldData, arrived, badSums, cause>> /\ pc # "send" /\ pc' # "send"
    BY <1>1 DEF Start, LoopTop, SelectReady, SelectTimeout, envVars, HeldCommand, HeldData
  <2> QED
    BY <1>0, <2>1
<1>2. ASSUME NEW s \in Socket, NEW d \in Incoming(s), Receive(s, d)
      PROVE  Balance'
  <2>1. pc = "each" /\ arrived' = arrived /\ AtHead(s, d)
    BY <1>2 DEF Receive, Discard, Reject, CommandInvalid, CommandAnswer, DataInvalid,
                DataAnswer, Take, AtHead, envVars
  <2>2. cause = "none"
    BY <1>0, <2>1 DEF ReplyInv
  <2>3. \/ HeldCommand' = HeldCommand - 1 /\ HeldData' = HeldData
        \/ HeldCommand' = HeldCommand /\ HeldData' = HeldData - 1
    BY <1>0, <2>1, TakeHeld
  <2>4. CASE Discard(s, d)
    <3>1. count' = count /\ badSums' = badSums + 1
          /\ pc' \in {"each", "raised"} /\ cause' \in {"none", "receive"}
      BY <2>1, <2>2, <2>4 DEF Discard
    <3> QED
      BY <1>0, <2>1, <2>2, <2>3, <3>1
  <2>5. ASSUME NEW fields,
               fields \in {{"rejected_requests"}, {"command_requests", "invalid_requests"},
                           {"data_requests", "invalid_requests"}},
               Bump(fields), pc' \in {"top", "each"}, cause' = cause, badSums' = badSums
        PROVE  Balance'
    <3>1. Counted(fields)
      BY <1>0, <2>5, BumpEach
    <3>2. CASE fields = {"rejected_requests"}
      BY <1>0, <2>1, <2>2, <2>3, <2>5, <3>1, <3>2
    <3>3. CASE fields = {"command_requests", "invalid_requests"}
      <4>1. /\ count'["command_requests"] = count["command_requests"] + 1
            /\ count'["invalid_requests"] = count["invalid_requests"] + 1
            /\ count'["data_requests"] = count["data_requests"]
            /\ count'["command_responses"] = count["command_responses"]
            /\ count'["data_responses"] = count["data_responses"]
            /\ count'["rejected_requests"] = count["rejected_requests"]
        BY <3>1, <3>3
      <4>2. Open = 0 /\ Open' = 0
        BY <2>1, <2>2, <2>5
      <4>3. arrived' = count'["command_requests"] + count'["data_requests"]
                       + count'["rejected_requests"] + badSums' + (HeldCommand' + HeldData')
        BY <1>0, <2>1, <2>3, <2>5, <4>1
      <4>4. count["command_requests"] + count["data_requests"]
              = count["command_responses"] + count["data_responses"]
                + count["invalid_requests"]
        BY <1>0, <4>2
      <4>5. count'["command_requests"] + count'["data_requests"]
              = count'["command_responses"] + count'["data_responses"]
                + count'["invalid_requests"] + Open'
        BY <1>n, <4>1, <4>2, <4>4, OneMore
      <4> QED
        BY <4>3, <4>5
    <3>4. CASE fields = {"data_requests", "invalid_requests"}
      <4>1. /\ count'["data_requests"] = count["data_requests"] + 1
            /\ count'["invalid_requests"] = count["invalid_requests"] + 1
            /\ count'["command_requests"] = count["command_requests"]
            /\ count'["command_responses"] = count["command_responses"]
            /\ count'["data_responses"] = count["data_responses"]
            /\ count'["rejected_requests"] = count["rejected_requests"]
        BY <3>1, <3>4
      <4>2. Open = 0 /\ Open' = 0
        BY <2>1, <2>2, <2>5
      <4>3. arrived' = count'["command_requests"] + count'["data_requests"]
                       + count'["rejected_requests"] + badSums' + (HeldCommand' + HeldData')
        BY <1>0, <2>1, <2>3, <2>5, <4>1
      <4>4. count["data_requests"] + count["command_requests"]
              = count["command_responses"] + count["data_responses"]
                + count["invalid_requests"]
        BY <1>0, <4>2
      <4>5. count'["data_requests"] + count'["command_requests"]
              = count'["command_responses"] + count'["data_responses"]
                + count'["invalid_requests"] + Open'
        BY <1>n, <4>1, <4>2, <4>4, OneMore
      <4> QED
        BY <1>0, <4>1, <4>3, <4>5
    <3> QED
      BY <2>5, <3>2, <3>3, <3>4
  <2>6. CASE Reject(s, d) \/ CommandInvalid(s, d) \/ DataInvalid(s, d)
    BY <2>5, <2>6 DEF Reject, CommandInvalid, DataInvalid, Take, AfterPacket
  <2>7. ASSUME NEW fields, fields \in {{"command_requests"}, {"data_requests"}},
               Bump(fields), NEW r, Answer(r), badSums' = badSums
        PROVE  Balance'
    <3>1. Counted(fields)
      BY <1>0, <2>7, BumpEach
    <3>2. (pc' = "send" /\ cause' = "none") \/ (pc' = "raised" /\ cause' = "safety")
      BY <2>2, <2>7 DEF Answer
    <3> QED
      BY <1>0, <2>1, <2>2, <2>3, <2>7, <3>1, <3>2
  <2>8. CASE CommandAnswer(s, d)
    BY <2>7, <2>8 DEF CommandAnswer, Take
  <2>9. CASE DataAnswer(s, d)
    BY <2>7, <2>9 DEF DataAnswer, Take
  <2> QED
    BY <1>2, <2>4, <2>6, <2>8, <2>9 DEF Receive
<1>3. CASE SendOk
  <2>1. PICK r \in reply : SendCommand(r) \/ SendData(r)
    BY <1>3 DEF SendOk
  <2>2. pc = "send" /\ pc' # "send" /\ cause' = "none" /\ cause = "none"
        /\ UNCHANGED <<HeldCommand, HeldData, arrived, badSums>>
    BY <1>0, <1>3 DEF SendOk, envVars, ReplyInv, HeldCommand, HeldData
  <2>3. CASE SendCommand(r)
    <3>1. Counted({"command_responses"})
      BY <1>0, <2>3, BumpEach DEF SendCommand
    <3> QED
      BY <1>0, <2>2, <3>1
  <2>4. CASE SendData(r)
    <3>1. Counted({"data_responses"})
      BY <1>0, <2>4, BumpEach DEF SendData
    <3> QED
      BY <1>0, <2>2, <3>1
  <2> QED
    BY <2>1, <2>3, <2>4
<1>4. CASE SendFails
  <2>1. UNCHANGED <<count, HeldCommand, HeldData, arrived, badSums>> /\ pc = "send" /\ cause' = "send"
    BY <1>4 DEF SendFails, envVars, HeldCommand, HeldData
  <2> QED
    BY <1>0, <2>1
<1>5. ASSUME NEW s \in Socket, NEW d \in Incoming(s), Arrive(s, d)
      PROVE  Balance'
  <2>1. arrived' = arrived + 1 /\ UNCHANGED <<pc, cause, count, badSums>>
    BY <1>5 DEF Arrive, loopVars
  <2>2. \/ HeldCommand' = HeldCommand + 1 /\ HeldData' = HeldData
        \/ HeldCommand' = HeldCommand /\ HeldData' = HeldData + 1
    BY <1>0, <1>5, ArriveHeld
  <2> QED
    BY <1>0, <2>1, <2>2
<1>6. CASE Tick \/ NetworkChanges \/ RequestStop \/ UNCHANGED serviceVars
  <2>1. UNCHANGED <<pc, cause, count, HeldCommand, HeldData, arrived, badSums>>
    BY <1>6 DEF Tick, NetworkChanges, RequestStop, serviceVars, loopVars,
                envVars, HeldCommand, HeldData
  <2> QED
    BY <1>0, <2>1
<1> QED
  BY <1>1, <1>2, <1>3, <1>4, <1>5, <1>6 DEF ServiceNext, LoopStep, EnvStep

-----------------------------------------------------------------------------
(* The strengthened invariant holds in every reachable state.              *)
LEMMA Invariant == ServiceSpec => []IInv
<1>1. IInv /\ [ServiceNext]_serviceVars => IInv'
  BY TypeStep, ReplyStep, ServedStep, SelectionStep, QuietStep, AccountStep DEF IInv, ReplyTyped
<1> QED
  BY InitIInv, <1>1, PTL DEF ServiceSpec

(* Every variable of the service keeps its type.                           *)
THEOREM ServiceTypeCorrect == ServiceSpec => []ServiceTypeOK
<1>1. IInv => ServiceTypeOK
  BY DEF IInv
<1> QED
  BY Invariant, <1>1, PTL

(* A complete result counts every block of the image and nothing else, and *)
(* each of them was put on the wire.                                       *)
THEOREM CompleteIsEveryBlock == ServiceSpec => []CompleteMeansEveryBlock
<1>1. IInv => CompleteMeansEveryBlock
  BY CompleteIsAll DEF IInv, ServedInv, CompleteMeansEveryBlock
<1> QED
  BY Invariant, <1>1, PTL

(* The packet counters of the result add up to the datagrams that arrived. *)
THEOREM Accounted == ServiceSpec => []RequestsAccountedFor
<1>1. IInv => RequestsAccountedFor
  BY DEF IInv
<1> QED
  BY Invariant, <1>1, PTL

(* The service leaves early only on a stop request or after a quiet grace  *)
(* period that follows the last data response.                             *)
THEOREM QuietBeforeReturn == ServiceSpec => []EarlyReturnIsQuiet
<1>1. IInv => EarlyReturnIsQuiet
  <2> SUFFICES ASSUME IInv, pc = "returned", now < Duration, ~stop
               PROVE  Complete(unique) /\ lastData # NoTime /\ now - lastData >= Grace
    BY DEF EarlyReturnIsQuiet
  <2>1. now \in Nat /\ Duration \in Nat /\ lastData \in Nat \cup {NoTime}
    BY DurationAssumption DEF IInv, ServiceTypeOK
  <2>2. quietUntil # NoTime /\ now >= quietUntil
    BY <2>1 DEF IInv, QuietInv, Over
  <2>3. unique = Block /\ lastData \in Nat /\ Grace \in Nat /\ quietUntil = lastData + Grace
    BY <2>1, <2>2, GraceAssumption DEF IInv, QuietInv
  <2>4. Complete(unique)
    BY <2>3, CompleteIsAll
  <2>5. lastData # NoTime
    BY <2>3, NoTimeAssumption
  <2>6. now - lastData >= Grace
    BY <2>1, <2>2, <2>3
  <2> QED
    BY <2>4, <2>5, <2>6
<1> QED
  BY Invariant, <1>1, PTL

(* No block and no hello response leaves unless the peer was last told     *)
(* that the image is on offer.                                             *)
THEOREM DataIsAdvertised == ServiceSpec => DataOnlyWhileAdvertised
<1>1. IInv /\ [ServiceNext]_serviceVars =>
        [count'["data_responses"] # count["data_responses"] => advertised]_serviceVars
  <2> SUFFICES ASSUME IInv, [ServiceNext]_serviceVars,
                      count'["data_responses"] # count["data_responses"]
               PROVE  advertised
    OBVIOUS
  <2>1. CASE SendOk
    <3>1. PICK r \in reply : SendCommand(r) \/ SendData(r)
      BY <2>1 DEF SendOk
    <3>2. ~SendCommand(r)
      BY BumpCounts DEF SendCommand, IInv, ServiceTypeOK, Counter
    <3> QED
      BY <3>1, <3>2 DEF SendData, IInv, SelectionInv
  <2>2. ASSUME NEW s \in Socket, NEW d \in Incoming(s), Receive(s, d) PROVE FALSE
    <3>1. count'["data_responses"] = count["data_responses"]
      BY <2>2, BumpCounts
      DEF Receive, Discard, Reject, CommandInvalid, CommandAnswer, DataInvalid, DataAnswer,
          IInv, ServiceTypeOK, Counter
    <3> QED
      BY <3>1
  <2>3. CASE ~SendOk /\ ~(\E s \in Socket : \E d \in Incoming(s) : Receive(s, d))
    BY <2>3 DEF ServiceNext, LoopStep, EnvStep, Start, LoopTop, SelectReady, SelectTimeout,
                SendFails, Arrive, Tick, NetworkChanges, RequestStop, serviceVars, loopVars
  <2> QED
    BY <2>1, <2>2, <2>3
<1> QED
  BY Invariant, <1>1, PTL DEF ServiceSpec, DataOnlyWhileAdvertised

-----------------------------------------------------------------------------
(* The service with an ATA.                                                *)

Held(s) == {queue[s][i] : i \in 1 .. Len(queue[s])}

(* The ATA has come as far as block b.                                     *)
Reached(b) == stage \in {"blocks", "done"} /\ b <= wanted

AtaTypes ==
    /\ stage \in {"idle", "selection", "hello", "blocks", "done"}
    /\ wanted \in Nat /\ timer \in 0 .. Retry /\ lostRequests \in 0 .. RequestLosses
    /\ stage # "done" => wanted < NumBlocks
    /\ stage \in {"idle", "selection", "hello"} => wanted = 0
    /\ ~stop /\ networkSafe

(* What was asked, answered and served, the ATA has come to.               *)
AskedInv ==
    /\ \A d \in Held("command") : d.kind = "select"
    /\ \A d \in Held("data") : /\ d.kind \in {"hello", "block"} /\ d.index \in Block
                               /\ d.kind = "block" => Reached(d.index)
    /\ \A r \in reply : r.kind = "block" => Reached(r.index)
    /\ \A b \in unique : Reached(b)
    /\ stage \in {"idle", "selection"} =>
         Held("data") = {} /\ (\A r \in reply : IsCommand(r)) /\ lastData = NoTime

(* What the ATA heard, or is about to, the service has counted.            *)
HeardInv ==
    /\ stage \in {"hello", "blocks", "done"} => selected
    /\ \A r \in air : /\ r.kind = "url" => selected
                      /\ r.kind = "block" => r.index \in unique
    /\ \A b \in Block : stage = "done" \/ b < wanted => b \in unique

(* A data request the service has and has yet to answer.                   *)
Pending == Held("data") # {} \/ \E r \in reply : ~IsCommand(r)

(* The ATA asks every Retry ticks, and only lost requests go unanswered.   *)
Budget == Retry * lostRequests + Retry

PaceInv ==
    stage \in {"hello", "blocks"} /\ lastData # NoTime =>
        /\ now <= lastData + Budget
        /\ Pending \/ now + timer <= lastData + Budget

AtaInv == IInv /\ AtaTypes /\ AskedInv /\ HeardInv /\ PaceInv

-----------------------------------------------------------------------------
LEMMA TakeHolds ==
  ASSUME ServiceTypeOK, NEW s \in Socket, NEW d, AtHead(s, d)
  PROVE  /\ d \in Held(s)
         /\ \A x \in Socket : Held(x)' \subseteq Held(x)
         /\ \A x \in Socket \ {s} : Held(x)' = Held(x)
<1>1. /\ queue[s] \in Seq(Datagram) /\ queue[s] # <<>> /\ d = Head(queue[s])
      /\ queue'[s] = Tail(queue[s])
      /\ \A x \in Socket \ {s} : queue'[x] = queue[x]
  BY DEF AtHead, ServiceTypeOK
<1>2. d \in Held(s)
  BY <1>1 DEF Held
<1>3. /\ Len(queue'[s]) = Len(queue[s]) - 1 /\ Len(queue[s]) \in Nat
      /\ \A i \in 1 .. Len(queue[s]) - 1 : queue'[s][i] = queue[s][i + 1]
  BY <1>1
<1>4. ASSUME NEW i \in 1 .. Len(queue[s]) - 1
      PROVE  queue'[s][i] \in Held(s)
  <2>1. i + 1 \in 1 .. Len(queue[s])
    BY <1>3
  <2> QED  BY <1>3, <2>1 DEF Held
<1>5. Held(s)' \subseteq Held(s)
  BY <1>3, <1>4 DEF Held
<1>6. \A x \in Socket \ {s} : Held(x)' = Held(x)
  BY <1>1 DEF Held
<1> QED  BY <1>2, <1>5, <1>6

LEMMA ArriveHolds ==
  ASSUME ServiceTypeOK, NEW s \in Socket, NEW d, Arrive(s, d)
  PROVE  /\ Held(s)' = Held(s) \cup {d}
         /\ \A x \in Socket \ {s} : Held(x)' = Held(x)
<1>1. /\ queue[s] \in Seq(Datagram) /\ queue'[s] = Append(queue[s], d)
      /\ \A x \in Socket \ {s} : queue'[x] = queue[x]
  BY DEF Arrive, ServiceTypeOK
<1>2. /\ Len(queue'[s]) = Len(queue[s]) + 1 /\ Len(queue[s]) \in Nat
      /\ queue'[s][Len(queue[s]) + 1] = d
      /\ \A i \in 1 .. Len(queue[s]) : queue'[s][i] = queue[s][i]
  BY <1>1
<1>3. Held(s)' \subseteq Held(s) \cup {d}
  BY <1>2 DEF Held
<1>4. Held(s) \cup {d} \subseteq Held(s)'
  BY <1>2 DEF Held
<1> QED  BY <1>1, <1>3, <1>4 DEF Held

(* The service meets well-formed requests in time, so it only answers.     *)
LEMMA ServeOnlyAnswers ==
  ASSUME AtaInv, LoopStep, UNCHANGED cause
  PROVE  \/ Start \/ LoopTop \/ SelectReady \/ SelectTimeout
         \/ \E d \in Held("command") : CommandAnswer("command", d)
         \/ \E d \in Held("data") : DataAnswer("data", d)
         \/ SendOk
<1>1. ~SendFails
  BY DEF AtaInv, IInv, ReplyInv, SendFails
<1>2. ASSUME NEW s \in Socket, NEW d \in Incoming(s), Receive(s, d)
      PROVE  \/ s = "command" /\ CommandAnswer("command", d) /\ d \in Held("command")
             \/ s = "data" /\ DataAnswer("data", d) /\ d \in Held("data")
  <2>1. AtHead(s, d)
    BY <1>2 DEF Receive, Discard, Reject, CommandInvalid, CommandAnswer, DataInvalid,
                DataAnswer, Take
  <2>2. d \in Held(s)
    BY <2>1, TakeHolds DEF AtaInv, IInv
  <2>3. CASE s = "command"
    <3>1. d.kind = "select"
      BY <2>2, <2>3 DEF AtaInv, AskedInv
    <3> QED  BY <1>2, <2>2, <2>3, <3>1 DEF Receive, Discard, Reject, CommandInvalid, DataInvalid,
                                           DataAnswer
  <2>4. CASE s = "data"
    <3>1. /\ d.kind \in {"hello", "block"} /\ d.index \in Block
          /\ stage \in {"hello", "blocks", "done"}
      BY <2>2, <2>4 DEF AtaInv, AskedInv, AtaTypes
    <3>2. ValidData(d)
      BY <3>1, NumBlocksAssumption DEF ValidData, AtaInv, HeardInv, Block
    <3> QED  BY <1>2, <2>2, <2>4, <3>1, <3>2 DEF Receive, Discard, Reject, CommandInvalid,
                                                 CommandAnswer, DataInvalid
  <2> QED  BY <2>3, <2>4 DEF Socket
<1> QED  BY <1>1, <1>2 DEF LoopStep
-----------------------------------------------------------------------------
AtaStays == AtaTypes /\ AskedInv /\ HeardInv /\ PaceInv

LEMMA BudgetIs == AtaTypes => Budget \in Nat /\ Retry \in Nat
  BY RetryAssumption, LossAssumption DEF AtaTypes, Budget

(* What a step of the service leaves alone.                                *)
LEMMA ServeAside ==
  ASSUME AtaInv, ServeStep
  PROVE  /\ UNCHANGED <<ataVars, lostRequests>> /\ AtaTypes' /\ Budget' = Budget
         /\ \A b : Reached(b)' <=> Reached(b)
<1>1. UNCHANGED <<ataVars, lostRequests>>
  BY DEF ServeStep
<1>2. UNCHANGED <<stop, networkSafe>>
  <2>1. CASE Start \/ LoopTop \/ SelectReady \/ SelectTimeout
    BY <2>1 DEF Start, LoopTop, SelectReady, SelectTimeout, envVars
  <2>2. CASE \E s \in Socket : \E d \in Incoming(s) : Receive(s, d)
    BY <2>2, ReceiveReads DEF AtHead, envVars
  <2>3. CASE SendOk \/ SendFails
    BY <2>3 DEF SendOk, SendFails, envVars
  <2> QED  BY <2>1, <2>2, <2>3 DEF ServeStep, LoopStep
<1> QED  BY <1>1, <1>2 DEF AtaInv, AtaTypes, ataVars, Budget, Reached

LEMMA ServeIdle ==
  ASSUME AtaInv, ServeStep, Start \/ LoopTop \/ SelectReady \/ SelectTimeout
  PROVE  AtaStays'
<1>1. UNCHANGED <<queue, reply, selected, unique, lastData, now>>
  BY DEF Start, LoopTop, SelectReady, SelectTimeout, wireVars, envVars
<1>2. air' = air
  BY <1>1 DEF ServeStep
<1>3. Held("command")' = Held("command") /\ Held("data")' = Held("data")
  BY <1>1 DEF Held
<1>4. AskedInv' /\ HeardInv' /\ PaceInv'
  BY <1>1, <1>2, <1>3, ServeAside DEF AtaInv, AskedInv, HeardInv, PaceInv, Pending, ataVars
<1> QED  BY <1>4, ServeAside DEF AtaStays

LEMMA ServeCommand ==
  ASSUME AtaInv, ServeStep, NEW d \in Held("command"), CommandAnswer("command", d)
  PROVE  AtaStays'
<1>1. d.kind = "select" /\ networkSafe /\ AtHead("command", d)
  BY DEF AtaInv, AtaTypes, AskedInv, CommandAnswer, Take
<1>2. reply' = {[kind |-> "url", index |-> 0]} /\ selected'
  BY <1>1 DEF CommandAnswer, Selects, Answer
<1>3. UNCHANGED <<unique, lastData, now>> /\ reply = {}
  BY <1>1 DEF AtHead, wireVars, envVars, AtaInv, IInv, ReplyInv
<1>4. Held("command")' \subseteq Held("command") /\ Held("data")' = Held("data")
  BY <1>1, TakeHolds DEF AtaInv, IInv, Socket
<1>5. air' = air
  BY <1>3 DEF ServeStep
<1>6. AskedInv'
  BY <1>2, <1>3, <1>4, ServeAside DEF AtaInv, AskedInv, IsCommand, ataVars
<1>7. HeardInv'
  BY <1>2, <1>3, <1>5, ServeAside DEF AtaInv, HeardInv, ataVars
<1>8. Pending => Pending'
  BY <1>3, <1>4 DEF Pending
<1>9. PaceInv'
  BY <1>3, <1>8, ServeAside DEF AtaInv, PaceInv, ataVars
<1> QED  BY <1>6, <1>7, <1>9, ServeAside DEF AtaStays

LEMMA ServeData ==
  ASSUME AtaInv, ServeStep, NEW d \in Held("data"), DataAnswer("data", d)
  PROVE  AtaStays'
<1>1. /\ d.kind \in {"hello", "block"} /\ (d.kind = "block" => Reached(d.index))
      /\ stage \notin {"idle", "selection"} /\ networkSafe /\ AtHead("data", d)
  BY DEF AtaInv, AtaTypes, AskedInv, DataAnswer, Take
<1>2. reply' = {[kind |-> d.kind, index |-> d.index]} /\ selected' = selected
  BY <1>1 DEF DataAnswer, Answer
<1>3. UNCHANGED <<unique, lastData, now>> /\ reply = {}
  BY <1>1 DEF AtHead, wireVars, envVars, AtaInv, IInv, ReplyInv
<1>4. Held("command")' = Held("command") /\ Held("data")' \subseteq Held("data")
  BY <1>1, TakeHolds DEF AtaInv, IInv, Socket
<1>5. air' = air
  BY <1>3 DEF ServeStep
<1>6. AskedInv'
  BY <1>1, <1>2, <1>3, <1>4, ServeAside DEF AtaInv, AskedInv, ataVars
<1>7. HeardInv'
  BY <1>2, <1>3, <1>5, ServeAside DEF AtaInv, HeardInv, ataVars
<1>8. Pending'
  BY <1>1, <1>2 DEF Pending, IsCommand
<1>9. PaceInv'
  BY <1>3, <1>8, ServeAside DEF AtaInv, PaceInv, ataVars
<1> QED  BY <1>6, <1>7, <1>9, ServeAside DEF AtaStays

LEMMA ServeSend ==
  ASSUME AtaInv, ServeStep, SendOk
  PROVE  AtaStays'
<1>1. PICK r \in reply : SendCommand(r) \/ SendData(r)
  BY DEF SendOk
<1>2. /\ reply = {r} /\ reply' = {} /\ air' = air \cup {r}
      /\ UNCHANGED <<selected, queue, now>>
      /\ r.kind = "url" => selected
  BY DEF SendOk, ServeStep, envVars, AtaInv, IInv, ReplyInv, SelectionInv, IsCommand
<1>3. Held("command")' = Held("command") /\ Held("data")' = Held("data")
  BY <1>2 DEF Held
<1>4. CASE SendCommand(r)
  <2>1. IsCommand(r) /\ UNCHANGED <<unique, lastData>>
    BY <1>4 DEF SendCommand
  <2>2. AskedInv'
    BY <1>2, <1>3, <2>1, ServeAside DEF AtaInv, AskedInv, ataVars
  <2>3. HeardInv'
    BY <1>2, <2>1, ServeAside DEF AtaInv, HeardInv, IsCommand, ataVars
  <2>4. Pending => Pending'
    BY <1>2, <1>3, <2>1 DEF Pending
  <2>5. PaceInv'
    BY <1>2, <2>1, <2>4, ServeAside DEF AtaInv, PaceInv, ataVars
  <2> QED  BY <2>2, <2>3, <2>5, ServeAside DEF AtaStays
<1>5. CASE SendData(r)
  <2>1. /\ ~IsCommand(r) /\ lastData' = now
        /\ unique' = IF r.kind = "block" THEN unique \cup {r.index} ELSE unique
    BY <1>5 DEF SendData
  <2>2. stage \notin {"idle", "selection"}
    BY <2>1 DEF AtaInv, AskedInv
  <2>3. AskedInv'
    BY <1>2, <1>3, <2>1, <2>2, ServeAside DEF AtaInv, AskedInv, ataVars
  <2>4. HeardInv'
    BY <1>2, <2>1, ServeAside DEF AtaInv, HeardInv, IsCommand, ataVars
  <2>5. timer \in 0 .. Retry /\ Retry \in Nat /\ lostRequests \in Nat /\ now \in Nat
    BY RetryAssumption, LossAssumption DEF AtaInv, IInv, ServiceTypeOK, AtaTypes
  <2>6. timer <= Budget /\ Budget \in Nat
    BY <2>5 DEF Budget
  <2>7. PaceInv'
    BY <1>2, <2>1, <2>5, <2>6, ServeAside DEF PaceInv, ataVars
  <2> QED  BY <2>3, <2>4, <2>7, ServeAside DEF AtaStays
<1> QED  BY <1>1, <1>4, <1>5

LEMMA ServeKeeps == AtaInv /\ ServeStep => AtaStays'
<1> SUFFICES ASSUME AtaInv, ServeStep PROVE AtaStays'
  OBVIOUS
<1> QED  BY ServeOnlyAnswers, ServeIdle, ServeCommand, ServeData, ServeSend DEF ServeStep
(* The ATA and the network.                                                *)
LEMMA DialKeeps == AtaInv /\ Dial => AtaStays'
<1> SUFFICES ASSUME AtaInv, Dial PROVE AtaStays'
  OBVIOUS
<1>1. /\ stage = "idle" /\ stage' = "selection" /\ UNCHANGED <<wanted, timer, lossVars>>
      /\ UNCHANGED <<queue, reply, selected, unique, lastData, now, stop, networkSafe>>
  BY DEF Dial, serviceVars, loopVars, wireVars, envVars
<1>2. Held("command")' = Held("command") /\ Held("data")' = Held("data")
  BY <1>1 DEF Held
<1>3. AtaTypes'
  BY <1>1 DEF AtaInv, AtaTypes, lossVars
<1>4. AskedInv'
  BY <1>1, <1>2 DEF AtaInv, AskedInv, Reached, IsCommand
<1>5. HeardInv' /\ PaceInv'
  BY <1>1 DEF AtaInv, AtaTypes, HeardInv, PaceInv, lossVars
<1> QED  BY <1>3, <1>4, <1>5 DEF AtaStays

LEMMA AskedIs ==
  ASSUME AtaInv, Active
  PROVE  /\ Request[1] \in Socket /\ Request[2] \in Incoming(Request[1])
         /\ stage = "selection" <=> Request[1] = "command"
         /\ Request[1] = "command" => Request[2].kind = "select"
         /\ Request[1] = "data" =>
              /\ Request[2].kind \in {"hello", "block"} /\ Request[2].index \in Block
              /\ Request[2].kind = "block" => Reached(Request[2].index)
<1>1. wanted \in 0 .. NumBlocks /\ 0 \in 0 .. NumBlocks /\ wanted \in Block /\ 0 \in Block
  BY NumBlocksAssumption DEF Active, AtaInv, AtaTypes, Block
<1>2. CASE stage = "selection"
  BY <1>1, <1>2 DEF Request, Socket, Incoming, Datagram
<1>3. CASE stage = "hello"
  BY <1>1, <1>3 DEF Request, Socket, Incoming, Datagram
<1>4. CASE stage = "blocks"
  BY <1>1, <1>4 DEF Request, Socket, Incoming, Datagram, Reached, AtaInv, AtaTypes
<1> QED  BY <1>2, <1>3, <1>4 DEF Active

LEMMA AskKeeps == AtaInv /\ Ask => AtaStays'
<1> SUFFICES ASSUME AtaInv, Ask PROVE AtaStays'
  OBVIOUS
<1>1. /\ Active /\ timer = 0 /\ timer' = Retry /\ UNCHANGED <<stage, wanted, air>>
      /\ UNCHANGED <<reply, selected, unique, lastData, now, stop, networkSafe>>
      /\ \A b : Reached(b)' <=> Reached(b)
  BY DEF Ask, Arrive, serviceVars, loopVars, wireVars, envVars, Reached
<1>2. HeardInv'
  BY <1>1 DEF AtaInv, HeardInv
<1>3. now \in Nat /\ lostRequests \in Nat /\ Retry \in Nat
      /\ lastData \in Nat \cup {NoTime}
  BY RetryAssumption, LossAssumption DEF AtaInv, IInv, ServiceTypeOK, AtaTypes
<1>4. CASE Arrive(Request[1], Request[2]) /\ UNCHANGED lostRequests
  <2>1. PICK s \in Socket, d \in Datagram : s = Request[1] /\ d = Request[2]
    BY <1>1, AskedIs DEF Incoming
  <2>2. /\ Held(s)' = Held(s) \cup {d}
        /\ \A x \in Socket \ {s} : Held(x)' = Held(x)
    BY <1>4, <2>1, ArriveHolds DEF AtaInv, IInv
  <2>3. CASE s = "command"
    <3>1. /\ Held("command")' = Held("command") \cup {d} /\ d.kind = "select"
          /\ Held("data")' = Held("data") /\ stage = "selection"
      BY <1>1, <2>1, <2>2, <2>3, AskedIs DEF Socket
    <3>2. AskedInv'
      BY <1>1, <3>1 DEF AtaInv, AskedInv
    <3>3. PaceInv'
      BY <1>1, <3>1 DEF PaceInv
    <3> QED  BY <1>1, <1>2, <1>3, <1>4, <3>2, <3>3 DEF AtaStays, AtaInv, AtaTypes
  <2>4. CASE s = "data"
    <3>1. /\ Held("data")' = Held("data") \cup {d} /\ Held("command")' = Held("command")
          /\ stage \notin {"idle", "selection"}
          /\ d.kind \in {"hello", "block"} /\ d.index \in Block
          /\ d.kind = "block" => Reached(d.index)
      BY <1>1, <2>1, <2>2, <2>4, AskedIs DEF Socket, Active
    <3>2. AskedInv'
      BY <1>1, <3>1 DEF AtaInv, AskedInv
    <3>3. Pending' /\ Budget' = Budget
      BY <1>4, <3>1 DEF Pending, Budget
    <3>4. PaceInv'
      BY <1>1, <3>3 DEF AtaInv, PaceInv
    <3> QED  BY <1>1, <1>2, <1>3, <1>4, <3>2, <3>4 DEF AtaStays, AtaInv, AtaTypes
  <2> QED  BY <2>3, <2>4 DEF Socket
<1>5. CASE /\ lostRequests < RequestLosses
           /\ lostRequests' = lostRequests + 1
           /\ UNCHANGED serviceVars
  <2>1. Held("command")' = Held("command") /\ Held("data")' = Held("data")
    BY <1>5 DEF Held, serviceVars
  <2>2. AskedInv'
    BY <1>1, <2>1 DEF AtaInv, AskedInv
  <2>3. Budget' = Budget + Retry /\ Budget \in Nat
    BY <1>3, <1>5 DEF Budget
  <2>4. PaceInv'
    BY <1>1, <1>3, <2>3 DEF AtaInv, PaceInv
  <2>5. AtaTypes'
    BY <1>1, <1>3, <1>5, LossAssumption DEF AtaInv, AtaTypes
  <2> QED  BY <1>2, <2>2, <2>4, <2>5 DEF AtaStays
<1> QED  BY <1>4, <1>5 DEF Ask

(* The ATA goes on with a response; what it has heard is counted.          *)
LEMMA WireKeeps == AtaInv /\ WireStep => AtaStays'
<1> SUFFICES ASSUME AtaInv, WireStep PROVE AtaStays'
  OBVIOUS
<1>1. /\ air' \subseteq air /\ UNCHANGED <<serviceVars, lostRequests>>
  BY DEF WireStep, Hear, Overlook, Lose
<1>2. /\ UNCHANGED <<reply, selected, unique, lastData, now, stop, networkSafe>>
      /\ Held("command")' = Held("command") /\ Held("data")' = Held("data")
      /\ Pending' = Pending /\ Budget' = Budget
  BY <1>1 DEF serviceVars, loopVars, wireVars, envVars, Held, Pending, Budget
<1>3. CASE UNCHANGED ataVars
  BY <1>1, <1>2, <1>3 DEF AtaStays, AtaInv, AtaTypes, AskedInv, HeardInv, PaceInv, Reached, ataVars
<1>4. ASSUME NEW r \in air, Hear(r) PROVE AtaStays'
  <2>1. timer' = 0 /\ timer \in Nat /\ Retry \in Nat /\ now \in Nat
    BY <1>4, RetryAssumption DEF Hear, AtaInv, AtaTypes, IInv, ServiceTypeOK
  <2>2. \/ stage = "selection" /\ r.kind = "url" /\ stage' = "hello" /\ wanted' = wanted
        \/ stage = "hello" /\ stage' = "blocks" /\ wanted' = wanted
        \/ /\ stage = "blocks" /\ r.kind = "block" /\ r.index = wanted /\ wanted' = wanted + 1
           /\ stage' = IF wanted = NumBlocks - 1 THEN "done" ELSE "blocks"
    BY <1>4 DEF Hear, Expected
  <2>3. wanted \in Nat /\ wanted < NumBlocks /\ NumBlocks \in Nat \ {0}
    BY <2>2, NumBlocksAssumption DEF AtaInv, AtaTypes
  <2>4. AtaTypes'
    BY <1>1, <1>2, <2>1, <2>2, <2>3 DEF AtaInv, AtaTypes
  <2>5. \A b \in Block : Reached(b) => Reached(b)'
    BY <2>2, <2>3 DEF Reached, Block
  <2>6. AskedInv'
    <3>1. \A d \in Held("data") : d.kind = "block" => Reached(d.index)'
      BY <2>5 DEF AtaInv, AskedInv
    <3>2. \A q \in reply : q.kind = "block" => Reached(q.index)'
      BY <2>5 DEF AtaInv, AskedInv, IInv, ReplyInv
    <3>3. \A b \in unique : Reached(b)'
      BY <2>5 DEF AtaInv, AskedInv, IInv, ServiceTypeOK
    <3>4. stage' \notin {"idle", "selection"}
      BY <2>2
    <3> QED  BY <1>2, <3>1, <3>2, <3>3, <3>4 DEF AtaInv, AskedInv
  <2>7. HeardInv'
    <3>1. stage' \in {"hello", "blocks", "done"} => selected
      BY <1>4, <2>2 DEF AtaInv, HeardInv
    <3>2. \A b \in Block : stage' = "done" \/ b < wanted' => b \in unique
      <4>1. CASE wanted' = wanted /\ stage' # "done"
        BY <4>1 DEF AtaInv, HeardInv
      <4>2. CASE r.kind = "block" /\ r.index = wanted /\ wanted' = wanted + 1
        <5>1. wanted \in unique /\ \A b \in Block : b < wanted => b \in unique
          BY <1>4, <4>2 DEF AtaInv, HeardInv
        <5>2. \A b \in Block : stage' = "done" \/ b < wanted' => b = wanted \/ b < wanted
          BY <2>2, <2>3, <4>2 DEF Block
        <5> QED  BY <5>1, <5>2
      <4> QED  BY <2>2, <4>1, <4>2
    <3> QED  BY <1>1, <1>2, <3>1, <3>2 DEF AtaInv, HeardInv
  <2>8. PaceInv'
    <3>1. CASE stage = "selection"
      BY <1>2, <3>1 DEF AtaInv, AskedInv, PaceInv
    <3>2. CASE stage # "selection"
      BY <1>2, <2>1, <2>2, <3>2 DEF AtaInv, PaceInv
    <3> QED  BY <3>1, <3>2
  <2> QED  BY <2>4, <2>6, <2>7, <2>8 DEF AtaStays
<1> QED  BY <1>3, <1>4 DEF WireStep, Overlook, Lose

(* Time passes only while nothing is pending and the ATA counts down.      *)
LEMMA TimeKeeps == AtaInv /\ PassTime => AtaStays'
<1> SUFFICES ASSUME AtaInv, PassTime PROVE AtaStays'
  OBVIOUS
<1>1. /\ now' = now + 1 /\ timer' = (IF timer > 0 THEN timer - 1 ELSE 0)
      /\ UNCHANGED <<stage, wanted, air, lostRequests>>
      /\ UNCHANGED <<queue, reply, selected, unique, lastData, stop, networkSafe>>
  BY DEF PassTime, Tick, loopVars, wireVars, lossVars
<1>2. Held("command")' = Held("command") /\ Held("data")' = Held("data") /\ Budget' = Budget
  BY <1>1 DEF Held, Budget
<1>3. AtaTypes'
  BY <1>1, RetryAssumption DEF AtaInv, AtaTypes
<1>4. AskedInv' /\ HeardInv'
  BY <1>1, <1>2 DEF AtaInv, AskedInv, HeardInv, Reached
<1>5. ~Pending
  BY DEF PassTime, Idle, Pending, Held, Socket, AtaInv, IInv, ReplyInv
<1>6. Active => timer > 0
  BY DEF PassTime, Idle, AtaInv, AtaTypes
<1>7. PaceInv'
  <2> SUFFICES ASSUME stage \in {"hello", "blocks"}, lastData # NoTime
               PROVE  now' <= lastData + Budget /\ now' + timer' <= lastData + Budget
    BY <1>1, <1>2 DEF PaceInv
  <2>1. now + timer <= lastData + Budget /\ timer \in Nat \ {0}
    BY <1>5, <1>6 DEF AtaInv, PaceInv, AtaTypes, Active
  <2>2. now \in Nat /\ lastData \in Nat /\ Budget \in Nat
    BY BudgetIs DEF AtaInv, IInv, ServiceTypeOK
  <2> QED  BY <1>1, <2>1, <2>2
<1> QED  BY <1>3, <1>4, <1>7 DEF AtaStays

LEMMA AtaStarts == TransferInit => AtaInv
<1> SUFFICES ASSUME TransferInit PROVE AtaInv
  OBVIOUS
<1>1. IInv
  BY InitIInv DEF TransferInit
<1>2. Held("command") = {} /\ Held("data") = {}
  BY DEF TransferInit, ServiceInit, Held, Socket
<1> QED  BY <1>1, <1>2, NumBlocksAssumption, RetryAssumption, LossAssumption
         DEF TransferInit, ServiceInit, AtaInv, AtaTypes, AskedInv, HeardInv, PaceInv, Block

LEMMA TransferServes == AtaInv /\ [TransferNext]_transferVars => [ServiceNext]_serviceVars
  BY AskedIs DEF TransferNext, transferVars, Dial, Ask, WireStep, Hear, Overlook, Lose, ServeStep,
                 PassTime, ServiceNext, EnvStep

LEMMA AtaKept == AtaInv /\ [TransferNext]_transferVars => AtaInv'
<1> SUFFICES ASSUME AtaInv, [TransferNext]_transferVars PROVE AtaInv'
  OBVIOUS
<1>1. IInv'
  BY TransferServes, TypeStep, ReplyStep, ServedStep, SelectionStep, QuietStep, AccountStep
  DEF AtaInv, IInv, ReplyTyped
<1>2. ASSUME UNCHANGED transferVars PROVE AtaStays'
  <2>1. /\ UNCHANGED <<queue, reply, selected, unique, lastData, now, stop, networkSafe>>
        /\ UNCHANGED <<stage, wanted, timer, air, lostRequests>>
    BY <1>2 DEF transferVars, serviceVars, loopVars, wireVars, envVars, ataVars, lossVars
  <2>2. /\ Held("command")' = Held("command") /\ Held("data")' = Held("data")
        /\ Pending' = Pending /\ Budget' = Budget
    BY <2>1 DEF Held, Pending, Budget
  <2> QED  BY <2>1, <2>2 DEF AtaStays, AtaInv, AtaTypes, AskedInv, HeardInv, PaceInv, Reached
<1>3. AtaStays'
  BY <1>2, DialKeeps, AskKeeps, WireKeeps, ServeKeeps, TimeKeeps DEF TransferNext
<1> QED  BY <1>1, <1>3 DEF AtaStays, AtaInv

(* The responses under way are replies, and the ATA asks for no block      *)
(* beyond the last.                                                        *)
AirInv == air \in SUBSET Reply /\ lostReplies \in 0 .. ReplyLosses /\ wanted <= NumBlocks

LEMMA AirStarts == TransferInit => AirInv
  BY NumBlocksAssumption, LossAssumption DEF TransferInit, AirInv

LEMMA AirKept == AtaInv /\ AirInv /\ [TransferNext]_transferVars => AirInv'
<1> SUFFICES ASSUME AtaInv, AirInv, [TransferNext]_transferVars PROVE AirInv'
  OBVIOUS
<1>1. CASE Dial \/ Ask \/ PassTime \/ UNCHANGED transferVars
  BY <1>1 DEF Dial, Ask, PassTime, AirInv, transferVars, ataVars, lossVars
<1>2. CASE ServeStep
  <2>1. air' = air \cup (reply \ reply') /\ UNCHANGED <<wanted, lostReplies>>
    BY <1>2 DEF ServeStep, ataVars
  <2> QED  BY <2>1 DEF AirInv, AtaInv, IInv, ServiceTypeOK
<1>3. ASSUME NEW r \in air, Hear(r) PROVE AirInv'
  <2>1. /\ air' = air \ {r} /\ wanted' = (IF stage = "blocks" THEN wanted + 1 ELSE wanted)
        /\ UNCHANGED lostReplies
    BY <1>3 DEF Hear
  <2>2. wanted \in Nat /\ (stage = "blocks" => wanted < NumBlocks) /\ NumBlocks \in Nat
    BY NumBlocksAssumption DEF AtaInv, AtaTypes
  <2> QED  BY <2>1, <2>2 DEF AirInv
<1>4. ASSUME NEW r \in air, Overlook(r) \/ Lose(r) PROVE AirInv'
  BY <1>4, LossAssumption DEF Overlook, Lose, AirInv, ataVars
<1> QED  BY <1>1, <1>2, <1>3, <1>4 DEF TransferNext, WireStep

LEMMA TransferMeans == AtaInv /\ AirInv => TransferTypeOK
  BY NumBlocksAssumption DEF AtaInv, AirInv, AtaTypes, IInv, TransferTypeOK

LEMMA AtaInvariant == TransferSpec => [](AtaInv /\ AirInv)
  BY AtaStarts, AtaKept, AirStarts, AirKept, PTL DEF TransferSpec

(* Every variable of the service, the ATA and the wire keeps its type, and *)
(* the ATA asks for no block the image does not have.                      *)
THEOREM TransferTypeCorrect == TransferSpec => []TransferTypeOK
  BY AtaInvariant, TransferMeans, PTL

LEMMA NobodyMeans == AtaInv => NoAtaLeftBehind
<1> SUFFICES ASSUME AtaInv PROVE NoAtaLeftBehind
  OBVIOUS
<1>1. ASSUME stage # "idle", pc = "returned", now < Duration PROVE stage = "done"
  <2>1. /\ quietUntil # NoTime /\ now >= quietUntil /\ unique = Block
        /\ Grace # NoTime /\ lastData # NoTime /\ quietUntil = lastData + Grace
    BY <1>1, DurationAssumption DEF AtaInv, IInv, ServiceTypeOK, QuietInv, AtaTypes, Over
  <2>2. Reached(NumBlocks - 1)
    BY <2>1, NumBlocksAssumption DEF AtaInv, AskedInv, Block
  <2>3. now \in Nat /\ lastData \in Nat /\ Grace \in Nat
    BY <2>1, GraceAssumption, DurationAssumption DEF AtaInv, IInv, ServiceTypeOK
  <2>4. Budget <= Retry * (RequestLosses + 1) /\ Budget \in Nat
    <3>1. /\ Retry \in Nat /\ RequestLosses \in Nat /\ lostRequests \in Nat
          /\ RequestLosses - lostRequests \in Nat
      BY RetryAssumption, LossAssumption DEF AtaInv, AtaTypes
    <3>2. Retry * (RequestLosses - lostRequests) \in Nat
      BY <3>1
    <3> QED  BY <3>1, <3>2 DEF Budget
  <2>5. CASE stage = "blocks"
    <3>1. now <= lastData + Budget
      BY <2>1, <2>5 DEF AtaInv, PaceInv
    <3> QED  BY <2>1, <2>3, <2>4, <3>1, GraceOutlastsRetries, RetryAssumption, LossAssumption
  <2> QED  BY <2>2, <2>5 DEF Reached
<1>2. stage = "done" => unique = Block
  BY DEF AtaInv, HeardInv, IInv, ServiceTypeOK
<1> QED  BY <1>1, <1>2 DEF NoAtaLeftBehind

(* Whatever is lost, up to any bounds that the quiet period outlasts: a    *)
(* service that leaves before its deadline leaves an ATA with the whole    *)
(* image, and an ATA with the image is one the service counted.            *)
THEOREM NobodyIsLeft == TransferSpec => []NoAtaLeftBehind
  BY AtaInvariant, NobodyMeans, PTL
=============================================================================
