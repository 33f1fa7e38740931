------------------------------ MODULE TftpProofs ------------------------------
(***************************************************************************)
(* The bookkeeping of the TFTP server for any files, ports, timeouts and   *)
(* datagrams.  What is sent is next in order because a transfer is changed *)
(* only by what prepares a block (SendBlock) or by its end; so the proof   *)
(* first shows what SendBlock makes of a transfer that is ready for it.    *)
(*                                                                         *)
(* Then the ATA: what it holds is whole, because a port belongs to one     *)
(* file, wherever in the network, the server or the ATA the port appears.  *)
(***************************************************************************)
EXTENDS TftpTransfer, FiniteSetTheorems, TLAPS

(* A transfer whose next block may be sent.                                *)
Ready(t) ==
    /\ t \in Transfer
    /\ t.next = t.acked + 1
    /\ t.next <= Len(Blocks(t.file)) + 1
    /\ t.retries <= Retransmits
    /\ t.sentAt <= now

(* A transfer that waits for the acknowledgement of that block.            *)
AwaitsAck(t) ==
    /\ Ready(t)
    /\ t.pending = t.next
    /\ t.terminator <=> Terminator(t)

TransferInv ==
    /\ \A t, u \in transfer : t = u
    /\ \A t \in transfer : AwaitsAck(t)

(* select returns before the deadline.                                     *)
ClockInv ==
    /\ now <= deadline
    /\ pc = "wait" => now <= wake /\ wake <= deadline

ServerInv == ServerTypeOK /\ TransferInv /\ ClockInv

-----------------------------------------------------------------------------
LEMMA BlocksType ==
  ASSUME NEW f \in File
  PROVE  Blocks(f) \in Seq(Size)
<1> DEFINE full == [i \in 1 .. FullBlocks[f] |-> "full"]
<1>1. FullBlocks[f] \in Nat
  BY FileAssumption
<1>2. full \in Seq(Size)
  BY <1>1 DEF Size
<1>3. <<"tail", "empty">> \in Seq(Size) /\ <<"empty">> \in Seq(Size)
  BY DEF Size
<1>4. full \o <<"tail", "empty">> \in Seq(Size)
  BY <1>2, <1>3
<1> QED
  BY <1>2, <1>3, <1>4 DEF Blocks

LEMMA ChunkType ==
  ASSUME NEW t \in Transfer, t.next # 0
  PROVE  Chunk(t) \in Size /\ Len(Blocks(t.file)) \in Nat
<1>1. t.file \in File /\ t.next \in Nat
  BY DEF Transfer
<1>2. Blocks(t.file) \in Seq(Size)
  BY <1>1, BlocksType
<1> HIDE DEF Blocks
<1> QED
  BY <1>1, <1>2 DEF Chunk, Size

(* A transfer whose block has left, or failed to.                          *)
Sent(t) == [t EXCEPT !.terminator = Terminator(t), !.pending = t.next]

LEMMA SentWaits ==
  ASSUME NEW t, Ready(t)
  PROVE  AwaitsAck(Sent(t))
<1>1. Sent(t) \in Transfer
  BY DEF Sent, Ready, Transfer, Terminator
<1>2. /\ Sent(t).next = t.next /\ Sent(t).acked = t.acked /\ Sent(t).file = t.file
      /\ Sent(t).retries = t.retries /\ Sent(t).sentAt = t.sentAt
      /\ Sent(t).pending = t.next /\ Sent(t).terminator = Terminator(t)
  BY DEF Sent, Ready, Transfer
<1>3. Terminator(Sent(t)) = Terminator(t)
  BY <1>2 DEF Terminator, Chunk
<1> QED
  BY <1>1, <1>2, <1>3 DEF AwaitsAck, Ready

(* What SendBlock does, with its packet.                                   *)
LEMMA SendBlockDoes ==
  ASSUME NEW t, Ready(t), NEW goOn, SendBlock(t, goOn)
  PROVE  /\ transfer' = {Sent(t)}
         /\ pc' \in {goOn, "raised"}
         /\ output' \in SUBSET Packet
<1>1. t \in Transfer /\ t.next \in Nat /\ t.next # 0 /\ t.peer \in Peer /\ t.file \in File
  BY DEF Ready, Transfer
<1>2. Chunk(t) \in Size
  BY <1>1, ChunkType
<1>3. [kind |-> "data", peer |-> t.peer, file |-> t.file,
       number |-> t.next, size |-> Chunk(t)] \in Packet
  BY <1>1, <1>2 DEF Packet
<1> QED
  BY <1>3 DEF SendBlock, Sent

LEMMA RejectDoes ==
  ASSUME NEW peer \in Peer, Reject(peer), errors \in Nat
  PROVE  /\ errors' \in Nat /\ pc' = "top"
         /\ output' \in SUBSET Packet
  BY DEF Reject, Packet

-----------------------------------------------------------------------------
LEMMA InitCoherent == ServerInit => ServerInv
  BY TimeAssumption DEF ServerInit, ServerInv, ServerTypeOK, TransferInv, ClockInv

(* A datagram is handled with the clock standing still.                    *)
LEMMA StillClock ==
  ASSUME ServerInv, pc = "wait", pc' \in {"top", "raised"},
         UNCHANGED <<now, deadline, wake>>
  PROVE  ClockInv'
  BY DEF ServerInv, ClockInv

(* With the clock standing still, part of the old transfers is as good.    *)
LEMMA FewerTransfers ==
  ASSUME ServerInv, transfer' \subseteq transfer, now' = now
  PROVE  TransferInv' /\ transfer' \in SUBSET Transfer
  BY DEF ServerInv, ServerTypeOK, TransferInv, AwaitsAck, Ready

LEMMA OneTransfer ==
  ASSUME ServerInv, NEW t, Ready(t), transfer' = {Sent(t)}, now' = now
  PROVE  TransferInv' /\ transfer' \in SUBSET Transfer
<1>1. AwaitsAck(Sent(t)) /\ Sent(t) \in Transfer
  BY SentWaits DEF AwaitsAck, Ready
<1> QED
  BY <1>1 DEF TransferInv, AwaitsAck, Ready

(* A transfer that was just created is ready for its first block.          *)
LEMMA NewReady ==
  ASSUME ServerTypeOK, NEW d, d.peer \in Peer, d.file \in File
  PROVE  Ready(NewTransfer(d))
<1>1. NewTransfer(d) \in Transfer
  BY DEF NewTransfer, Transfer, ServerTypeOK
<1>2. Len(Blocks(d.file)) \in Nat
  BY BlocksType
<1> QED
  BY <1>1, <1>2, TimeAssumption DEF Ready, NewTransfer, ServerTypeOK

(* The bookkeeping of an acknowledgement keeps the type.                   *)
LEMMA ProgressType ==
  ASSUME NEW t \in Transfer, now \in Nat
  PROVE  /\ Progress(t) \in Transfer
         /\ Progress(t).next = t.next /\ Progress(t).acked = t.acked + 1
         /\ Progress(t).retries = 0 /\ Progress(t).sentAt = now
         /\ Progress(t).file = t.file
<1> DEFINE a == [t EXCEPT !.acked = @ + 1]
          b == [a EXCEPT !.retries = 0]
<1>1. a \in Transfer
  BY DEF Transfer
<1> HIDE DEF a
<1>2. b \in Transfer
  BY <1>1 DEF Transfer
<1> HIDE DEF b
<1>3. [b EXCEPT !.sentAt = now] \in Transfer
  BY <1>2 DEF Transfer
<1>4. Progress(t) = [b EXCEPT !.sentAt = now]
  BY DEF Progress, b, a
<1>5. /\ Progress(t).next = t.next /\ Progress(t).acked = t.acked + 1
      /\ Progress(t).retries = 0 /\ Progress(t).sentAt = now
      /\ Progress(t).file = t.file
  BY DEF Progress, Transfer
<1> QED
  BY <1>3, <1>4, <1>5

(* An acknowledged block that does not end the file has a successor.       *)
LEMMA NextReady ==
  ASSUME ServerTypeOK, NEW t \in transfer, AwaitsAck(t), ~t.terminator
  PROVE  Ready([Progress(t) EXCEPT !.next = @ + 1])
<1> DEFINE u == [Progress(t) EXCEPT !.next = @ + 1]
<1>1. /\ t \in Transfer /\ t.next \in Nat /\ t.acked \in Nat
      /\ t.next # 0 /\ t.file \in File /\ now \in Nat
  BY DEF AwaitsAck, Ready, Transfer, ServerTypeOK
<1>2. /\ u \in Transfer
      /\ u.next = t.next + 1 /\ u.acked = t.acked + 1
      /\ u.retries = 0 /\ u.sentAt = now /\ u.file = t.file
  <2> DEFINE p == Progress(t)
  <2>1. /\ p \in Transfer
        /\ p.next = t.next /\ p.acked = t.acked + 1
        /\ p.retries = 0 /\ p.sentAt = now /\ p.file = t.file
    BY <1>1, ProgressType
  <2> HIDE DEF p
  <2>2. [p EXCEPT !.next = @ + 1] = [p EXCEPT !.next = t.next + 1]
    BY <2>1
  <2>3. t.next + 1 \in Nat
    BY <1>1
  <2>4. LET v == [p EXCEPT !.next = t.next + 1]
        IN  /\ v \in Transfer
            /\ v.next = t.next + 1 /\ v.acked = t.acked + 1
            /\ v.retries = 0 /\ v.sentAt = now /\ v.file = t.file
    BY <2>1, <2>3 DEF Transfer
  <2>5. u = [p EXCEPT !.next = t.next + 1]
    BY <2>2 DEF p
  <2> QED
    BY <2>4, <2>5
<1>3. Len(Blocks(t.file)) \in Nat
  BY <1>1, BlocksType
<1>4. t.next <= Len(Blocks(t.file))
  BY <1>1, <1>3 DEF AwaitsAck, Ready, Terminator, Chunk
<1> HIDE DEF u
<1>5. Ready(u)
  BY <1>1, <1>2, <1>3, <1>4, TimeAssumption DEF AwaitsAck, Ready
<1> QED
  BY <1>5 DEF u

(* A retransmission is one retry more.                                     *)
LEMMA RetryReady ==
  ASSUME ServerTypeOK, NEW t \in transfer, AwaitsAck(t), t.retries < Retransmits
  PROVE  Ready(Retry(t))
<1>1. t \in Transfer /\ t.retries \in Nat
  BY DEF AwaitsAck, Ready, Transfer
<1>2. /\ Retry(t) \in Transfer
      /\ Retry(t).next = t.next /\ Retry(t).acked = t.acked
      /\ Retry(t).retries = t.retries + 1 /\ Retry(t).sentAt = t.sentAt
      /\ Retry(t).file = t.file
  BY <1>1 DEF Retry, Transfer
<1> QED
  BY <1>1, <1>2, TimeAssumption DEF AwaitsAck, Ready

-----------------------------------------------------------------------------
LEMMA HandleKeeps ==
  ASSUME ServerInv, NEW d, d.peer \in Peer, Handle(d)
  PROVE  ServerInv'
<1>1. /\ ServerTypeOK /\ d.peer \in Peer
      /\ \A t \in transfer : AwaitsAck(t)
  BY DEF ServerInv, TransferInv
<1>2. /\ pc = "wait" /\ now' = now /\ deadline' = deadline /\ wake' = wake
      /\ received' \in Nat
  BY <1>1 DEF Handle, Refuse, RequestUnserved, RequestFile, AckIgnored, AckMalformed,
              AckMismatch, AckNext, AckLast, Receive, ServerTypeOK
<1>3. SUFFICES /\ transfer' \subseteq transfer \/ \E t : Ready(t) /\ transfer' = {Sent(t)}
               /\ pc' \in {"top", "raised"} /\ output' \in SUBSET Packet
               /\ requests' \in Nat /\ errors' \in Nat
               /\ status' \in {"none", "complete", "abandoned", "timeout"}
  BY <1>1, <1>2, StillClock, FewerTransfers, OneTransfer DEF ServerInv, ServerTypeOK
<1>4. /\ requests \in Nat /\ errors \in Nat
      /\ status \in {"none", "complete", "abandoned", "timeout"}
  BY <1>1 DEF ServerTypeOK
<1>5. CASE Refuse(d)
  BY <1>1, <1>4, <1>5, RejectDoes DEF Refuse
<1>6. CASE RequestUnserved(d)
  BY <1>1, <1>4, <1>6, RejectDoes DEF RequestUnserved
<1>7. CASE RequestFile(d)
  BY <1>1, <1>4, <1>7, NewReady, SendBlockDoes DEF RequestFile
<1>8. CASE AckIgnored(d)
  BY <1>4, <1>8 DEF AckIgnored
<1>9. CASE AckMalformed(d)
  BY <1>1, <1>4, <1>9, RejectDoes DEF AckMalformed
<1>10. CASE AckMismatch(d)
  BY <1>1, <1>4, <1>10, SendBlockDoes DEF AckMismatch, AwaitsAck
<1>11. CASE AckNext(d)
  <2>1. PICK t \in transfer : /\ ~t.terminator
                              /\ SendBlock([Progress(t) EXCEPT !.next = @ + 1], "top")
    BY <1>11 DEF AckNext
  <2>2. Ready([Progress(t) EXCEPT !.next = @ + 1])
    BY <1>1, <2>1, NextReady
  <2> QED
    BY <1>4, <1>11, <2>1, <2>2, SendBlockDoes DEF AckNext
<1>12. CASE AckLast(d)
  BY <1>4, <1>12 DEF AckLast
<1> QED
  BY <1>5, <1>6, <1>7, <1>8, <1>9, <1>10, <1>11, <1>12 DEF Handle

(* The wait ends at the deadline at the latest.                            *)
LEMMA EnterSelectKeeps ==
  ASSUME ServerInv, now < deadline, EnterSelect, pc' \in {"wait", "raised"}
  PROVE  ClockInv' /\ wake' \in Nat
  BY TimeAssumption DEF ServerInv, ServerTypeOK, ClockInv, EnterSelect

LEMMA LoopKeeps ==
  ASSUME ServerInv, LoopStep \/ Tick
  PROVE  ServerInv'
<1>1. /\ ServerTypeOK /\ \A t \in transfer : AwaitsAck(t)
  BY DEF ServerInv, TransferInv
<1>2. CASE Stop \/ SelectTimeout
  BY <1>2, FewerTransfers DEF Stop, SelectTimeout, ServerInv, ServerTypeOK, ClockInv
<1>3. CASE Wait
  BY <1>3, EnterSelectKeeps, FewerTransfers DEF Wait, EnterSelect, ServerInv, ServerTypeOK
<1>4. CASE Expire
  BY <1>4, EnterSelectKeeps, FewerTransfers DEF Expire, EnterSelect, ServerInv, ServerTypeOK
<1>5. CASE Retransmit
  <2>1. PICK t \in transfer : t.retries < Retransmits /\ SendBlock(Retry(t), "wait")
    BY <1>5 DEF Retransmit
  <2>2. Ready(Retry(t))
    BY <1>1, <2>1, RetryReady
  <2>3. /\ transfer' = {Sent(Retry(t))}
        /\ pc' \in {"wait", "raised"}
        /\ output' \in SUBSET Packet
    BY <2>1, <2>2, SendBlockDoes
  <2>4. /\ now < deadline /\ EnterSelect /\ now' = now /\ deadline' = deadline
        /\ requests' = requests /\ errors' = errors /\ received' = received
        /\ status' = status
    BY <1>5 DEF Retransmit, EnterSelect
  <2>5. TransferInv' /\ transfer' \in SUBSET Transfer
    BY <2>2, <2>3, <2>4, OneTransfer
  <2>6. ClockInv' /\ wake' \in Nat
    BY <2>3, <2>4, EnterSelectKeeps
  <2> QED
    BY <1>1, <2>3, <2>4, <2>5, <2>6 DEF ServerInv, ServerTypeOK
<1>6. CASE Tick
  <2>1. /\ now \in Nat /\ wake \in Nat /\ now < wake /\ pc = "wait"
        /\ now' = now + 1
        /\ UNCHANGED <<pc, deadline, wake, transfer, requests, errors, received, status>>
        /\ output' = {}
    BY <1>1, <1>6 DEF Tick, ServerTypeOK
  <2>2. \A t \in transfer : t.sentAt \in Nat
    BY <1>1 DEF AwaitsAck, Ready, Transfer
  <2>3. TransferInv'
    BY <2>1, <2>2 DEF ServerInv, TransferInv, AwaitsAck, Ready
  <2>4. ClockInv'
    BY <2>1, TimeAssumption DEF ServerInv, ServerTypeOK, ClockInv
  <2> QED
    BY <2>1, <2>3, <2>4 DEF ServerInv, ServerTypeOK
<1> QED
  BY <1>2, <1>3, <1>4, <1>5, <1>6 DEF LoopStep

LEMMA InvKept == ServerInv /\ [ServerNext]_serverVars => ServerInv'
<1>1. ASSUME ServerInv, UNCHANGED serverVars PROVE ServerInv'
  BY <1>1 DEF serverVars, ServerInv, ServerTypeOK, TransferInv, ClockInv, AwaitsAck, Ready
<1> QED
  BY <1>1, HandleKeeps, LoopKeeps DEF ServerNext, Datagram

LEMMA InvMeans == ServerInv => ServerTypeOK /\ TransferCoherent /\ RunTimeKept
<1> SUFFICES ASSUME ServerInv PROVE ServerTypeOK /\ TransferCoherent /\ RunTimeKept
  OBVIOUS
<1>1. Cardinality(transfer) <= 1
  <2>1. CASE transfer = {}
    BY <2>1, FS_EmptySet
  <2>2. CASE transfer # {}
    <3>1. PICK t \in transfer : transfer = {t}
      BY <2>2 DEF ServerInv, TransferInv
    <3>2. Cardinality({t}) = 1
      BY FS_Singleton
    <3> QED
      BY <3>1, <3>2
  <2> QED
    BY <2>1, <2>2
<1> QED
  BY <1>1 DEF ServerInv, TransferInv, ClockInv, AwaitsAck, Ready, Terminator,
              TransferCoherent, RunTimeKept

-----------------------------------------------------------------------------
(* The variables of run() and of the transfer keep their types.            *)
THEOREM ServerTypeCorrect == ServerSpec => []ServerTypeOK
  BY InitCoherent, InvKept, InvMeans, PTL DEF ServerSpec

(* Whatever arrives, in any order and however often: one transfer, waiting *)
(* for the block behind the last acknowledged one, within its retries.     *)
THEOREM Coherent == ServerSpec => []TransferCoherent
  BY InitCoherent, InvKept, InvMeans, PTL DEF ServerSpec

(* No wait reaches beyond the deadline of run().                           *)
THEOREM BackInTime == ServerSpec => []RunTimeKept
  BY InitCoherent, InvKept, InvMeans, PTL DEF ServerSpec
-----------------------------------------------------------------------------
(* The ATA and the network.                                                *)
FetchRecord == [file : File, port : Port, got : Nat]

(* Block n of file f is the one whose ACK ends a transfer.                 *)
Closes(f, n) == /\ n >= Len(Blocks(f))
                /\ n <= Len(Blocks(f)) => Blocks(f)[n] # "full"

(* A DATA packet: the block that closes its file is empty, and no other is.*)
GoodPacket(k) ==
    /\ k.file \in File /\ k.number \in Nat \ {0}
    /\ k.number <= Len(Blocks(k.file)) + 1
    /\ k.size = "empty" <=> Closes(k.file, k.number)

IsRequest(m) == m.kind = "rrq"
IsData(k) == k.kind = "data"

NetworkInv ==
    /\ \A m \in toServer : m.peer \in Peer /\ (IsRequest(m) => m.file \in File)
    /\ \A k \in toClient : IsData(k) => GoodPacket(k)

FetchInv ==
    /\ wanted \in SUBSET FetchRecord
    /\ holds \in SUBSET FetchRecord
    /\ \A h \in holds : h.got \in Len(Blocks(h.file)) .. Len(Blocks(h.file)) + 1

(* Where a port stands for a file.                                         *)
Claims == {<<w.port, w.file>> : w \in wanted}
          \cup {<<h.port, h.file>> : h \in holds}
          \cup {<<m.peer[2], m.file>> : m \in toServer}
          \cup {<<t.peer[2], t.file>> : t \in transfer}
          \cup {<<k.peer[2], k.file>> : k \in {n \in toClient : IsData(n)}}

PortInv == /\ \A a \in Claims : a[1] \in used
           /\ \A a, b \in Claims : a[1] = b[1] => a[2] = b[2]

WholeInv == ServerInv /\ NetworkInv /\ FetchInv /\ PortInv

-----------------------------------------------------------------------------
LEMMA EmptyIsLast ==
  ASSUME NEW f \in File, NEW i \in 1 .. Len(Blocks(f))
  PROVE  /\ Blocks(f)[i] = "empty" => i >= Len(Blocks(f))
         /\ i = Len(Blocks(f)) => Blocks(f)[i] \in {"full", "empty"}
<1> DEFINE full == [j \in 1 .. FullBlocks[f] |-> "full"]
<1>1. FullBlocks[f] \in Nat /\ HasTail[f] \in BOOLEAN
  BY FileAssumption
<1>2. full \in Seq(Size) /\ Len(full) = FullBlocks[f]
      /\ \A j \in 1 .. FullBlocks[f] : full[j] = "full"
  BY <1>1 DEF Size
<1> HIDE DEF full
<1>3. CASE HasTail[f]
  <2>1. Blocks(f) = full \o <<"tail", "empty">>
    BY <1>3 DEF Blocks, full
  <2>2. Len(Blocks(f)) = FullBlocks[f] + 2
    BY <1>1, <1>2, <2>1
  <2>3. \A j \in 1 .. FullBlocks[f] : Blocks(f)[j] = "full"
    BY <1>1, <1>2, <2>1
  <2>4. Blocks(f)[FullBlocks[f] + 1] = "tail"
    BY <1>1, <1>2, <2>1
  <2>5. Blocks(f)[FullBlocks[f] + 2] = "empty"
    BY <1>1, <1>2, <2>1
  <2> QED  BY <1>1, <2>2, <2>3, <2>4, <2>5
<1>4. CASE ~HasTail[f] /\ FullBlocks[f] = 0
  BY <1>4 DEF Blocks
<1>5. CASE ~HasTail[f] /\ FullBlocks[f] # 0
  <2>1. Blocks(f) = full
    BY <1>5 DEF Blocks, full
  <2> QED  BY <1>2, <2>1
<1> QED  BY <1>3, <1>4, <1>5

(* What SendBlock puts on the wire.                                        *)
LEMMA SendBlockSends ==
  ASSUME NEW t, Ready(t), NEW goOn, SendBlock(t, goOn)
  PROVE  /\ \A k \in output' : GoodPacket(k) /\ k.peer = t.peer /\ k.file = t.file
         /\ \A u \in transfer' : u.peer = t.peer /\ u.file = t.file
<1>1. /\ t \in Transfer /\ t.file \in File /\ t.next \in Nat /\ t.next # 0
      /\ t.next <= Len(Blocks(t.file)) + 1
  BY DEF Ready, Transfer
<1>2. Len(Blocks(t.file)) \in Nat
  BY <1>1, ChunkType
<1>3. Chunk(t) = "empty" <=> Closes(t.file, t.next)
  <2>1. CASE t.next <= Len(Blocks(t.file))
    <3>1. t.next \in 1 .. Len(Blocks(t.file))
      BY <1>1, <1>2, <2>1
    <3> QED  BY <1>1, <1>2, <2>1, <3>1, EmptyIsLast DEF Chunk, Closes
  <2>2. CASE t.next > Len(Blocks(t.file))
    BY <1>1, <1>2, <2>2 DEF Chunk, Closes
  <2> QED  BY <1>1, <1>2, <2>1, <2>2
<1>4. \A k \in output' : k = [kind |-> "data", peer |-> t.peer, file |-> t.file,
                               number |-> t.next, size |-> Chunk(t)]
  BY DEF SendBlock
<1>5. \A u \in transfer' : u.peer = t.peer /\ u.file = t.file
  BY <1>1 DEF SendBlock, Transfer
<1> QED  BY <1>1, <1>3, <1>4, <1>5 DEF GoodPacket

(* The same of a step of the server: a transfer keeps its peer and file,   *)
(* or has them from the request at hand.                                   *)
Continues(t) == \E u \in transfer : t.peer = u.peer /\ t.file = u.file

LEMMA HandleSends ==
  ASSUME ServerInv, NEW d, d.peer \in Peer, Handle(d)
  PROVE  /\ \A k \in output' : IsData(k) => /\ GoodPacket(k)
                                            /\ \E t \in transfer' : k.peer = t.peer /\ k.file = t.file
         /\ \A t \in transfer' : \/ Continues(t)
                                 \/ IsRequest(d) /\ t.peer = d.peer /\ t.file = d.file
<1>1. ServerTypeOK /\ \A t \in transfer : AwaitsAck(t)
  BY DEF ServerInv, TransferInv
<1>2. CASE Refuse(d) \/ RequestUnserved(d) \/ AckMalformed(d)
  BY <1>2 DEF Refuse, RequestUnserved, AckMalformed, Reject, IsData, Continues
<1>3. CASE AckIgnored(d) \/ AckLast(d)
  BY <1>3 DEF AckIgnored, AckLast, Continues
<1>4. ASSUME NEW t, Ready(t), SendBlock(t, "top"),
             \/ Continues(t)
             \/ IsRequest(d) /\ t.peer = d.peer /\ t.file = d.file
      PROVE  /\ \A k \in output' : GoodPacket(k)
                   /\ \E u \in transfer' : k.peer = u.peer /\ k.file = u.file
             /\ \A u \in transfer' : \/ Continues(u)
                                     \/ IsRequest(d) /\ u.peer = d.peer /\ u.file = d.file
  <2>1. transfer' # {}
    BY <1>4 DEF SendBlock
  <2> QED  BY <1>4, <2>1, SendBlockSends DEF Continues
<1>5. CASE RequestFile(d)
  <2>1. /\ SendBlock(NewTransfer(d), "top") /\ Ready(NewTransfer(d))
        /\ IsRequest(d) /\ NewTransfer(d).peer = d.peer /\ NewTransfer(d).file = d.file
    BY <1>1, <1>5, NewReady DEF RequestFile, NewTransfer, IsRequest
  <2> QED  BY <1>4, <2>1
<1>6. CASE AckMismatch(d)
  <2>1. PICK t \in transfer : SendBlock(t, "top")
    BY <1>6 DEF AckMismatch
  <2>2. Ready(t) /\ Continues(t)
    BY <1>1 DEF AwaitsAck, Continues
  <2> QED  BY <1>4, <2>1, <2>2
<1>7. CASE AckNext(d)
  <2>1. PICK t \in transfer : /\ ~t.terminator
                              /\ SendBlock([Progress(t) EXCEPT !.next = @ + 1], "top")
    BY <1>7 DEF AckNext
  <2>2. Ready([Progress(t) EXCEPT !.next = @ + 1])
    BY <1>1, <2>1, NextReady
  <2>3. t \in Transfer
    BY <1>1 DEF ServerTypeOK
  <2>4. Continues([Progress(t) EXCEPT !.next = @ + 1])
    BY <2>3 DEF Continues, Progress, Transfer
  <2> QED  BY <1>4, <2>1, <2>2, <2>4
<1> QED  BY <1>2, <1>3, <1>5, <1>6, <1>7 DEF Handle

LEMMA LoopSends ==
  ASSUME ServerInv, LoopStep \/ Tick
  PROVE  /\ \A k \in output' : IsData(k) => /\ GoodPacket(k)
                                            /\ \E t \in transfer' : k.peer = t.peer /\ k.file = t.file
         /\ \A t \in transfer' : Continues(t)
<1>1. ServerTypeOK /\ \A t \in transfer : AwaitsAck(t)
  BY DEF ServerInv, TransferInv
<1>2. CASE Stop \/ Wait \/ SelectTimeout \/ Expire \/ Tick
  BY <1>2 DEF Stop, Wait, SelectTimeout, Expire, Tick, Continues
<1>3. CASE Retransmit
  <2>1. PICK t \in transfer : t.retries < Retransmits /\ SendBlock(Retry(t), "wait")
    BY <1>3 DEF Retransmit
  <2>2. Ready(Retry(t))
    BY <1>1, <2>1, RetryReady
  <2>3. Retry(t).peer = t.peer /\ Retry(t).file = t.file
    BY <1>1 DEF Retry, AwaitsAck, Ready, Transfer
  <2>4. transfer' # {}
    BY <2>1 DEF SendBlock
  <2> QED  BY <2>1, <2>2, <2>3, <2>4, SendBlockSends DEF Continues
<1> QED  BY <1>2, <1>3 DEF LoopStep

-----------------------------------------------------------------------------
LEMMA WholeStarts == TftpInit => WholeInv
<1> SUFFICES ASSUME TftpInit PROVE WholeInv
  OBVIOUS
<1>1. ServerInv
  BY InitCoherent DEF TftpInit
<1>2. wanted = {} /\ holds = {} /\ toServer = {} /\ toClient = {} /\ transfer = {}
  BY DEF TftpInit, ServerInit
<1> QED  BY <1>1, <1>2 DEF WholeInv, NetworkInv, FetchInv, PortInv, Claims

(* Claims only disappear or are repeated, but for a fetch with a new port. *)
LEMMA ClaimsShrink ==
  ASSUME PortInv, Claims' \subseteq Claims, used \subseteq used'
  PROVE  PortInv'
  BY DEF PortInv

LEMMA ServerClaims ==
  ASSUME WholeInv, ServerReceives \/ ServerLoops \/ PassTime
  PROVE  WholeInv'
<1> DEFINE Fresh(k) == GoodPacket(k) /\ \E t \in transfer' : k.peer = t.peer /\ k.file = t.file
           Begun(t) == \E m \in toServer : IsRequest(m) /\ t.peer = m.peer /\ t.file = m.file
<1>1. /\ ServerInv' /\ toServer' \subseteq toServer /\ UNCHANGED clientVars
      /\ \A k \in toClient' : IsData(k) => k \in toClient \/ Fresh(k)
      /\ \A t \in transfer' : Continues(t) \/ Begun(t)
  <2>1. CASE ServerReceives
    <3>1. PICK d \in toServer : Handle(d) /\ Delivered(toServer, d)
      BY <2>1 DEF ServerReceives
    <3>2. d.peer \in Peer /\ ServerInv
      BY DEF WholeInv, NetworkInv
    <3> QED  BY <2>1, <3>1, <3>2, HandleKeeps, HandleSends DEF ServerReceives, Delivered
  <2>2. CASE ServerLoops
    BY <2>2, LoopKeeps, LoopSends DEF ServerLoops, WholeInv
  <2>3. CASE PassTime
    BY <2>3, LoopKeeps, LoopSends DEF PassTime, netVars, WholeInv
  <2> QED  BY <2>1, <2>2, <2>3
<1>2. NetworkInv' /\ FetchInv'
  BY <1>1 DEF WholeInv, NetworkInv, FetchInv, clientVars, GoodPacket
<1>3. Claims' \subseteq Claims
  <2>1. \A t \in transfer' : <<t.peer[2], t.file>> \in Claims
    BY <1>1 DEF Claims, Continues
  <2>2. \A k \in toClient' : IsData(k) => <<k.peer[2], k.file>> \in Claims
    BY <1>1, <2>1 DEF Claims
  <2>3. \A m \in toServer' : <<m.peer[2], m.file>> \in Claims
    BY <1>1 DEF Claims
  <2>4. \A w \in wanted' \cup holds' : <<w.port, w.file>> \in Claims
    BY <1>1 DEF Claims, clientVars
  <2> QED  BY <2>1, <2>2, <2>3, <2>4 DEF Claims
<1> QED  BY <1>1, <1>2, <1>3, ClaimsShrink DEF WholeInv, clientVars

LEMMA ServerStill == ServerInv /\ UNCHANGED serverVars => ServerInv'
  BY InvKept

LEMMA FetchKeeps == WholeInv /\ Fetch => WholeInv'
<1> SUFFICES ASSUME WholeInv, Fetch PROVE WholeInv'
  OBVIOUS
<1>1. PICK f \in File, p \in Port \ used :
         /\ wanted' = {[file |-> f, port |-> p, got |-> 0]}
         /\ used' = used \cup {p}
         /\ toServer' = toServer \cup {Rrq(f, p)}
  BY DEF Fetch
<1>2. UNCHANGED <<serverVars, holds, toClient>>
  BY DEF Fetch
<1>3. ServerInv'
  BY <1>2, ServerStill DEF WholeInv
<1>4. NetworkInv' /\ FetchInv'
  BY <1>1, <1>2 DEF WholeInv, NetworkInv, FetchInv, FetchRecord, Rrq, Peer, Host, IsRequest,
                    GoodPacket
<1>5. Claims' \subseteq Claims \cup {<<p, f>>}
  BY <1>1, <1>2 DEF Claims, Rrq, serverVars
<1>6. PortInv'
  BY <1>1, <1>5 DEF WholeInv, PortInv
<1> QED  BY <1>3, <1>4, <1>6 DEF WholeInv

(* What the ATA hears of its fetch is of the file it asked for.            *)
LEMMA HearKeeps == WholeInv /\ (Hears \/ Lose) /\ ~RfcClient => WholeInv'
<1> SUFFICES ASSUME WholeInv, Hears \/ Lose, ~RfcClient PROVE WholeInv'
  OBVIOUS
<1> DEFINE Known(x) == <<x.port, x.file>> \in Claims
           Sound(m) == m.peer \in Peer /\ <<m.peer[2], m.file>> \in Claims
<1>1. /\ UNCHANGED <<serverVars, used>> /\ toClient' \subseteq toClient
      /\ \A m \in toServer' : m \in toServer \/ ~IsRequest(m)
  BY DEF Hears, HearData, HearAgain, Overlook, Lose, Delivered, Ack, IsRequest, clientVars
<1>2. ServerInv'
  BY <1>1, ServerStill DEF WholeInv
<1>3. /\ \A m \in toServer' : Sound(m)
      /\ \A w \in wanted' \cup holds' : Known(w)
      /\ FetchInv'
  <2>1. \A m \in toServer : Sound(m)
    BY DEF WholeInv, NetworkInv, Claims
  <2>2. \A w \in wanted \cup holds : w \in FetchRecord /\ Known(w)
    BY DEF WholeInv, FetchInv, Claims
  <2>3. CASE UNCHANGED <<wanted, holds>> /\ toServer' \subseteq toServer
    BY <2>1, <2>2, <2>3 DEF WholeInv, FetchInv
  <2>4. ASSUME NEW k \in toClient, HearAgain(k)
        PROVE  UNCHANGED <<wanted, holds>> /\ \A m \in toServer' : Sound(m)
    BY <2>1, <2>2, <2>4 DEF HearAgain, clientVars, Ack, FetchRecord, Peer, Host
  <2>5. ASSUME NEW k \in toClient, HearData(k)
        PROVE  /\ \A m \in toServer' : Sound(m)
               /\ \A w \in wanted' \cup holds' : Known(w)
               /\ FetchInv'
    <3>1. PICK w \in wanted :
             /\ k.peer = <<"client", w.port>>
             /\ toServer' = toServer \cup {Ack(w.file, w.port, k.number)}
             /\ IF k.number = w.got + 1
                THEN IF Ends(k) THEN wanted' = {} /\ holds' = holds \cup {[w EXCEPT !.got = @ + 1]}
                                ELSE wanted' = {[w EXCEPT !.got = @ + 1]} /\ UNCHANGED holds
                ELSE UNCHANGED <<wanted, holds>>
      BY <2>5 DEF HearData
    <3>2. IsData(k) /\ GoodPacket(k)
      BY <2>5 DEF HearData, IsData, WholeInv, NetworkInv
    <3>3. k.file = w.file
      <4>1. <<k.peer[2], k.file>> \in Claims /\ <<w.port, w.file>> \in Claims
        BY <3>2 DEF Claims
      <4> QED  BY <3>1, <4>1 DEF WholeInv, PortInv
    <3>4. /\ w \in FetchRecord /\ [w EXCEPT !.got = @ + 1] \in FetchRecord
          /\ [w EXCEPT !.got = @ + 1].got = w.got + 1
          /\ [w EXCEPT !.got = @ + 1].port = w.port /\ [w EXCEPT !.got = @ + 1].file = w.file
      BY DEF WholeInv, FetchInv, FetchRecord
    <3>5. Len(Blocks(w.file)) \in Nat
      BY <3>4, BlocksType DEF FetchRecord
    <3>6. k.number = w.got + 1 /\ Ends(k) =>
             w.got + 1 \in Len(Blocks(w.file)) .. Len(Blocks(w.file)) + 1
      BY <3>2, <3>3, <3>4, <3>5 DEF Ends, GoodPacket, Closes, FetchRecord
    <3>7. \A m \in toServer' : Sound(m)
      <4>1. Sound(Ack(w.file, w.port, k.number))
        BY <2>2, <3>4 DEF Ack, Peer, Host, FetchRecord
      <4> QED  BY <2>1, <3>1, <4>1
    <3>8. \A v \in wanted' \cup holds' : v \in FetchRecord /\ Known(v)
      BY <2>2, <3>1, <3>4
    <3>9. FetchInv'
      BY <3>1, <3>4, <3>6, <3>8 DEF WholeInv, FetchInv
    <3> QED  BY <3>7, <3>8, <3>9
  <2> QED  BY <2>1, <2>2, <2>3, <2>4, <2>5 DEF Hears, Lose, Overlook, clientVars, WholeInv, FetchInv
<1>4. NetworkInv'
  BY <1>1, <1>3 DEF WholeInv, NetworkInv, GoodPacket
<1>5. Claims' \subseteq Claims
  BY <1>1, <1>3 DEF Claims, serverVars
<1>6. PortInv'
  BY <1>1, <1>5, ClaimsShrink DEF WholeInv
<1> QED  BY <1>2, <1>3, <1>4, <1>6 DEF WholeInv

LEMMA WholeKept == WholeInv /\ [TftpNext]_tftpVars /\ ~RfcClient => WholeInv'
<1>1. ASSUME WholeInv, UNCHANGED tftpVars PROVE WholeInv'
  <2>1. ServerInv'
    BY <1>1, ServerStill DEF WholeInv, tftpVars
  <2>2. NetworkInv' /\ FetchInv' /\ PortInv'
    BY <1>1 DEF WholeInv, tftpVars, serverVars, clientVars, netVars, NetworkInv, FetchInv,
                PortInv, Claims, GoodPacket
  <2> QED  BY <2>1, <2>2 DEF WholeInv
<1> QED  BY <1>1, ServerClaims, FetchKeeps, HearKeeps DEF TftpNext

(* Whatever the network does and however often the ATA gives a fetch up,   *)
(* a file it holds ends at its last block, and no packet that reaches it   *)
(* for its fetch is of another file.  A client that stops at a short block *)
(* (RfcClient) does not hold the empty one, hence the assumption.          *)
THEOREM HeldIsWhole == ASSUME ~RfcClient PROVE TftpSpec => []HeldFilesAreWhole
<1>1. WholeInv => HeldFilesAreWhole
  <2> SUFFICES ASSUME WholeInv PROVE HeldFilesAreWhole
    OBVIOUS
  <2>1. ASSUME NEW k \in toClient, NEW w \in wanted, IsData(k), k.peer = <<"client", w.port>>
        PROVE  k.file = w.file
    <3>1. <<k.peer[2], k.file>> \in Claims /\ <<w.port, w.file>> \in Claims
      BY <2>1 DEF Claims
    <3> QED  BY <2>1, <3>1 DEF WholeInv, PortInv
  <2> QED  BY <2>1 DEF WholeInv, FetchInv, HeldFilesAreWhole, IsData
<1> QED  BY <1>1, WholeStarts, WholeKept, PTL DEF TftpSpec

-----------------------------------------------------------------------------
(* The ATA acknowledges the block that closes a file only once it has the  *)
(* file: an ACK of that block, on whatever detour, stands for a held file. *)
CloseInv ==
    /\ \A w \in wanted : \A n \in 1 .. w.got : ~Closes(w.file, n)
    /\ \A m \in toServer : m.kind = "ack" /\ Closes(m.file, m.number) =>
         \E h \in holds : m.peer = <<"client", h.port>> /\ h.file = m.file

LEMMA CloseStarts == TftpInit => CloseInv
  BY DEF TftpInit, CloseInv

LEMMA HearDataCloses ==
  ASSUME WholeInv, CloseInv, ~RfcClient, NEW k \in toClient, HearData(k)
  PROVE  CloseInv'
<1>1. PICK w \in wanted :
         /\ k.peer = <<"client", w.port>> /\ k.number <= w.got + 1
         /\ toServer' = toServer \cup {Ack(w.file, w.port, k.number)}
         /\ IF k.number = w.got + 1
            THEN IF Ends(k) THEN wanted' = {} /\ holds' = holds \cup {[w EXCEPT !.got = @ + 1]}
                            ELSE wanted' = {[w EXCEPT !.got = @ + 1]} /\ UNCHANGED holds
            ELSE UNCHANGED <<wanted, holds>>
  BY DEF HearData
<1> DEFINE v == [w EXCEPT !.got = @ + 1]
           a == Ack(w.file, w.port, k.number)
<1>2. /\ w \in FetchRecord /\ v.got = w.got + 1 /\ v.port = w.port /\ v.file = w.file
      /\ w.got \in Nat
  BY DEF WholeInv, FetchInv, FetchRecord
<1>3. IsData(k) /\ GoodPacket(k)
  BY DEF HearData, IsData, WholeInv, NetworkInv
<1>4. k.file = w.file
  <2>1. <<k.peer[2], k.file>> \in Claims /\ <<w.port, w.file>> \in Claims
    BY <1>3 DEF Claims
  <2> QED  BY <1>1, <2>1 DEF WholeInv, PortInv
<1>5. k.number \in Nat \ {0} /\ (Ends(k) <=> Closes(w.file, k.number))
  BY <1>3, <1>4 DEF GoodPacket, Ends
<1>6. /\ a.peer = <<"client", w.port>> /\ a.file = w.file /\ a.number = k.number
      /\ holds \subseteq holds'
  BY <1>1 DEF Ack
<1>7. CASE k.number = w.got + 1 /\ Ends(k)
  <2>1. wanted' = {} /\ v \in holds'
    BY <1>1, <1>7
  <2> QED  BY <1>1, <1>2, <1>6, <2>1 DEF CloseInv
<1>8. CASE k.number = w.got + 1 /\ ~Ends(k)
  <2>1. wanted' = {v} /\ ~Closes(w.file, k.number)
    BY <1>1, <1>5, <1>8
  <2>2. \A n \in 1 .. v.got : n \in 1 .. w.got \/ n = k.number
    BY <1>2, <1>8
  <2>3. \A n \in 1 .. v.got : ~Closes(v.file, n)
    BY <1>2, <2>1, <2>2 DEF CloseInv
  <2> QED  BY <1>1, <1>6, <2>1, <2>3 DEF CloseInv
<1>9. CASE k.number # w.got + 1
  <2>1. k.number \in 1 .. w.got
    BY <1>1, <1>2, <1>5, <1>9
  <2>2. ~Closes(w.file, k.number)
    BY <2>1 DEF CloseInv
  <2> QED  BY <1>1, <1>6, <1>9, <2>2 DEF CloseInv
<1> QED  BY <1>7, <1>8, <1>9

LEMMA CloseKept ==
  WholeInv /\ CloseInv /\ [TftpNext]_tftpVars /\ ~RfcClient => CloseInv'
<1> SUFFICES ASSUME WholeInv, CloseInv, [TftpNext]_tftpVars, ~RfcClient
             PROVE  CloseInv'
  OBVIOUS
<1>1. CASE UNCHANGED <<wanted, holds>> /\ toServer' \subseteq toServer
  BY <1>1 DEF CloseInv
<1>2. CASE Fetch
  BY <1>2 DEF Fetch, Rrq, CloseInv
<1>3. ASSUME NEW k \in toClient, HearAgain(k) PROVE CloseInv'
  <2>1. PICK h \in holds : toServer' = toServer \cup {Ack(h.file, h.port, k.number)}
    BY <1>3 DEF HearAgain
  <2>2. UNCHANGED <<wanted, holds>>
    BY <1>3 DEF HearAgain, clientVars
  <2> QED  BY <2>1, <2>2 DEF Ack, CloseInv
<1>4. ASSUME NEW k \in toClient, Overlook(k) PROVE CloseInv'
  BY <1>1, <1>4 DEF Overlook, clientVars
<1>5. CASE Lose \/ ServerReceives \/ ServerLoops \/ PassTime \/ UNCHANGED tftpVars
  BY <1>1, <1>5 DEF Lose, ServerReceives, Delivered, ServerLoops, PassTime, tftpVars, clientVars,
                    netVars
<1> QED  BY <1>2, <1>3, <1>4, <1>5, HearDataCloses DEF TftpNext, Hears

(* The one step that completes a transfer is the ACK of its closing block. *)
LEMMA CompletedByAck ==
  ASSUME WholeInv, [TftpNext]_tftpVars,
         status' = "complete", transfer # {}, transfer' = {}
  PROVE  \E d \in toServer : AckLast(d)
<1>1. serverVars' # serverVars
  BY DEF serverVars
<1>2. ServerReceives \/ ServerLoops \/ PassTime
  BY <1>1 DEF TftpNext, tftpVars, Fetch, Hears, HearData, HearAgain, Overlook, Lose
<1>3. ~ServerLoops /\ ~PassTime
  BY DEF ServerLoops, PassTime, LoopStep, Stop, Wait, Retransmit, SendBlock, Expire,
         SelectTimeout, Tick
<1>4. PICK d \in toServer : Handle(d)
  BY <1>2, <1>3 DEF ServerReceives
<1>5. ~(Refuse(d) \/ RequestUnserved(d) \/ AckIgnored(d) \/ AckMalformed(d))
  BY DEF Refuse, RequestUnserved, AckIgnored, AckMalformed
<1>6. ~(RequestFile(d) \/ AckMismatch(d) \/ AckNext(d))
  BY DEF RequestFile, AckMismatch, AckNext, SendBlock
<1> QED  BY <1>4, <1>5, <1>6 DEF Handle

(* A transfer the server reports complete is one whose file the ATA holds, *)
(* on the port it was sent to: no ACK of an earlier fetch, repeated or     *)
(* late, is taken for the one that ends it.                                *)
THEOREM CompleteIsHeld == ASSUME ~RfcClient PROVE TftpSpec => CompleteMeansHeld
<1>1. WholeInv /\ CloseInv /\ [TftpNext]_tftpVars =>
        [status' = "complete" /\ transfer # {} /\ transfer' = {} =>
           \A t \in transfer : \E h \in holds :
              h.file = t.file /\ t.peer = <<"client", h.port>>]_tftpVars
  <2> SUFFICES ASSUME WholeInv, CloseInv, [TftpNext]_tftpVars,
                      status' = "complete", transfer # {}, transfer' = {},
                      NEW t \in transfer
               PROVE  \E h \in holds : h.file = t.file /\ t.peer = <<"client", h.port>>
    OBVIOUS
  <2>1. PICK d \in toServer : AckLast(d)
    BY CompletedByAck
  <2>2. AwaitsAck(t) /\ \A u \in transfer : u = t
    BY DEF WholeInv, ServerInv, TransferInv
  <2>3. /\ d.kind = "ack" /\ t.peer = d.peer /\ d.number = t.pending /\ t.terminator
    BY <2>1, <2>2 DEF AckLast, Owner, Acknowledges
  <2>4. Closes(t.file, d.number)
    BY <2>2, <2>3 DEF AwaitsAck, Terminator, Chunk, Closes
  <2>5. d.file = t.file
    <3>1. <<d.peer[2], d.file>> \in Claims /\ <<t.peer[2], t.file>> \in Claims
      BY DEF Claims
    <3> QED  BY <2>3, <3>1 DEF WholeInv, PortInv
  <2> QED  BY <2>3, <2>4, <2>5 DEF CloseInv
<1> QED
  BY <1>1, WholeStarts, WholeKept, CloseStarts, CloseKept, PTL DEF TftpSpec, CompleteMeansHeld
=============================================================================
