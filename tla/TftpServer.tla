------------------------------ MODULE TftpServer ------------------------------
(***************************************************************************)
(* TftpServer of telephony/tftp_profile.py: one TFTP read transfer at a    *)
(* time, from a fixed set of files, to one expected host.                  *)
(*                                                                         *)
(* The environment is open: any datagram may be received while the server  *)
(* waits in select.  Handling is instantaneous: time passes in select.     *)
(* Block numbers stay far below 2^16, and byte_count is left out.          *)
(***************************************************************************)
EXTENDS Naturals, Sequences, FiniteSets

CONSTANTS
    File,          \* the served names: the keys of payloads
    OtherFile,     \* a name outside the allow list
    FullBlocks,    \* per file: its number of 512-byte blocks
    HasTail,       \* per file: whether a shorter, non-empty block follows
    Port,          \* UDP ports the peers use
    MaxNumber,     \* bound: the block numbers an ACK may carry
    RunTimes,      \* values of run_seconds, in ticks
    Timeout,       \* timeout_seconds, in ticks
    Retransmits,   \* retransmits
    MaxDatagrams,  \* bound: datagrams received in a run
    SendMayFail    \* whether sendto may raise

ASSUME FileAssumption == /\ OtherFile \notin File
                         /\ FullBlocks \in [File -> Nat]
                         /\ HasTail \in [File -> BOOLEAN]
ASSUME TimeAssumption == /\ RunTimes \subseteq Nat /\ Timeout \in Nat \ {0}
                         /\ Retransmits \in Nat
ASSUME NumberAssumption == /\ MaxNumber \in Nat /\ MaxDatagrams \in Nat
                           /\ SendMayFail \in BOOLEAN

Host == {"client", "stranger"}
Peer == Host \X Port

(* A datagram as handle_datagram tells it apart; "odd" stands for a write  *)
(* request, an unknown opcode and a malformed RRQ: all are rejected alike. *)
Datagram == [kind : {"rrq", "ack", "badack", "odd"}, peer : Peer,
             file : File \cup {OtherFile}, number : 0 .. MaxNumber]

(* blockize, and the empty block _handle_rrq adds behind a short tail.     *)
Blocks(f) ==
    LET full == [i \in 1 .. FullBlocks[f] |-> "full"]
    IN CASE HasTail[f]                         -> full \o <<"tail", "empty">>
         [] ~HasTail[f] /\ FullBlocks[f] = 0   -> <<"empty">>
         [] OTHER                              -> full

Size == {"full", "tail", "empty"}
Packet == [kind : {"data"}, peer : Peer, file : File, number : Nat, size : Size]
          \cup [kind : {"error"}, peer : Peer]

Transfer == [peer : Peer, file : File, next : Nat, pending : Nat,
             sentAt : Nat, retries : Nat, acked : Nat, terminator : BOOLEAN]

VARIABLES
    pc,        \* run(): "top", "wait" in select, "stopped", "raised"
    now,       \* ticks since run() was called
    deadline,  \* deadline of run()
    wake,      \* when the select call times out
    transfer,  \* self.transfer, as a set
    requests,  \* self.requests
    errors,    \* self.errors
    received,  \* datagrams received so far
    output,    \* the packets sent by the last step
    status     \* how the last transfer ended

serverVars == <<pc, now, deadline, wake, transfer, requests, errors, received,
                output, status>>

ServerInit ==
    /\ pc = "top"
    /\ now = 0 /\ wake = 0
    /\ deadline \in RunTimes
    /\ transfer = {}
    /\ requests = 0 /\ errors = 0 /\ received = 0
    /\ output = {}
    /\ status = "none"

-----------------------------------------------------------------------------
Chunk(t) == IF t.next <= Len(Blocks(t.file)) THEN Blocks(t.file)[t.next] ELSE "empty"

(* A terminator test that only looks at the last block's position.         *)
Terminator_AnyLast(t) == t.next >= Len(Blocks(t.file))

(* The last block, and it is short.                                        *)
Terminator(t) == t.next >= Len(Blocks(t.file)) /\ Chunk(t) # "full"

(* _send_next_block for transfer t.  Nothing catches what sendto raises    *)
(* here: it ends run().                                                    *)
SendBlock(t, goOn) ==
    /\ transfer' = {[t EXCEPT !.terminator = Terminator(t), !.pending = t.next]}
    /\ \/ /\ output' = {[kind |-> "data", peer |-> t.peer, file |-> t.file,
                         number |-> t.next, size |-> Chunk(t)]}
          /\ pc' = goOn
       \/ SendMayFail /\ output' = {} /\ pc' = "raised"

(* _reject: here a sendto that raises is ignored.                          *)
Reject(peer) ==
    /\ errors' = errors + 1
    /\ \/ output' = {[kind |-> "error", peer |-> peer]}
       \/ SendMayFail /\ output' = {}
    /\ pc' = "top"

Receive(d) ==
    /\ pc = "wait"
    /\ received < MaxDatagrams
    /\ received' = received + 1
    /\ UNCHANGED <<now, deadline, wake>>

(* A stranger, or a datagram that is neither a well-formed RRQ nor an ACK. *)
Refuse(d) ==
    /\ Receive(d)
    /\ d.peer[1] # "client" \/ d.kind = "odd"
    /\ Reject(d.peer)
    /\ UNCHANGED <<transfer, requests, status>>

(* _handle_rrq: the expected host, from whatever port, replaces its own    *)
(* transfer, even by a request for a file that is not served.              *)
RequestUnserved(d) ==
    /\ Receive(d)
    /\ d.peer[1] = "client" /\ d.kind = "rrq" /\ d.file \notin File
    /\ Reject(d.peer)
    /\ transfer' = {}
    /\ status' = IF transfer # {} THEN "abandoned" ELSE status
    /\ UNCHANGED requests

(* A takeover that changes the peer of the transfer and not its file.      *)
NewTransfer_KeepsFile(d) ==
    [peer |-> d.peer, file |-> IF transfer = {} THEN d.file
                               ELSE (CHOOSE t \in transfer : TRUE).file,
     next |-> 1, pending |-> 0, sentAt |-> now, retries |-> 0, acked |-> 0,
     terminator |-> FALSE]

(* The Transfer that _handle_rrq creates.                                  *)
NewTransfer(d) ==
    [peer |-> d.peer, file |-> d.file, next |-> 1, pending |-> 0,
     sentAt |-> now, retries |-> 0, acked |-> 0, terminator |-> FALSE]

RequestFile(d) ==
    /\ Receive(d)
    /\ d.peer[1] = "client" /\ d.kind = "rrq" /\ d.file \in File
    /\ requests' = requests + 1
    /\ SendBlock(NewTransfer(d), "top")
    /\ status' = IF transfer # {} THEN "abandoned" ELSE status
    /\ UNCHANGED errors

IsAck(d) == d.peer[1] = "client" /\ d.kind \in {"ack", "badack"}

(* An ACK check that does not look at the port of the peer.                *)
Owner_AnyPort(t, d) == t.peer[1] = d.peer[1]

(* The transfer an ACK belongs to: same host and same port.                *)
Owner(t, d) == t.peer = d.peer

AckIgnored(d) ==
    /\ Receive(d)
    /\ IsAck(d)
    /\ ~\E t \in transfer : Owner(t, d)
    /\ pc' = "top"
    /\ output' = {}
    /\ UNCHANGED <<transfer, requests, errors, status>>

AckMalformed(d) ==
    /\ Receive(d)
    /\ IsAck(d) /\ d.kind = "badack"
    /\ \E t \in transfer : Owner(t, d)
    /\ Reject(d.peer)
    /\ UNCHANGED <<transfer, requests, status>>

(* An ACK test that is content with an old number.                         *)
Acknowledges_Old(t, n) == n <= t.pending

Acknowledges(t, n) == n = t.pending

(* An unexpected number sends the pending block again at once.             *)
AckMismatch(d) ==
    /\ Receive(d)
    /\ IsAck(d) /\ d.kind = "ack"
    /\ \E t \in transfer :
         Owner(t, d) /\ ~Acknowledges(t, d.number) /\ SendBlock(t, "top")
    /\ UNCHANGED <<requests, errors, status>>

(* The bookkeeping of an expected ACK.                                     *)
Progress(t) == [t EXCEPT !.acked = @ + 1, !.retries = 0, !.sentAt = now]

AckNext(d) ==
    /\ Receive(d)
    /\ IsAck(d) /\ d.kind = "ack"
    /\ \E t \in transfer :
         /\ Owner(t, d) /\ Acknowledges(t, d.number) /\ ~t.terminator
         /\ SendBlock([Progress(t) EXCEPT !.next = @ + 1], "top")
    /\ UNCHANGED <<requests, errors, status>>

AckLast(d) ==
    /\ Receive(d)
    /\ IsAck(d) /\ d.kind = "ack"
    /\ \E t \in transfer :
         Owner(t, d) /\ Acknowledges(t, d.number) /\ t.terminator
    /\ pc' = "top"
    /\ transfer' = {}
    /\ status' = "complete"
    /\ output' = {}
    /\ UNCHANGED <<requests, errors>>

-----------------------------------------------------------------------------
(* The top of run().  A full timeout in ticks is more than the timeout:    *)
(* the clock has moved on since the packet left.                           *)

Overdue(t) == now - t.sentAt >= Timeout

(* A select call that always waits a whole timeout.                        *)
EnterSelect_FullTimeout ==
    /\ wake' = now + Timeout
    /\ UNCHANGED <<now, deadline, requests, received>>

EnterSelect ==
    /\ wake' = now + (IF Timeout <= deadline - now THEN Timeout ELSE deadline - now)
    /\ UNCHANGED <<now, deadline, requests, received>>

Stop ==
    /\ pc = "top"
    /\ now >= deadline
    /\ pc' = "stopped"
    /\ output' = {}
    /\ UNCHANGED <<now, deadline, wake, transfer, requests, errors, received, status>>

Wait ==
    /\ pc = "top" /\ now < deadline
    /\ \A t \in transfer : ~Overdue(t)
    /\ EnterSelect
    /\ pc' = "wait"
    /\ output' = {}
    /\ UNCHANGED <<transfer, errors, status>>

(* A retry counter that runs the wrong way.                                *)
Retry_CountsDown(t) == [t EXCEPT !.retries = @ - 1]

(* retries grows; sent_at stays.                                           *)
Retry(t) == [t EXCEPT !.retries = @ + 1]

Retransmit ==
    /\ pc = "top" /\ now < deadline
    /\ \E t \in transfer : /\ Overdue(t) /\ t.retries < Retransmits
                           /\ SendBlock(Retry(t), "wait")
    /\ EnterSelect
    /\ UNCHANGED <<errors, status>>

Expire ==
    /\ pc = "top" /\ now < deadline
    /\ \E t \in transfer : Overdue(t) /\ t.retries >= Retransmits
    /\ EnterSelect
    /\ pc' = "wait"
    /\ transfer' = {}
    /\ errors' = errors + 1
    /\ status' = "timeout"
    /\ output' = {}

SelectTimeout ==
    /\ pc = "wait" /\ now >= wake
    /\ pc' = "top"
    /\ output' = {}
    /\ UNCHANGED <<now, deadline, wake, transfer, requests, errors, received, status>>

Tick ==
    /\ pc = "wait" /\ now < wake
    /\ now' = now + 1
    /\ output' = {}
    /\ UNCHANGED <<pc, deadline, wake, transfer, requests, errors, received, status>>

Handle(d) == \/ Refuse(d) \/ RequestUnserved(d) \/ RequestFile(d)
             \/ AckIgnored(d) \/ AckMalformed(d) \/ AckMismatch(d)
             \/ AckNext(d) \/ AckLast(d)

LoopStep == Stop \/ Wait \/ Retransmit \/ Expire \/ SelectTimeout

ServerNext == (\E d \in Datagram : Handle(d)) \/ LoopStep \/ Tick

ServerSpec == ServerInit /\ [][ServerNext]_serverVars

-----------------------------------------------------------------------------
ServerTypeOK ==
    /\ pc \in {"top", "wait", "stopped", "raised"}
    /\ now \in Nat /\ wake \in Nat /\ deadline \in RunTimes
    /\ transfer \in SUBSET Transfer
    /\ requests \in Nat /\ errors \in Nat /\ received \in Nat
    /\ output \in SUBSET Packet
    /\ status \in {"none", "complete", "abandoned", "timeout"}

(* The bookkeeping of the one transfer agrees with itself after any mix of *)
(* requests, stale ACKs and timeouts: what waits for an ACK is the block   *)
(* after the last acknowledged one, the block exists or is the empty one   *)
(* that closes the file, and the retry budget is respected.                *)
TransferCoherent ==
    /\ Cardinality(transfer) <= 1
    /\ \A t \in transfer :
         /\ t.pending = t.next /\ t.next = t.acked + 1
         /\ t.next <= Len(Blocks(t.file)) + 1
         /\ t.terminator <=> (t.next >= Len(Blocks(t.file)) /\ Chunk(t) # "full")
         /\ t.retries <= Retransmits
         /\ t.sentAt <= now

(* The bounded run time: no select call reaches beyond the deadline, so    *)
(* that run() is back in time whatever the state of a transfer.            *)
RunTimeKept == now <= deadline
=============================================================================
