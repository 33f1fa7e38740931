--------------------------- MODULE FirmwareService ---------------------------
(***************************************************************************)
(* serve_firmware of firmware/sata186us.py: one bounded image, served      *)
(* reactively on two bound nonblocking UDP sockets until the deadline, a   *)
(* stop request, or a quiet grace period after every block was served.     *)
(*                                                                         *)
(* The environment is open: any datagram may arrive on either socket at    *)
(* any moment while the sockets are bound, time may pass between any two   *)
(* steps, and the network may stop passing the safety check.               *)
(***************************************************************************)
EXTENDS Naturals, Sequences, FiniteSets

CONSTANTS
    NumBlocks,    \* len(store.sums): blocks of the image
    Duration,     \* duration_seconds, in ticks since serve_firmware was called
    Grace,        \* completion_grace_seconds in ticks, or NoTime for None
    NoTime,       \* None where an instant or a period is expected
    Horizon,      \* bound: the last instant time is modelled up to
    QueueLimit,   \* bound: datagrams a socket buffer holds; the kernel drops more
    MaxDatagrams  \* bound: datagrams that arrive in a run

ASSUME NumBlocksAssumption == NumBlocks \in Nat \ {0}
ASSUME DurationAssumption == Duration \in Nat \ {0}
ASSUME NoTimeAssumption == NoTime \notin Nat
ASSUME GraceAssumption == Grace \in (0 .. Duration) \cup {NoTime}
ASSUME BoundsAssumption == /\ Horizon \in Nat /\ Horizon >= Duration
                           /\ QueueLimit \in Nat /\ MaxDatagrams \in Nat

Block == 0 .. NumBlocks - 1
Socket == {"command", "data"}

(* A datagram, as far as the service tells it apart.  "stray" is one from  *)
(* another peer, empty or oversized; "corrupt" has a wrong UDP checksum:   *)
(* select announces it on a nonblocking socket, and recvfrom discards it   *)
(* and takes the next one, if there is one.  A block request carries any   *)
(* index, one past the end included.                                       *)
Datagram == [kind : {"stray", "corrupt", "garbage", "select", "foreign",
                     "hello", "block"},
             index : 0 .. NumBlocks]

(* What the peer may find on each socket.                                  *)
Incoming(s) ==
    {d \in Datagram :
        /\ d.kind # "block" => d.index = 0
        /\ d.kind \in {"stray", "corrupt", "garbage"}
                      \cup (IF s = "command" THEN {"select", "foreign"}
                                             ELSE {"hello", "block"})}

Reply == [kind : {"url", "none", "hello", "block"}, index : 0 .. NumBlocks]

Counter == {"command_requests", "command_responses", "data_requests",
            "data_responses", "invalid_requests", "rejected_requests"}

VARIABLES
    pc,          \* "bound", "top", "wait", "each", "send", "returned", "raised"
    queue,       \* per socket: its receive buffer
    arrived,     \* datagrams that arrived so far
    badSums,     \* datagrams the kernel discarded for their checksum
    now,         \* ticks since serve_firmware was called
    networkSafe, \* what safety_check would find
    stop,        \* stop_event
    readable,    \* the sockets select announced and the loop has yet to read
    selected,    \* selected
    reply,       \* the response between its safety check and sendto, as a set
    unique,      \* result.unique_blocks
    count,       \* the packet counters of ServerResult
    quietUntil,  \* completion_deadline, or NoTime
    logged,      \* completion_logged
    sent,        \* every response put on the wire
    advertised,  \* the last command response carried the upgrade URL
    lastData,    \* when the last data response left, or NoTime
    cause        \* why serve_firmware raised

loopVars == <<pc, readable, selected, reply, unique, count, quietUntil, logged>>
wireVars == <<sent, advertised, lastData>>
envVars == <<arrived, now, networkSafe, stop>>
serviceVars == <<loopVars, wireVars, envVars, queue, badSums, cause>>

ServiceInit ==
    /\ pc = "bound"
    /\ queue = [s \in Socket |-> <<>>]
    /\ arrived = 0
    /\ badSums = 0
    /\ now = 0
    /\ networkSafe = TRUE
    /\ stop = FALSE
    /\ readable = {}
    /\ selected = FALSE
    /\ reply = {}
    /\ unique = {}
    /\ count = [c \in Counter |-> 0]
    /\ quietUntil = NoTime
    /\ logged = FALSE
    /\ sent = {}
    /\ advertised = FALSE
    /\ lastData = NoTime
    /\ cause = "none"

-----------------------------------------------------------------------------
(* The environment.                                                        *)

Running == pc \notin {"returned", "raised"}

Arrive(s, d) ==
    /\ Running
    /\ arrived < MaxDatagrams
    /\ Len(queue[s]) < QueueLimit
    /\ arrived' = arrived + 1
    /\ queue' = [queue EXCEPT ![s] = Append(@, d)]
    /\ UNCHANGED <<loopVars, wireVars, now, networkSafe, stop, badSums, cause>>

Tick ==
    /\ pc \notin {"bound", "returned", "raised"}
    /\ now < Horizon
    /\ now' = now + 1
    /\ UNCHANGED <<loopVars, wireVars, arrived, networkSafe, stop, queue, badSums, cause>>

NetworkChanges ==
    /\ Running
    /\ networkSafe' = ~networkSafe
    /\ UNCHANGED <<loopVars, wireVars, arrived, now, stop, queue, badSums, cause>>

RequestStop ==
    /\ Running
    /\ ~stop
    /\ stop' = TRUE
    /\ UNCHANGED <<loopVars, wireVars, arrived, now, networkSafe, queue, badSums, cause>>

-----------------------------------------------------------------------------
(* The service loop.                                                       *)

Complete(blocks) == Cardinality(blocks) = NumBlocks

(* A loop that leaves as soon as every block went out.                     *)
Over_WhenComplete(t, quiet) == t >= Duration \/ stop \/ Complete(unique)

(* The three ways out at the top of the loop.                              *)
Over(t, quiet) ==
    \/ t >= Duration
    \/ stop
    \/ quiet # NoTime /\ t >= quiet

Start ==
    /\ pc = "bound"
    /\ pc' = "top"
    /\ UNCHANGED <<readable, selected, reply, unique, count, quietUntil, logged,
                   wireVars, envVars, queue, badSums, cause>>

LoopTop ==
    /\ pc = "top"
    /\ pc' = IF Over(now, quietUntil) THEN "returned" ELSE "wait"
    /\ UNCHANGED <<readable, selected, reply, unique, count, quietUntil, logged,
                   wireVars, envVars, queue, badSums, cause>>

SelectReady ==
    /\ pc = "wait"
    /\ \E s \in Socket : queue[s] # <<>>
    /\ readable' = {s \in Socket : queue[s] # <<>>}
    /\ pc' = "each"
    /\ UNCHANGED <<selected, reply, unique, count, quietUntil, logged,
                   wireVars, envVars, queue, badSums, cause>>

SelectTimeout ==
    /\ pc = "wait"
    /\ \A s \in Socket : queue[s] = <<>>
    /\ pc' = "top"
    /\ UNCHANGED <<readable, selected, reply, unique, count, quietUntil, logged,
                   wireVars, envVars, queue, badSums, cause>>

(* The readable list keeps the order of the select call: command first.    *)
Current == IF "command" \in readable THEN "command" ELSE "data"
AfterPacket == IF readable' = {} THEN "top" ELSE "each"

Bump(fields) == count' = [c \in Counter |-> IF c \in fields THEN count[c] + 1
                                                            ELSE count[c]]

(* The datagram recvfrom looks at on the socket whose turn it is.          *)
AtHead(s, d) ==
    /\ pc = "each"
    /\ s = Current
    /\ queue[s] # <<>>
    /\ d = Head(queue[s])
    /\ queue' = [queue EXCEPT ![s] = Tail(@)]
    /\ UNCHANGED <<unique, quietUntil, logged, wireVars, envVars>>

(* The kernel discards a datagram whose checksum is wrong.  If it was the  *)
(* last one, recvfrom raises BlockingIOError and nothing catches it.       *)
Discard(s, d) ==
    /\ AtHead(s, d)
    /\ d.kind = "corrupt"
    /\ badSums' = badSums + 1
    /\ IF Len(queue[s]) = 1 THEN pc' = "raised" /\ cause' = "receive"
                            ELSE UNCHANGED <<pc, cause>>
    /\ UNCHANGED <<readable, selected, reply, count>>

(* recvfrom returns a datagram, whatever becomes of it.                    *)
Take(s, d) ==
    /\ AtHead(s, d)
    /\ d.kind # "corrupt"
    /\ readable' = readable \ {s}
    /\ UNCHANGED badSums

Reject(s, d) ==
    /\ Take(s, d)
    /\ d.kind = "stray"
    /\ Bump({"rejected_requests"})
    /\ pc' = AfterPacket
    /\ UNCHANGED <<selected, reply, cause>>

CommandInvalid(s, d) ==
    /\ Take(s, d)
    /\ s = "command"
    /\ d.kind = "garbage"
    /\ Bump({"command_requests", "invalid_requests"})
    /\ pc' = AfterPacket
    /\ UNCHANGED <<selected, reply, cause>>

(* The safety check runs once the response is built; when it fails the     *)
(* service raises with the request counted and not answered.               *)
Answer(r) ==
    IF networkSafe
    THEN pc' = "send" /\ reply' = {r} /\ UNCHANGED cause
    ELSE pc' = "raised" /\ cause' = "safety" /\ UNCHANGED reply

(* A selection that a request for another image does not clear.            *)
Selects_Sticky(d) == selected \/ d.kind = "select"

(* A KBOX request selects the image when type and platform match.          *)
Selects(d) == d.kind = "select"

CommandAnswer(s, d) ==
    /\ Take(s, d)
    /\ s = "command"
    /\ d.kind \in {"select", "foreign"}
    /\ Bump({"command_requests"})
    /\ selected' = Selects(d)
    /\ Answer([kind |-> IF d.kind = "select" THEN "url" ELSE "none", index |-> 0])

(* A data request is served when the image is selected, it parses, and it  *)
(* is a hello or asks for a block the image has.                           *)
ValidData(d) == selected /\ d.kind # "garbage" /\ d.index < NumBlocks

(* A data request that is refused and not counted as invalid.              *)
DataInvalid_Uncounted(s, d) ==
    /\ Take(s, d)
    /\ s = "data"
    /\ d.kind # "stray"
    /\ ~ValidData(d)
    /\ Bump({"data_requests"})
    /\ pc' = AfterPacket
    /\ UNCHANGED <<selected, reply, cause>>

DataInvalid(s, d) ==
    /\ Take(s, d)
    /\ s = "data"
    /\ d.kind # "stray"
    /\ ~ValidData(d)
    /\ Bump({"data_requests", "invalid_requests"})
    /\ pc' = AfterPacket
    /\ UNCHANGED <<selected, reply, cause>>

DataAnswer(s, d) ==
    /\ Take(s, d)
    /\ s = "data"
    /\ d.kind # "stray"
    /\ ValidData(d)
    /\ Bump({"data_requests"})
    /\ UNCHANGED selected
    /\ Answer([kind |-> d.kind, index |-> d.index])

IsCommand(r) == r.kind \in {"url", "none"}

(* A quiet period that starts when the stream completes and is not renewed.*)
QuietAfter_Once(blocks) ==
    IF Complete(blocks) /\ Grace # NoTime /\ quietUntil = NoTime
    THEN now + Grace ELSE quietUntil

(* Every data response of a complete stream renews the quiet period.       *)
QuietAfter(blocks) ==
    IF Complete(blocks) /\ Grace # NoTime THEN now + Grace ELSE quietUntil

SendCommand(r) ==
    /\ IsCommand(r)
    /\ Bump({"command_responses"})
    /\ advertised' = (r.kind = "url")
    /\ UNCHANGED <<unique, quietUntil, logged, lastData>>

(* Blocks counted from one, as the log prints them.                        *)
SendData_OneBased(r) ==
    /\ ~IsCommand(r)
    /\ Bump({"data_responses"})
    /\ unique' = IF r.kind = "block" THEN unique \cup {r.index + 1} ELSE unique
    /\ logged' = (logged \/ (r.kind = "block" /\ Complete(unique')))
    /\ quietUntil' = QuietAfter(unique')
    /\ lastData' = now
    /\ UNCHANGED advertised

SendData(r) ==
    /\ ~IsCommand(r)
    /\ Bump({"data_responses"})
    /\ unique' = IF r.kind = "block" THEN unique \cup {r.index} ELSE unique
    /\ logged' = (logged \/ (r.kind = "block" /\ Complete(unique')))
    /\ quietUntil' = QuietAfter(unique')
    /\ lastData' = now
    /\ UNCHANGED advertised

(* _send_packet wrote the whole response.                                  *)
SendOk ==
    /\ pc = "send"
    /\ \E r \in reply : (SendCommand(r) \/ SendData(r)) /\ sent' = sent \cup {r}
    /\ reply' = {}
    /\ pc' = IF readable = {} THEN "top" ELSE "each"
    /\ UNCHANGED <<readable, selected, envVars, queue, badSums, cause>>

(* A short or failed send that the service treats as sent.                 *)
SendFails_Ignored ==
    /\ pc = "send"
    /\ \E r \in reply : SendCommand(r) \/ SendData(r)
    /\ reply' = {}
    /\ pc' = IF readable = {} THEN "top" ELSE "each"
    /\ UNCHANGED <<readable, selected, envVars, queue, badSums, cause, sent>>

(* _send_packet raised: sendto failed or was short.                        *)
SendFails ==
    /\ pc = "send"
    /\ pc' = "raised"
    /\ cause' = "send"
    /\ UNCHANGED <<readable, selected, reply, unique, count, quietUntil, logged,
                   wireVars, envVars, queue, badSums>>

Receive(s, d) == \/ Discard(s, d) \/ Reject(s, d)
                 \/ CommandInvalid(s, d) \/ CommandAnswer(s, d)
                 \/ DataInvalid(s, d) \/ DataAnswer(s, d)

LoopStep == \/ Start \/ LoopTop \/ SelectReady \/ SelectTimeout
            \/ \E s \in Socket : \E d \in Incoming(s) : Receive(s, d)
            \/ SendOk \/ SendFails

EnvStep == \/ \E s \in Socket : \E d \in Incoming(s) : Arrive(s, d)
           \/ Tick \/ NetworkChanges \/ RequestStop

ServiceNext == LoopStep \/ EnvStep

ServiceSpec == ServiceInit /\ [][ServiceNext]_serviceVars

-----------------------------------------------------------------------------
ServiceTypeOK ==
    /\ pc \in {"bound", "top", "wait", "each", "send", "returned", "raised"}
    /\ queue \in [Socket -> Seq(Datagram)]
    /\ \A s \in Socket : queue[s] \in Seq(Incoming(s))
    /\ arrived \in Nat
    /\ badSums \in Nat
    /\ now \in Nat
    /\ networkSafe \in BOOLEAN
    /\ stop \in BOOLEAN
    /\ readable \in SUBSET Socket
    /\ selected \in BOOLEAN
    /\ reply \in SUBSET Reply
    /\ unique \in SUBSET Block
    /\ count \in [Counter -> Nat]
    /\ quietUntil \in Nat \cup {NoTime}
    /\ logged \in BOOLEAN
    /\ sent \in SUBSET Reply
    /\ advertised \in BOOLEAN
    /\ lastData \in Nat \cup {NoTime}
    /\ cause \in {"none", "receive", "safety", "send"}

(* ServerResult.complete is computed by counting: when the count is        *)
(* reached, every single block of the image, and nothing else, was put on  *)
(* the wire, in whatever order and however often the peer asked, and no    *)
(* failed send was counted.                                                *)
CompleteMeansEveryBlock ==
    /\ {r.index : r \in {q \in sent : q.kind = "block"}} = unique
    /\ Complete(unique) => unique = Block

(* The counters of ServerResult add up: every datagram that arrived is     *)
(* queued, discarded, rejected, invalid or answered, exactly once; only    *)
(* the request being answered, or on which the service raised, is open.    *)
RequestsAccountedFor ==
    LET open == IF pc = "send" \/ cause \in {"safety", "send"} THEN 1 ELSE 0
        requests == count["command_requests"] + count["data_requests"]
        unread == Len(queue["command"]) + Len(queue["data"])
    IN /\ requests = count["command_responses"] + count["data_responses"]
                     + count["invalid_requests"] + open
       /\ arrived = requests + count["rejected_requests"] + badSums + unread

(* The image is selected exactly as long as the last command response told *)
(* the peer so: a request for another image in mid-transfer ends the data  *)
(* stream, and no data leaves after the peer was told "none".              *)
DataOnlyWhileAdvertised ==
    [][count'["data_responses"] # count["data_responses"] => advertised]_serviceVars

(* The service returns before its deadline only because it was stopped, or *)
(* with a complete stream and no data response in the last Grace ticks.    *)
EarlyReturnIsQuiet ==
    pc = "returned" /\ now < Duration /\ ~stop =>
        Complete(unique) /\ lastData # NoTime /\ now - lastData >= Grace
=============================================================================
