----------------------------- MODULE TftpTransfer -----------------------------
(***************************************************************************)
(* TftpServer and the ATA that fetches a file from it.  The ATA is not in  *)
(* the repository: it is a TFTP client that uses a new port per request,   *)
(* acknowledges every block it has or gets, and stops at the block that    *)
(* closes the file, which for this server is an empty one.  The network    *)
(* loses, repeats and delays datagrams.                                    *)
(***************************************************************************)
EXTENDS TftpServer

CONSTANTS
    Wires,     \* the networks to consider, see Wire
    RfcClient  \* the client stops at the first short block, as RFC 1350 has it

(* A network for a run of the given length: the bounds of what it delivers,*)
(* loses and repeats, of the fetches the ATA starts, and whether time      *)
(* passes only while nothing is in flight.                                 *)
Wire == [run : RunTimes, datagrams : 0 .. MaxDatagrams, losses : Nat,
         duplicates : Nat, fetches : Nat, prompt : BOOLEAN]

ASSUME WiresAssumption == Wires \subseteq Wire /\ RfcClient \in BOOLEAN

VARIABLES
    wanted,    \* the fetch the ATA is in: [file, port, got], as a set
    holds,     \* the fetches the ATA completed
    used,      \* ports the ATA has used
    toServer,  \* datagrams under way to the server
    toClient,  \* packets under way to the ATA
    lost, duplicated,
    wire       \* the network of this run

clientVars == <<wanted, holds, used>>
netVars == <<toServer, toClient, lost, duplicated, wire>>
tftpVars == <<serverVars, clientVars, netVars>>

TftpInit ==
    /\ wire \in Wires
    /\ ServerInit /\ deadline = wire.run
    /\ wanted = {} /\ holds = {} /\ used = {}
    /\ toServer = {} /\ toClient = {}
    /\ lost = 0 /\ duplicated = 0

Rrq(f, p) == [kind |-> "rrq", peer |-> <<"client", p>>, file |-> f, number |-> 0]
Ack(f, p, n) == [kind |-> "ack", peer |-> <<"client", p>>, file |-> f, number |-> n]

(* The ATA starts a fetch, giving up the one it was in.                    *)
Fetch ==
    /\ Cardinality(used) < wire.fetches
    /\ wire.prompt => wanted = {}
    /\ \E f \in File : \E p \in Port \ used :
         /\ wanted' = {[file |-> f, port |-> p, got |-> 0]}
         /\ used' = used \cup {p}
         /\ toServer' = toServer \cup {Rrq(f, p)}
    /\ UNCHANGED <<serverVars, holds, toClient, lost, duplicated, wire>>

(* One delivery; a repeated datagram stays in the network.                 *)
Delivered(net, m) ==
    \/ net' = net \ {m} /\ UNCHANGED duplicated
    \/ duplicated < wire.duplicates /\ duplicated' = duplicated + 1 /\ UNCHANGED net

Ends(pkt) == IF RfcClient THEN pkt.size # "full" ELSE pkt.size = "empty"

(* A DATA block for the current fetch: the next one, or one it has.        *)
HearData(pkt) ==
    /\ pkt \in toClient /\ pkt.kind = "data"
    /\ \E w \in wanted :
         /\ pkt.peer = <<"client", w.port>>
         /\ pkt.number <= w.got + 1
         /\ toServer' = toServer \cup {Ack(w.file, w.port, pkt.number)}
         /\ IF pkt.number = w.got + 1
            THEN IF Ends(pkt) THEN wanted' = {} /\ holds' = holds \cup {[w EXCEPT !.got = @ + 1]}
                              ELSE wanted' = {[w EXCEPT !.got = @ + 1]} /\ UNCHANGED holds
            ELSE UNCHANGED <<wanted, holds>>
    /\ Delivered(toClient, pkt)
    /\ UNCHANGED <<serverVars, used, lost, wire>>

(* The closing block again, after the fetch is over: the ATA repeats its   *)
(* ACK.  A client that stopped at a short block has closed its port.       *)
HearAgain(pkt) ==
    /\ pkt \in toClient /\ pkt.kind = "data" /\ ~RfcClient
    /\ \E h \in holds : /\ pkt.peer = <<"client", h.port>>
                        /\ toServer' = toServer \cup {Ack(h.file, h.port, pkt.number)}
    /\ Delivered(toClient, pkt)
    /\ UNCHANGED <<serverVars, clientVars, lost, wire>>

Concerns(pkt) ==
    /\ pkt.kind = "data"
    /\ \/ \E w \in wanted : pkt.peer = <<"client", w.port>> /\ pkt.number <= w.got + 1
       \/ ~RfcClient /\ \E h \in holds : pkt.peer = <<"client", h.port>>

Overlook(pkt) ==
    /\ pkt \in toClient /\ ~Concerns(pkt)
    /\ toClient' = toClient \ {pkt}
    /\ UNCHANGED <<serverVars, clientVars, toServer, lost, duplicated, wire>>

(* A lost request is a fetch that never began, and is not counted here.    *)
Lose ==
    /\ lost < wire.losses
    /\ lost' = lost + 1
    /\ \/ \E m \in toServer : m.kind # "rrq" /\ toServer' = toServer \ {m} /\ UNCHANGED toClient
       \/ \E m \in toClient : toClient' = toClient \ {m} /\ UNCHANGED toServer
    /\ UNCHANGED <<serverVars, clientVars, duplicated, wire>>

ServerReceives ==
    /\ received < wire.datagrams
    /\ \E d \in toServer : Handle(d) /\ Delivered(toServer, d)
    /\ toClient' = toClient \cup output'
    /\ UNCHANGED <<clientVars, lost, wire>>

ServerLoops ==
    /\ LoopStep
    /\ toClient' = toClient \cup output'
    /\ UNCHANGED <<clientVars, toServer, lost, duplicated, wire>>

PassTime ==
    /\ Tick
    /\ wire.prompt => /\ toServer = {} /\ toClient = {}
                 /\ used # {}
    /\ UNCHANGED <<clientVars, netVars>>

Hears == \E pkt \in toClient : HearData(pkt) \/ HearAgain(pkt) \/ Overlook(pkt)

TftpNext == Fetch \/ Hears \/ Lose \/ ServerReceives \/ ServerLoops \/ PassTime

(* What is in flight arrives, the loop runs, time passes, and the ATA asks *)
(* at least once.                                                          *)
TftpSpec ==
    /\ TftpInit /\ [][TftpNext]_tftpVars
    /\ WF_tftpVars(Hears) /\ WF_tftpVars(ServerReceives)
    /\ WF_tftpVars(ServerLoops) /\ SF_tftpVars(PassTime)
    /\ WF_tftpVars(Fetch /\ used = {})

-----------------------------------------------------------------------------
(* A file the ATA holds is whole and nothing of another file is in it,     *)
(* although it may have abandoned earlier fetches whose blocks and ACKs    *)
(* are still in the network.                                               *)
HeldFilesAreWhole ==
    /\ \A h \in holds : h.got \in Len(Blocks(h.file)) .. Len(Blocks(h.file)) + 1
    /\ \A pkt \in toClient : \A w \in wanted :
         pkt.kind = "data" /\ pkt.peer = <<"client", w.port>> => pkt.file = w.file

(* The server reports a transfer complete only when the ATA holds that     *)
(* file on that port: no stale, repeated or foreign ACK ends one early.    *)
CompleteMeansHeld ==
    [][status' = "complete" /\ transfer # {} /\ transfer' = {} =>
         \A t \in transfer : \E h \in holds :
            h.file = t.file /\ t.peer = <<"client", h.port>>]_tftpVars

(* On a prompt network that loses no more datagrams than there are         *)
(* retransmissions, and where nobody disturbs the transfer, the ATA gets   *)
(* its file and the server says so, unless a sendto that raises ends run().*)
FetchSucceeds ==
    wire.prompt ~> \/ pc = "raised"
                   \/ holds # {} /\ status = "complete" /\ errors = 0

(* The docstring of the module promises "RFC1350 octet mode".  A client    *)
(* that ends at the short block, as RFC 1350 has it, holds the file while  *)
(* the server waits for the ACK of one more, empty block and reports a     *)
(* timeout, on a network that loses nothing.                               *)
RfcClientIsNoError == status = "timeout" => holds = {}
=============================================================================
