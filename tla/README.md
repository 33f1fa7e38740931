# ATA-tools: TLA+ models, checks and proofs

ATA-tools is a set of programs that bring a Cisco ATA 186 telephone adapter under
local control. They give it an address, serve it a firmware image over the vendor's
UDP protocol, serve its profile over TFTP, take firmware and profiles apart and put
them together again, and exercise the adapter's SIP, Skinny, IAX2 and audio services
on a bench. This directory holds TLA+ modules translated from those programs, the
TLC configurations that check them on small instances, and TLAPS proofs that hold
for every instance.

Run a check with `tlc -config <run>.cfg <module>` (section 3 names the module of each
run) and a proof with `tlapm <module>.tla` (section 6 names the modules with proofs). `PROJECT.json` lists every run,
mutant, hazard and theorem, and the source lines each definition stands for.

## 1. The system

| component | source | state it keeps | operations | interacts with |
|---|---|---|---|---|
| flash run | `ata_flash.py` | the step it has reached, the two bound sockets, the network state seen first | preflight, bind, DHCP, revalidate, drain, serve, verdict | calls the DHCP responder and the firmware service; the sockets queue datagrams from the moment they are bound |
| network preflight | `ata_flash.py` 160-395 | the `InterfaceState` of the start | interface state, route conflicts, client address, client route, revalidation | the host's route table, which changes meanwhile |
| DHCP responder | `dhcp.py` | client MAC, offered transactions, `acknowledged`, `interface_changed`, `reply_failed` | one callback per captured frame, the stop filter, the verdict | the capture calls `respond`; the host's address is read through a callback |
| firmware service | `firmware/sata186us.py` `serve_firmware` | selection, received set, counters, quiet deadline | select loop, command and data handlers | the ATA by UDP, a stop event, the network check |
| loopback qualification | `firmware/sata186us.py`, `firmware/ata_upgrade_client.py` | a service thread, a client, a stop event | selection, hello, blocks, stop, join, comparison | runs the service against its own client |
| image and upgrade database | `firmware/sata186us.py` | none | check, parse, split, which | used by the service and the flash run |
| profile TFTP server | `telephony/tftp_profile.py` | the one transfer: peer, file, next, pending acknowledgement, retries, time of sending | requests, acknowledgements, retransmission, expiry, deadline | the ATA by UDP |
| reset control | `firmware/ata_reboot.py` | saved baseline, compiled profiles, the server's thread, what it serves | baseline, prepare, lease, swap, verify | the TFTP server, the ATA's boot and web page |
| SIP bench proxy | `telephony/sip_bench_proxy.py` | one call: peer, start, last frame, acknowledged | REGISTER, INVITE, CANCEL, ACK, BYE, the tone, the limits of call and run | the ATA by SIP and RTP |
| SIP loopback probe | `telephony/sip_loopback_probe.py` | one registration and one call, two deadlines | REGISTER, INVITE, ACK, DTMF, BYE, the audio counted | Asterisk by SIP and RTP |
| Skinny fixture | `telephony/skinny_fixture.py` | buffer, registration, failure | feed, answer a frame, finish, reset | a Skinny phone by TCP |
| AudioSocket agent | `telephony/audiosocket_agent.py` | one connection, counters | accept, tone, drain, listen, terminate | Asterisk by TCP |
| IAX2 and RTP fixtures | `telephony/iax2_fixture.py`, `telephony/rtp_external_media.py` | sequence numbers and timestamps, failure | build, receive, reset | Asterisk by UDP |
| OpenWrt feed cache | `telephony/openwrt_feed_cache.py` | indexes and packages on disk | fetch, resolve, verify, reuse | HTTP feeds that publish meanwhile |
| ZUP containers | `firmware/zup_*.py` | files on disk | extract, edit, compose, rebuild, publish | other runs in the same directory |
| configuration formats | `firmware/cfgfmt.py` | files on disk | parse with includes, encode, split, publish, read back | other runs in the same directory |
| web phone | `webrtc/site/app.js` | one agent, one session, one incoming invitation, a timer | call, echo, accept, reject, hang up | callbacks of SIP.js |
| bounded command | `tests/qemu/bounded_command.py` | one process group, four flags | spawn, read, deadline, signals, stop, reap | the kernel |
| firmware analysis, atlases, Ghidra, Asterisk configuration, audio generation | `firmware/`, `telephony/` | none | batch tools | none |

What is hard here lies between programs and what surrounds them: datagrams queued
before the program wants them; addresses and routes that change between a check and
a send; lost, repeated and reordered packets; timeouts that race late answers; sends
that fail half way; runs that are killed between two steps on disk; callbacks of two
calls that share one variable. `PROJECT.json` lists each hazard at its line with the
properties that watch it; a hazard without a property says why.

## 2. Modules

| module | models | composes |
|---|---|---|
| `DhcpResponder` | `run_dhcp` | |
| `DhcpExchange` | the responder with clients and a network | `DhcpResponder` |
| `FirmwareService` | `serve_firmware` | |
| `FirmwareTransfer` | the service with an ATA and a lossy wire | `FirmwareService` |
| `Qualification` | `run_loopback_qualification` and its client | `FirmwareService` |
| `NetworkPreflight` | the checks of the host's network | |
| `FlashRun` | `run_flash` | instances of `DhcpResponder` and `FirmwareService` |
| `TftpServer` | `TftpServer` of `tftp_profile.py` | |
| `TftpTransfer` | the server with the ATA's client and a network | `TftpServer` |
| `SipBenchProxy` | `SipBenchProxy` of `sip_bench_proxy.py` | |
| `SipCall` | the proxy with a telephone and a wire | `SipBenchProxy` |
| `SipProbe` | the loopback probe and the engine it calls | |
| `SkinnyFixture` | `FrameDecoder`, `FixtureSession`, `FixtureEndpoint` | |
| `AudioSocketAgent` | the agent and the engine it serves | |
| `MediaSessions` | `MiniMediaSession` and `PcmuMediaSession`, two ends and a path | |
| `WebPhone` | `app.js` | |
| `FeedCache` | `openwrt_feed_cache.py`, its feeds and repeated runs | |
| `PrivateOutput` | what publishing a private output promises (abstract) | |
| `Publication` | `publish_private` and `_publish_private_outputs` | refines `PrivateOutput` |
| `ProfileConversion` | the conversion of `cfgfmt.py` | |
| `BankEdit` | extraction, edit, composition and rebuild of a package | |
| `BoundedCommand` | `bounded_command.py` and the group it starts | |
| `ResetRun` | `cmd_run` of `ata_reboot.py` and the adapter | |
| `MCTftpTransfer`, `MCTelephonyBench`, `MCFirmwareBench` | values of the constants; the two benches also choose a program | see below |
| `DhcpProofs`, `TftpProofs`, `FirmwareProofs` | proofs about the server and about its composition with its peers and a network | |
| `FlashRunProofs`, `SipBenchProxyProofs`, `NetworkPreflightProofs` | proofs about the module so named, and `SipCall` | |
| `TelephonyProofs` | proofs about the programs of `MCTelephonyBench`, one by one and together | |
| `ToolProofs` | proofs about `Publication`, `BoundedCommand`, `BankEdit`, `Qualification`, `ProfileConversion` and about `MCFirmwareBench` as a whole | |

Programs that share no state with each other are checked side by side: each behaviour
of `MCTelephonyBench` is one of the TFTP server, the Skinny fixture, the AudioSocket
agent, the media sessions, the web phone, the loopback probe and the feed cache; each
of `MCFirmwareBench` one of the firmware transfer, the qualification, the preflight,
the publication, the bounded command, the profile conversion and the bank edit. The
variable `program` is chosen at the start, the others stand still, so that the
states are the sum and not the product of the seven.

### DhcpResponder
`respond` runs once per captured frame. Its checks are `Accepts` (what
`parse_request` lets through, the client lock, the transaction bookkeeping); it
then reads the host address (`Admit`, or `AddressGone` when it is not there any
more) and sends the answer in a second step (`SendReply`, `SendFails`), so that the
host may change in between (`AddressFlips`). After each frame the stop filter
decides (`AfterFrame`). The capture ends by its filter, by its timeout or by an
error, and `Conclude` turns the flags into a result. A frame is a record with the
fields the code compares; option layout is abstracted. The responder never forgets
an offered transaction of its client, but a newer DISCOVER replaces it.

### DhcpExchange
Clients are external code: they discover, select an offer, ask again after a
reboot, follow another server and give up. `requests` and `replies` are sets that
only grow, so any frame is delayed, reordered or repeated at will; a client
recognises a reply by its transaction.

### FirmwareService
The program counter follows the loop: `bound` (the sockets are bound, the function is
not yet called), `top` (the deadline, stop and quiet tests), `wait` (in `select`), `each`
(one readable socket at a time), `send`, and the ends `returned` and `raised`. A queue per
socket holds what the network delivered. `Discard`, `Reject`, `CommandInvalid`,
`CommandAnswer`, `DataInvalid` and `DataAnswer` are the paths of one received
datagram; `SendCommand`, `SendData` and `SendFails` are the answer. The
receipt of a datagram with a bad checksum is a readiness report with nothing behind
it: the kernel drops it in `recvfrom`, which then raises. A block request
carries an index up to `NumBlocks`, one past the end; the hello is a kind of its own, with
no index. Time is a counter the environment
advances; `Duration` and `Grace` are the two intervals.

### FirmwareTransfer
Adds an ATA (external) that asks for the selection, the hello and each block in
turn, repeats a request after `Retry`, and stops at the last block, over a wire
that loses up to `RequestLosses` requests and `ReplyLosses` replies.

### Qualification
The service of `FirmwareService` runs as a thread without a grace period, the client
in the main thread. The client asks once and in order and repeats nothing; each wait
has its limit. The service may be slow, hang or fail at any point, and another
process may send strays and broken datagrams to its ports. The main thread then sets
the stop event, joins for a bounded time and compares the counters. The loopback
interface loses nothing, and the main thread is fast: time passes while it waits.

### NetworkPreflight
A network is the set of its addresses, so overlap is intersection and the longest
prefix is the smallest set; `Effective` are the routes the kernel would choose. One
`Inspect` is the preflight of a run, `Revalidate` is `revalidate_network`, and
`HostChanges` replaces the routes or addresses in between. A route table is any set of
up to `MaxRoutes` records, in any order the command prints them.

### FlashRun
`stage` is the position in `run_flash`. The responder and the service are
instances that share the variables of the run; each runs only in its stage, the
sockets fill from `BindPorts` on, the address may change and an interrupt may
arrive at any time. The drain reads one datagram per step up to `DrainLimit`. What
the preflight looks at is one outcome here and a module of its own above.

### TftpServer, TftpTransfer
One action per return of `_handle_rrq` and `_handle_ack`, `Retransmit`/`Expire` for
the overdue branch of `run`, which then falls into `select` in the same step, and
`SelectTimeout`. A file is a number of full blocks and possibly a tail
(`Blocks`). `sendto` may raise in `_send_next_block`, which ends `run` (`raised`);
`_reject` swallows the same error. `TftpTransfer` adds the ATA's client, which
fetches with a fresh port, and a network: `wire` is drawn from `Wires` once and bounds
what it loses, repeats and delivers, and says whether time passes while something is
in flight.

### SipBenchProxy, SipCall
`pc` is the position in `run`: its top (`Stop`, `EndOverdue`, `StreamFrame`, `Pass`),
the `select` (`wait`) and the `recvfrom` on the SIP socket (`recv`), which has a
timeout of its own. One action per path of the handlers; the call is a set of at
most one record, and a tick is the frame of 20 ms. Whatever `sendto` or
`parse_sdp_target` raises ends `run` (`raised`), with the packets before it gone. A
received RTP packet only wakes the loop; a flood that keeps `_rtp_receive` from ever
draining its socket is left out. `SipCall` adds the telephone (external: it dials,
acknowledges every final answer, cancels, hangs up and gives up) and two queues:
on a "quiet" wire they deliver in order, on a "noisy" one up to `Noise` datagrams are
lost, repeated or come from somebody else. Only final answers to INVITE are queued for
the telephone, because it reacts to no others.

### SipProbe
`prPc` is the wait `run` is in. A response names the request it answers and its code,
but the probe looks only at the code, as the source does; ACK and BYE carry the To
header of whatever response it took. Requests and responses may be lost or repeated
up to `MaxFaults` times. The engine (external) answers each request once, rings,
accepts or refuses, and reads the digit or does not.

### SkinnyFixture
A frame is two pieces on the wire, its first eight bytes and its rest. One
`EndpointReceive` is a feed with any mix of a buffered frame's rest, whole frames and
a new head; the frames of one feed are handled in turn, and the first bad one fails
decoder and session together. `MaxFrames` and `MaxPieces` are the limits of the code.

### AudioSocketAgent
A session reads the UUID, sends the tone frame by frame and drains what has arrived
after each, then listens for a while and terminates. The engine (external) may send
anything, stop inside a message, say TERMINATE or close at any moment; a receive
without data raises, which ends the agent.

### MediaSessions
A stream goes from one session to another over a path that loses, repeats, reorders
and carries packets of a stranger. The two protocols differ in their stamps: a
timestamp that may not pass `IaxLast` without a full frame, or a sequence number and a
timestamp that both wrap.

### WebPhone
One action is one turn of the event loop. A call has the state SIP.js reports for it,
and the page has `session` and `incoming`, the buttons it leaves enabled and the ring
timer. The `await`s of the source are points where other events run: the start of the
agent, the sending of an invitation and the settling of an accept.

### FeedCache
Runs follow each other in one cache directory; each fetches the indexes, resolves the
closure of what was asked for and keeps or fetches each package. The feeds publish new
versions meanwhile, a mirror may serve a wrong file, and a run may be killed at any
step, with half a file written. An apply run and a dry run take the same path up to
the fetch.

### PrivateOutput, Publication
`Publication` has both functions: the single file of `zup_bank.py` and the set of
`cfgfmt.py`, whose outputs are linked one after the other and withdrawn when a later
one fails. Every step on disk is an action; any of them may fail, the run may be
killed after any, other runs do the same to the same names, and a power loss keeps of
each name only what was synced. The clean-up may fail as well. An unlink of `UndoOutput`
that the file system refuses is swallowed and leaves the name; `TidyFails` is an unlink of
a temporary file that is refused, which `zup_bank.py` ignores and `cfgfmt.py` raises, even
after all outputs are in place. `hindered` collects the runs that are left with names of
a failed run for one of these two reasons. Temporary files that stay behind are not kept
track of, only that a run has made some (`HasStaged`).

`PrivateOutput` is what all this should amount to: a name goes from free to one complete
file in one step and is never replaced, success means that every output is there, and a
failure of `cfgfmt.py` that none is, unless an unlink was refused to it. So the report of
`cfgfmt.py` is not to be relied on when the file system refuses to unlink: it may say that
a run failed whose files are all there. The refinement reads the abstract slots from the
directory entries, and the verdict from where each run has stopped.

### ProfileConversion
The text profile is a function from files to lines. Parsing walks a stack of open
files with the limits on depth, size and number of tags; the records are then
filtered, encoded and split over two files by size, once as the old form and once as
the encrypted one, and read back. A value is a small number that three classes of
formats treat as the codecs do; the size of a record is one unit and so is its slop.
RC4 is the key that opens a file. What a profile says is defined without the parser
(`Said`): a line is reached by a way, the include in each file that leads to the next;
the lines count in the order of their ways, the last of each tag, and of the pseudo tags
those that came first (`Meaning`). A way is a sequence of at most `DepthLimit` + 1
places, so no recursion is needed and the definition can be proved about.

### BankEdit
A bank is ten cells, each a launch header, a record, part of a payload, the section
header or a word. A payload is a stream of some cells (`StoredSize`) that expands to some
more (`OutputSize`); one of type 8 in mode 1 has a destination in the bank and must expand
within the bank behind it, and the payloads of a kind together to no more than a bank
(`Expands`, `WithinBudget`). The extraction writes the payloads of type 8 and then the
nested ones in the order of the bank, up to the first that does not parse or is past the
budget, then the bank and the manifest, and may be stopped between any two. A person edits records and payload files; the
composition writes the tables in the order of their offsets, applies the payloads in
any order (a person may reorder the manifest) and recomputes the checksum. It compares the
size of a new stream with the span of the old one and does not parse what it wrote, nor add
up what the payloads expand to. Tables may
share cells with each other and with payloads, and the section may cover anything. The
rebuild deflates the regions, moves the map, refuses a package over `PackageLimit` and
reads its own result back. Where a stream begins is counted from the sizes before it
(`Before`). A stream is its size, a digest is what it is taken of. Left out: the name in
the outer header, which `zup_rebuild.py` refuses when it is not printable (lines 50-53),
the optional disassembly between bank and manifest, and what a power loss leaves of an
extraction, whose directory is not synced.

### BoundedCommand
`bcStep` is the position in `run_bounded`. The group is the command and one more
process; either may end, close the pipe or ignore SIGTERM. A signal that arrives while
the mask is up waits for it to be lifted. Processes that leave the group are not
modelled, nor is the reuse of process numbers.

### ResetRun
`cmd_run` from the baseline to the verification, with the server as a thread that has
a socket or not, and an adapter that fetches, resets and may be power cycled by hand.

## 3. Runs

| run | module | question | states |
|---|---|---|---|
| `DhcpExchange` | `DhcpExchange` | two clients and the responder, with and without an expected MAC, over a reordering, repeating network | 768 thousand |
| `FirmwareService` | `FirmwareService` | every datagram, queue, clock, send failure and stop | 1.06 million |
| `FlashRun` | `FlashRun` | the whole run, and that it ends (liveness) | 705 thousand |
| `FirmwareBench` | `MCFirmwareBench` | the seven programs around firmware and profiles, three with liveness, one with a refinement | 132 thousand |
| `TelephonyBench` | `MCTelephonyBench` | the seven programs of the telephony bench, one with liveness | 143 thousand |
| `TftpTransfer` | `MCTftpTransfer` | the ATA's client over a network that reorders and repeats, and over one that loses (liveness) | 919 thousand |
| `SipCall` | `SipCall` | a telephone that calls, cancels and hangs up, on a quiet and a noisy wire, that a call in progress is left alone, and that every attempt to call ends (liveness) | 741 thousand |
| `FlashFailure`, `BankCompose`, `TftpRfcClient`, `SipExtension`, `ResetRun` | `FlashRun`, `MCFirmwareBench`, `MCTftpTransfer`, `SipCall`, `ResetRun` | disagreements between code and documentation (section 5) | stop at the counterexample |

Bounds, and why they are enough:

- Two MACs and two transaction ids: every test of the responder compares two of
  each (the locked and another, the offered and another).
- `NumBlocks` 2 or 3: a first, a last and one in between; the tests are "in range"
  and "all received". `QueueLimit` 2 holds one datagram while another is read.
  `MaxDatagrams` bounds arrivals; four reach selection, hello, both blocks, or a
  complete service with a rejected datagram. `Horizon` stops the clock after the
  deadline, where time is no longer read.
- Qualification: the client's wait, the join and the session end at ticks of their
  own, so that each limit is met before and after the others; one foreign datagram
  is enough for each counter to disagree.
- Preflight: eight addresses hold a subnet, its halves, single hosts and an
  outside; three routes let two compete while a third shadows one; one change of the
  host falls between any two inspections.
- `DrainLimit` 1 with two queued datagrams has the drain at, below and above its
  limit.
- TFTP: one full block with and without a tail gives every ending of a file; two
  client ports give an old and a new transfer; `MaxNumber` is one past the last
  block. `Retransmits` 2 distinguishes the first, a middle and the last retry. In the
  bench, the run time is longer than `Timeout` times the attempts, so that expiry
  happens before the deadline as well as after it.
- SIP: two Call-IDs give an old and a new call; `CallTime` 2 lets an acknowledged call
  send a frame of tone and one of silence before it is overdue, and `RunTime` 4 leaves
  time for another call after the limit has ended one. `QueueLimit` 2 lets a CANCEL or
  BYE follow a request that is under way. One fault is enough for a late answer of each
  of the probe's requests to meet the wait for the next.
- Media: `SequenceWidth` 2 wraps within three packets of five. `MaxMedia` stays below
  `ClockWidth`, because a packet delayed by a whole turn of the 32-bit timestamp (746
  hours of audio) cannot be told from the next one.
- Web phone: two calls and three invitations, so that one may ring while another is
  answered and a third arrives after both.
- Feed cache: three packages, two that depend on each other, one without a digest and
  one the base image has; two feeds that may list the same package; two runs and one
  release, so that the second run meets what the first left and newer indexes.
- Publication: three runs of both tools for two names, so that a set of two meets a
  run for its first name and one for its second.
- Conversion: five tags, small and pseudo, of each kind of value one and two names of
  one tag; two levels of include, and profiles that include themselves; the limits of
  depth, size and pseudo tags are reached and passed.
- Bank: ten cells, two headers and up to three payloads, one nested in another's
  stream; two edits, so that an earlier one may be lost to a later; a limit of ten units,
  which some rebuilt packages pass and others do not. The payloads expand to 2, 3, 4, 6 and
  11 cells: within and beyond what is behind a destination at 5, beyond a bank, and two
  together beyond the budget.
- Bounded command: two signals, one that waits behind the mask and one during the stop.

`CHECK_DEADLOCK FALSE` stands where the program really stops: the service returns
or raises, a run exits, the TFTP server's or the SIP proxy's run time is over.

Fairness. The programs are single-threaded loops: the loop step is weakly fair
because the interpreter keeps running, the clock is weakly fair because time
passes. Nothing is assumed of a network or a peer except in `TransferSpec` and
`TftpSpec`, whose runs ask what happens when the peer keeps trying and losses are
bounded; their conjuncts name the peer's steps. `select` has a timeout, so the loop
step stays enabled with empty queues. In `SipCall` the
reading of a datagram under way is strongly fair: received RTP may wake the loop
as often as it likes, `select` reports both sockets. That matters on the quiet wire
only, where `AttemptEnds` is asked; the telephone has to read its answers, and nothing
else is asked of it. `AgentFairness` and `BoundedFairness` are the steps of the agent
and of `run_bounded`, the receive and wait timeouts included; the engine and the
command owe nothing, so `HangupEndsSession` and `ToolEnds` hold whatever they
do. The first relies on one bound, though: the loop of `_drain_inbound` has no limit in the
code, and ends in the model because an engine sends at most `MaxMessages`. `QualifyFairness` has the main thread and the clock only: the service thread may
hang.

## 4. Properties

- DHCP: `SingleClient`, `AckFollowsOffer`, `LeaseIffAcknowledged`; with clients `AtMostOneBound` (no two clients
  bound to the one address) and `AckAnswersOwnRequest`.
- Firmware: `CompleteMeansEveryBlock`, `RequestsAccountedFor`,
  `DataOnlyWhileAdvertised`, `EarlyReturnIsQuiet`; with an ATA `NoAtaLeftBehind` and
  `TransferSucceeds`; with its own client `QualificationIsTrue` (a qualification ends
  even when the service hangs, and says so only of a service that did everything).
- Network: `SubnetStaysOnLink` (an accepted network is isolated at every address,
  although only the client's is looked up).
- Flash run: `EarlyTriggerIsNeverServed`, `SuccessCertifiesDelivery`, `FlashEnds`.
- TFTP: `TransferCoherent`, `RunTimeKept`; with a client `HeldFilesAreWhole`,
  `CompleteMeansHeld`, `FetchSucceeds`.
- SIP: `TimeBounded`; with a telephone `CallsAgree` and `AttemptEnds`, which are asked on
  the quiet wire, and `CallKept` on any (a call in progress is neither replaced, nor
  started again, nor ended by anybody but its peer, its limit and the end of the run);
  `PassMeansConversation` (a late answer to one request never makes the probe pass).
- Sessions: `SkinnyAnswersAll`, `HangupEndsSession`, `MediaInOrder`, `NoGhostCall`.
- Files: `PublicationKeepsPromise` (the refinement), `DoneIsInstallable` (the cache is
  complete after DONE, whatever earlier runs left), `ReadsBackWhole` (the files of a
  profile say what the profile said), `ManifestMeansComplete`, `ComposedIsTheEdit`,
  `RebuildRefusesOnlyUnmapped`.
- Processes: `NothingOutlives`, `ToolEnds`.

`FirmwareTypeOK` and `TelephonyTypeOK` are the types of the two benches. The types of
the components that make up the first, and of the DHCP and TFTP servers, are theorems of
their own (section 6). Every property has a mutant of a mapped
definition that violates it.

## 5. Disagreements found

Five runs end in a counterexample because the code does not do what its own text
says: a failure to send is reported when a receive failed (`FlashFailure`); a payload that
compresses into its span but expands past its destination is composed, although "anything
that no longer fits fails closed", and the bank can no longer be extracted (`BankCompose`); a client that
ends a file as RFC 1350 says is counted as an error (`TftpRfcClient`); an INVITE to
any number is answered, not only to the fixed extension (`SipExtension`); a reset run
ends well although no profile was served, because nothing binds the socket of the
server it starts (`ResetRun`). The lines are in `PROJECT.json` under `findings`.

Smaller things met while modelling, which the models contain as the code has them:

- `SipProbe`: two audio packets after the digit count as proof that the engine read
  it (`sip_loopback_probe.py:46-48`); an engine that keeps talking meets that as well.
- `WebPhone`: the echo button stays enabled while an invitation rings, so a call
  placed then takes the session over; the catch of `acceptIncoming` clears a newer
  invitation; a second `startRingback` forgets the first timer.
- `FeedCache`: indexes and packages without a digest are stored unverified, against
  "every fetched object SHA256-verified"; a harness script that looks for the files
  alone accepts the cache of an interrupted run.
- `BankEdit`: two launch tables that share cells are both written back, so that an
  edit of the first is undone by the second; a table is written over a payload that
  was left unchanged, which then no longer reads back; a section that covers its own
  header is refused, because writing the checksum changes it. `ComposedIsTheEdit` excepts the
  tables that share cells and the payloads that are written over, and says of a payload that
  it reads back only if it expands within its destination.
- `Publication`: an unlink that fails in the clean-up makes `cfgfmt.py` report a failed run
  with outputs in place (section 2).
- `FirmwareService`: the complete-stream message is logged with the last block
  (`sata186us.py:701`), before the quiet period, and not "after the quiet grace period"
  (`firmware/FLASHING.md:119-120`).
- `DhcpResponder`: an address that goes between its check and the sending still yields a
  lease.
- `BoundedCommand`: a signal at the first line of the `finally` leaves `run_bounded`
  by its exception (`escaped`); the group is gone then, too.
- `ResetRun`: in learning mode the swap uses a name that was never assigned; a rerun
  finds the outputs of the first and fails at `prepare`, and saves whatever the
  adapter shows then as the new baseline.
- `Publication`: the branch for a link that does not verify cannot be reached while
  only these tools change the directory.

## 6. Proofs

`DhcpProofs` proves, for any sets of MACs and transaction ids, with or
without an expected MAC, the type invariant and three safety properties. The inductive
invariant adds to the properties what the flags and the reply being sent mean:
which replies were sent while the lock was held, and that a reply in hand belongs
to the locked client and an offered transaction.

The same module then carries that invariant over to `DhcpExchange`, for any set of
clients: the responder's steps keep it whatever frames the clients send, and a
client's step changes nothing of the responder. `AtMostOneBound` needs that a bound
client holds an ACK sent to its own MAC (`BoundInv`), which the lock then allows for
one client only. `AckAnswersOwnRequest` needs that what is answered was asked of this
server (`AnsweredInv`) and what a client has sent in its present transaction
(`OwnTransactionInv`).

`FirmwareProofs` proves, for any image size, deadline, grace period, queue
length and number of datagrams, the type invariant and four safety properties. The
inductive invariant `IInv` has one conjunct per concern: `ReplyInv` (the reply in
hand fits the selection), `ServedInv` (the received set is what was sent),
`SelectionInv` (the selection follows the last command), `QuietInv` (the quiet
deadline lies a grace period after the last block) and the balance of the counters
with the queues. Each has a lemma that every action preserves it. The balance
needs lemmas about adding one to a set of counters and about what a queue holds
after an arrival or a receipt.

It then proves `NoAtaLeftBehind` of `FirmwareTransfer`, for any image, retry interval and
bounds on losses, from the assumption that the quiet period outlasts a row of lost
requests (`GraceOutlastsRetries`). What is queued, answered and counted is what the ATA
has come to (`AskedInv`), so a complete set means an ATA at its last block or beyond; what
it has heard is counted (`HeardInv`). An ATA that still asks has had a data response no
longer ago than `Retry` for each lost request and once more, and its own timer makes
up the difference (`PaceInv`), so the quiet deadline has not passed.

`FlashRunProofs` proves `EarlyTriggerIsNeverServed` and `SuccessCertifiesDelivery` for any
image, drain limit and number of clients and datagrams. Of the two programs it composes
it carries only what the run relies on: an acknowledged responder sent an ACK to its
locked client (`AckedInv`), the service is untouched until its stage (`IdleInv`), and
what it counts was put on the wire (`ServedInv`). An early datagram waits in one of
the buffers until a drain has counted it (`EarlyInv`), so the run cannot reach the
service with one: a datagram that joins the first buffer while the second is drained is
served, but it came after the revalidation.

`NetworkPreflightProofs` proves `SubnetStaysOnLink` for any finite set of addresses, any
routes and any changes of the host. The route the kernel takes to an address of the
subnet is no shorter than the subnet's own, so it is not a default route; it is no
host route of the interface's own address; so it would be a conflict if it left
through another interface, and the selected interface has no gateway. Finiteness
gives that a longest route exists (`LeastNumber`, from the well-foundedness of the
naturals). The invariant only carries this from one inspection to the next.

`TftpProofs` proves, for any files, ports, timeouts and datagrams, the type
invariant, `TransferCoherent` and `RunTimeKept`. A transfer is changed only by what
sends a block or by its end, so the invariant says that a transfer which is `Ready` for
its next block becomes one that is `Waiting` for the acknowledgement, and each of
a new request, an expected acknowledgement and a retry makes it `Ready`. The clock
needs that the `select` under way ends by the deadline.

With the ATA and its network, for a client that ends at an empty block (`~RfcClient`, as
the ATA does), it proves `HeldFilesAreWhole` and `CompleteMeansHeld`. A port belongs to
one file wherever it appears, in a request, an acknowledgement, a transfer, a packet or a
fetch (`PortInv`); every data packet is empty exactly if it closes its file
(`NetworkInv`); so what a fetch takes in order is that file, and an empty block ends it
(`FetchInv`). An acknowledgement of the closing block, wherever it is, stands for a file
the ATA holds (`CloseInv`), and no other completes a transfer.

`SipBenchProxyProofs` proves `TimeBounded` for any durations, ports and Call-IDs: for the
proxy with an open environment, and for `SipCall`. The inductive invariant `ProxyInv`
bounds the timeout of the blocking call under way, `wake`, because the clock alone
says nothing about a wait that was entered in time; it names neither the packets nor
the wire, so the steps of telephone and wire keep it. `WireInv` types what is under
way, which the handlers need.

It proves `CallKept` for any wire from the same invariant: each handler and each step of
the loop leaves the one call as it was, but for its acknowledgement and its frames, or ends
it for one of the three reasons (`ReceivingKeeps`, `LoopingKeeps`).

`SipBenchProxyProofs` also proves `CallsAgree` of `SipCall`. On a quiet wire nothing is
lost and each queue keeps its order, so `AgreeInv` says, for each state of the
telephone and each of the proxy's call, what the two queues may still hold: which
requests are under way behind which, and which final answers to INVITE. A CANCEL or
BYE that crosses an answer is the case that needs it.

`TelephonyProofs` proves the safety of the telephony bench, one program at a time:

- `SkinnyAnswersAll`: what was answered and what is still buffered are, in order, the
  frames that were fed (`AnswerInv`), however they were cut.
- `MediaInOrder`: a stamp belongs to one packet within a turn of the clock (`StampOf`),
  and everything on the path or accepted bears the stamp of a packet that was sent
  (`PathInv`, `AudioInv`), for any width of clock and sequence numbers.
- `PassMeansConversation`: what the probe has recorded at each of its waits.
- `NoGhostCall`: which of the calls may still have a callback to come, and which of
  the page's variables can name it.
- `DoneIsInstallable`: what a run holds to be right is on disk and of the index it
  holds (`Right`, `IndexInv`), and what it resolved is closed under dependency
  (`ClosureInv`); the cache an earlier run left is only trusted as far as it is checked.
- `TelephonyTypeOK` with the types of the AudioSocket agent (`AgentInv`) and all of the
  above in one statement, `BenchIsSafe`.

`ToolProofs` proves, for any number of runs and names, that `Publication`
implements `PrivateOutput`: every step of a run or of the machine is a step of the
promise or a stutter, the failing unlinks of the clean-up included. The
invariant `PubInv` says, of each position of the function, that no name is given before
the whole set is staged (`StagingInv`) and that names are given in order and keep their
complete file (`LinkingInv`, `NamesInv`); that every name a run of `cfgfmt.py` holds is on
the list its clean-up works off, unless an unlink was refused (`ClaimInv`); and what a
power loss must leave (`FlushedInv` before the report, `DurableInv` after it).

It proves `NothingOutlives` for any number of signals. Its invariant
follows the flags of `run_bounded`: nothing is sent to the group without one of them
(`CauseInv`), a stop before the clean-up has its reason (`StopInv`), a return lies
behind `Popen` (`StartedInv`), and an end leaves no group (`EndInv`).

`ManifestMeansComplete` and `ComposedIsTheEdit` hold for any packages, edits and
contents. `EditInv` has that a manifest is of the bank it was extracted from and that
the files it lists are there (`ManifestInv`, `DirectoryInv`), and follows the
composition cell by cell: streams of a bank lie apart or are one, so a payload that is
replaced keeps within the span it had and disturbs no other, whatever the order
(`ComposeInv`, `PayloadsInv`). A payload keeps its destination, so that it reads back as
long as it expands within it, which the composition leaves to the person who edits.

`RefusalIsDue` proves `RebuildRefusesOnlyUnmapped` for any template, bank and sizes of
the new streams. Pieces laid end to end can be cut out again (`BeforeFacts`, `PieceOf`,
`JoinedFacts`, from the cardinalities of the places before each), so every region of the
new package holds its new stream (`RebuiltFacts`); the package therefore passes the
checks of `build_bank` (`RebuiltReads`), gives the bank it was made of (`RebuiltHolds`),
and is the template when nothing changed (`RebuiltSame`). `RebuildInv` adds that the
template of a composition reads as a bank and that what is rebuilt is a whole bank.

`VerdictHolds` is the safety half of `QualificationIsTrue`: the counters are bounded
below by what is on the wire, and the client has heard as many different responses as
the counters say (`QualifyInv`), so nobody else was answered.

`ProfileReadsBack` proves `ReadsBackWhole` for any profile, dictionary and limit, in two
parts. `FilesAreWhole` is the first (`FilesHoldParsed`): the parser holds one record of
each tag (`TagsInv`), the stack of includes keeps its limits (`StackInv`), and the files
written so far are each their share of what was parsed (`FilesInv`). The second is that
what was parsed is what the profile says (`ToldInv`, `ParsedIsMeant`). The stack of open
files is a cursor on the ways: in every file but the innermost its place is the include
just entered (`Cursor`, `OnWay`). What is said on the ways sooner than the cursor is what
the parser has been told (`Told`). Reading a line adds what is said there and nothing
else (`OneLineOn`, `AlongEnds`); entering a file, leaving it and passing over an include
that is too deep add nothing (`OneFileOn`, `AlongGoesOn`, `InsideFile`); when the last file
ends, all was told. `Tracks` relates the records to it: they are those that count, and
every pseudo tag is held as long as there is room. It is inductive because the parser
refuses a pseudo tag exactly when as many others were said before it (`RoomIsKnown`,
from the cardinality of the tags held) and a record replaces only its own tag
(`OneMoreCounts`, `ParsedStored`). TLC checked `ToldInv` in all states of `FirmwareBench`
before it was proved.

`ReadingEnds` says that the reader cannot go on for ever, whatever a profile's files
include, themselves too: every step of it decreases `Remaining`, twice the lines the
budget leaves and the files that are open. It is a step property and needs no fairness.

Last, `FirmwareBenchIsSafe` puts the programs of `MCFirmwareBench` together: its
`BenchInv` is the conjunction of their invariants. The transfer and the qualification
run the same service, which differs only in its quiet period, so what the service needs
is carried for both (`ServiceShared`) and the ATA's part for the transfer alone. It
states `FirmwareTypeOK` and the seven safety invariants of the bench.

Assumptions. All are named, and stated in the modules that declare the constants; TLC
evaluates each in a run. Most say that a bound is a natural number. Those that say
more: `GraceOutlastsRetries` (above); `MediaAssumption` (fewer packets than a turn of the
clock, which is 746 hours of audio); `BankAssumption` (a stream and what it expands to take
at least one cell, the fields of a header are numbers, and a template has the fields of the package format,
with a stored size only where a region is packed); `ConversionAssumption` (the entries of `ptag.dat` are
well formed and a profile has its main file); `FeedAssumption` (at least one feed, versions
that differ from the marks of a broken file); `OutputAssumption` (what a run writes);
`NoTimeAssumption` (the mark for "no time" is not a time).

What stays with TLC: liveness, which needs fairness and ENABLED (`TransferSucceeds`,
`FlashEnds`, `ToolEnds`, `HangupEndsSession`, `FetchSucceeds`, `AttemptEnds` and the
leads-to of `QualificationIsTrue`). Every safety invariant and action property a passing run checks is proved.

## 7. Not modelled, and the plan

- Image inspection (`UpgradeDB`, `check_image`, `prepare_image`), the metadata capture
  (one datagram, one report) and the parsing of what `netstat` prints: pure parsing;
  their outcomes are choices of the modules that use them.
- Disassembler, Ghidra scripts, atlas lookups, launch trace and name generation: batch
  tools over fixed data, without state, whose results are compared with stored reports.
- Asterisk configuration, host qualification and `ata_dev_post.py`: rendering and
  checking of text, and one HTTP request.
- Audio generation: sample arithmetic over 256-entry tables a unit test enumerates.
- RC4 and the value codecs of `cfgfmt.py` (lines 404-535): abstracted to a key and to
  three classes of formats.
- The sub-commands of `ata_reboot.py` that do one stage by hand; the guest driver and
  the snapshot comparison of the QEMU harness, which answer one console.

What would be worth adding: an abstract file transfer that `TftpTransfer` and
`FirmwareTransfer` both implement; and the probe composed with the bench proxy.
