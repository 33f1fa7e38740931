---------------------------- MODULE MediaSessions ----------------------------
(***************************************************************************)
(* The media sessions of telephony/iax2_fixture.py (MiniMediaSession) and  *)
(* telephony/rtp_external_media.py (PcmuMediaSession): one session sends   *)
(* to another over a path that loses, repeats and reorders.  A session     *)
(* takes nothing but the next packet and fails at the first other one.     *)
(*                                                                         *)
(* Widths are small: a packet advances the 20 ms and 160 sample clocks by  *)
(* one, IaxLast stands for 0x7FFF / 20 (no frame after it without a full   *)
(* frame), SequenceWidth for 2^16 and ClockWidth for the 2^27 packets      *)
(* after which the 32-bit RTP timestamp repeats.                           *)
(***************************************************************************)
EXTENDS Naturals, Sequences, FiniteSets

CONSTANTS
    IaxFirst,       \* initial_timestamp, in packets
    IaxLast,        \* the last mini-frame timestamp before a full frame
    SequenceWidth,  \* sequence numbers are modulo this
    ClockWidth,     \* timestamps are modulo this
    MaxMedia,       \* bound: packets sent on one stream; below ClockWidth
    MaxOnPath       \* bound: packets on the path at once

(* No stream is so long that its clock repeats; the first timestamp may be *)
(* any, even one past IaxLast.                                             *)
ASSUME MediaAssumption ==
    /\ {IaxFirst, IaxLast, ClockWidth, MaxMedia, MaxOnPath} \subseteq Nat
    /\ SequenceWidth \in Nat \ {0}
    /\ MaxMedia < ClockWidth

Protocol == {"iax2", "rtp"}
Resync == <<>>   \* the next timestamp is None

(* Initial counters: an IAX2 stamp is a timestamp, an RTP stamp a sequence *)
(* number, here about to wrap, and a timestamp.                            *)
FirstStamp(k) == IF k = "iax2" THEN <<IaxFirst>> ELSE <<SequenceWidth - 1, 0>>

VARIABLES
    mdKind,      \* the protocol of the stream
    mdOut,       \* stamp of the next outbound packet
    mdIn,        \* stamp the receiver expects
    mdFailed,    \* the ends whose _failed is set
    mdNet,       \* packets on the way: who sent it, position, stamp
    mdSent,      \* packets sent since the reset
    mdAccepted   \* positions of the packets accepted, in order

mdVars == <<mdKind, mdOut, mdIn, mdFailed, mdNet, mdSent, mdAccepted>>

MediaInit == /\ mdKind \in Protocol
             /\ mdOut = FirstStamp(mdKind) /\ mdIn = FirstStamp(mdKind)
             /\ mdFailed = {}
             /\ mdNet = {}
             /\ mdSent = 0 /\ mdAccepted = <<>>

(* MiniMediaSession._next_timestamp, and the masks of PcmuMediaSession.    *)
NextIax(s) == IF s[1] + 1 <= IaxLast THEN <<s[1] + 1>> ELSE Resync
NextRtp(s) == <<(s[1] + 1) % SequenceWidth, (s[2] + 1) % ClockWidth>>
NextStamp(s) == IF mdKind = "iax2" THEN NextIax(s) ELSE NextRtp(s)

(* _fail: an IAX2 session forgets its counters, an RTP session keeps them. *)
Forgets(s) == IF mdKind = "iax2" THEN Resync ELSE s
SenderFails == mdFailed' = mdFailed \cup {"sender"} /\ mdOut' = Forgets(mdOut)
ReceiverFails == mdFailed' = mdFailed \cup {"receiver"} /\ mdIn' = Forgets(mdIn)

Transmit(packet) == Cardinality(mdNet) < MaxOnPath /\ mdNet' = mdNet \cup {packet}

CanBuild(wellFormed) == mdOut # Resync /\ wellFormed

(* build_outbound, with a payload of the right size or of another one.     *)
BuildOutbound(wellFormed) ==
    /\ "sender" \notin mdFailed /\ mdSent < MaxMedia
    /\ IF CanBuild(wellFormed)
         THEN /\ mdSent' = mdSent + 1
              /\ Transmit([from |-> "sender", position |-> mdSent + 1, stamp |-> mdOut])
              /\ mdOut' = NextStamp(mdOut)
              /\ UNCHANGED mdFailed
         ELSE SenderFails /\ UNCHANGED <<mdNet, mdSent>>
    /\ UNCHANGED <<mdKind, mdIn, mdAccepted>>

(* A packet of another call number or SSRC, stamped as the next one, or    *)
(* one that is no packet of the protocol.                                  *)
Intrude == /\ mdIn # Resync
           /\ \E who \in {"other", "malformed"} :
                 Transmit([from |-> who, position |-> 0, stamp |-> mdIn])
           /\ UNCHANGED <<mdKind, mdOut, mdIn, mdFailed, mdSent, mdAccepted>>

Decoded(m) == m.from # "malformed"

(* A receiver that only looks at the first counter of the stamp.           *)
MediaExpected_BySequence(m) == Decoded(m) /\ m.from # "other" /\ mdIn # Resync /\ m.stamp[1] = mdIn[1]

MediaExpected(m) == Decoded(m) /\ m.from # "other" /\ mdIn # Resync /\ m.stamp = mdIn

(* receive: the packet may also stay on the path, to arrive again.         *)
ReceiveMedia(m, again) ==
    /\ m \in mdNet /\ "receiver" \notin mdFailed
    /\ mdNet' = IF again THEN mdNet ELSE mdNet \ {m}
    /\ IF MediaExpected(m)
         THEN /\ mdIn' = NextStamp(mdIn)
              /\ mdAccepted' = Append(mdAccepted, m.position)
              /\ UNCHANGED mdFailed
         ELSE ReceiverFails /\ UNCHANGED mdAccepted
    /\ UNCHANGED <<mdKind, mdOut, mdSent>>

LoseMedia(m) == /\ m \in mdNet
                /\ mdNet' = mdNet \ {m}
                /\ UNCHANGED <<mdKind, mdOut, mdIn, mdFailed, mdSent, mdAccepted>>

(* reset of both ends, for a new stream on a clear path.                   *)
ResetMedia == /\ mdOut' = FirstStamp(mdKind) /\ mdIn' = FirstStamp(mdKind)
              /\ mdFailed' = {} /\ mdNet' = {}
              /\ mdSent' = 0 /\ mdAccepted' = <<>>
              /\ UNCHANGED mdKind

MediaNext == \/ \E wellFormed \in BOOLEAN : BuildOutbound(wellFormed)
             \/ Intrude
             \/ \E m \in mdNet : LoseMedia(m) \/ \E again \in BOOLEAN : ReceiveMedia(m, again)
             \/ ResetMedia

MediaSpec == MediaInit /\ [][MediaNext]_mdVars

MediaTypeOK == /\ mdKind \in Protocol
               /\ mdFailed \subseteq {"sender", "receiver"}
               /\ mdSent \in 0 .. MaxMedia

(* What a session accepts is what was sent, from the first packet on, with *)
(* no gap, repetition or swap, even across the wrap of the RTP sequence    *)
(* number; and no IAX2 stream goes past the timestamp that needs a full    *)
(* frame, but for one packet of a stream that starts beyond it.            *)
MediaInOrder ==
    /\ \A i \in 1 .. Len(mdAccepted) : mdAccepted[i] = i
    /\ mdKind = "iax2" =>
          Len(mdAccepted) <= IF IaxFirst <= IaxLast THEN IaxLast - IaxFirst + 1 ELSE 1
===============================================================================
