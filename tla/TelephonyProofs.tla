---------------------------- MODULE TelephonyProofs ----------------------------
(***************************************************************************)
(* What the programs of the telephony bench guarantee, each on its own,    *)
(* for every value of its constants: however the bytes are cut, however    *)
(* the path loses and repeats, in whatever order the listeners of several  *)
(* calls run and wherever a run of the cache is killed.                    *)
(***************************************************************************)
EXTENDS MCTelephonyBench, TftpProofs, WellFoundedInduction

-----------------------------------------------------------------------------
(* The Skinny fixture.                                                     *)

(* The replies of a feed carry on where the connection's replies end.      *)
LEMMA AnswersOf ==
  ASSUME NEW w \in Seq(FrameKind)
  PROVE  /\ [i \in 1 .. Len(w) |-> Answer(w[i])] \in Seq({"register_ack", "keepalive_ack"})
         /\ Len([i \in 1 .. Len(w) |-> Answer(w[i])]) = Len(w)
<1>1. Len(w) \in Nat
  OBVIOUS
<1>2. \A i \in 1 .. Len(w) : Answer(w[i]) \in {"register_ack", "keepalive_ack"}
  BY DEF Answer
<1>3. [i \in 1 .. Len(w) |-> Answer(w[i])] \in [1 .. Len(w) -> {"register_ack", "keepalive_ack"}]
  BY <1>2
<1> QED  BY <1>1, <1>3

LEMMA AnswersCarryOn ==
  ASSUME NEW r \in Seq({"register_ack", "keepalive_ack"}),
         NEW a \in Seq({"register_ack", "keepalive_ack"})
  PROVE  /\ r \o a \in Seq({"register_ack", "keepalive_ack"})
         /\ Len(r \o a) = Len(r) + Len(a)
         /\ \A i \in 1 .. Len(r) : (r \o a)[i] = r[i]
         /\ \A i \in Len(r) + 1 .. Len(r) + Len(a) : (r \o a)[i] = a[i - Len(r)]
<1>1. Len(a) \in Nat /\ Len(r) \in Nat
  OBVIOUS
<1>2. \A i \in 1 .. Len(r) + Len(a) : (r \o a)[i] = IF i <= Len(r) THEN r[i] ELSE a[i - Len(r)]
  OBVIOUS
<1>3. \A i \in 1 .. Len(r) : (r \o a)[i] = r[i]
  BY <1>1, <1>2
<1>4. \A i \in Len(r) + 1 .. Len(r) + Len(a) : (r \o a)[i] = a[i - Len(r)]
  BY <1>1, <1>2
<1> QED  BY <1>1, <1>3, <1>4

(* The whole frames of a feed are a sequence of frames.                    *)
LEMMA WholeFrames ==
  ASSUME SkinnyTypeOK, NEW f \in Feeds, skHead = NoFrame => ~f.resumes
  PROVE  Whole(f) \in Seq(FrameKind)
<1>1. f.frames \in Seq(FrameKind)
  <2>1. PICK n \in 0 .. MaxFrames + 1 : f.frames \in [1 .. n -> FrameKind]
    BY DEF Feeds
  <2>2. n \in Nat
    BY SkinnyAssumption
  <2> QED  BY <2>1, <2>2
<1>2. CASE f.resumes
  <2>1. skHead \in FrameKind
    BY <1>2 DEF SkinnyTypeOK
  <2> QED  BY <1>1, <1>2, <2>1 DEF Whole
<1>3. CASE ~f.resumes
  BY <1>1, <1>3 DEF Whole
<1> QED  BY <1>2, <1>3 DEF Feeds

SkinnyInv == SkinnyTypeOK /\ SkinnyAnswersAll

LEMMA SkinnyStarts == SkinnyInit => SkinnyInv
<1> SUFFICES ASSUME SkinnyInit PROVE SkinnyInv
  OBVIOUS
<1>1. 0 \in 0 .. MaxFed /\ <<>> \in Seq({"register_ack", "keepalive_ack"}) /\ Len(<<>>) = 0
  BY SkinnyAssumption
<1>2. SkinnyTypeOK
  BY <1>1 DEF SkinnyInit, SkinnyTypeOK
<1>3. SkinnyAnswersAll
  BY <1>1 DEF SkinnyInit, SkinnyAnswersAll
<1> QED  BY <1>2, <1>3 DEF SkinnyInv

(* An error forgets the connection.                                        *)
LEMMA FailKeeps ==
  ASSUME SkinnyInv, EndpointFail, skFed' \in 0 .. MaxFed
  PROVE  SkinnyInv'
<1>1. skFailed' = TRUE /\ skRegistered' = FALSE /\ skHead' = NoFrame /\ skReplies' = skReplies
  BY DEF EndpointFail
<1>2. SkinnyTypeOK'
  BY <1>1 DEF SkinnyInv, SkinnyTypeOK
<1>3. SkinnyAnswersAll'
  BY <1>1 DEF SkinnyAnswersAll
<1> QED  BY <1>2, <1>3 DEF SkinnyInv

LEMMA ReceiveKeeps ==
  ASSUME SkinnyInv, NEW f \in Feeds, EndpointReceive(f)
  PROVE  SkinnyInv'
<1> DEFINE w == Whole(f)
           a == [i \in 1 .. Len(w) |-> Answer(w[i])]
<1>1. /\ w \in Seq(FrameKind) /\ Len(w) \in Nat
      /\ skFed' = skFed + Len(w) /\ skFed' \in 0 .. MaxFed
  <2>1. w \in Seq(FrameKind)
    BY WholeFrames DEF EndpointReceive, SkinnyInv
  <2>2. skFed' = skFed + Len(w) /\ skFed + Len(w) <= MaxFed
    BY DEF EndpointReceive
  <2> QED  BY <2>1, <2>2, SkinnyAssumption DEF SkinnyInv, SkinnyTypeOK
<1>2. CASE ~(Decodes(f) /\ Accepts(w))
  BY <1>1, <1>2, FailKeeps DEF EndpointReceive
<1>3. CASE Decodes(f) /\ Accepts(w)
  <2>1. /\ skRegistered' = (skRegistered \/ w # <<>>)
        /\ skHead' \in {f.head, skHead}
        /\ skReplies' = skReplies \o a
        /\ skFailed' = skFailed /\ ~skFailed
    BY <1>3 DEF EndpointReceive
  <2>2. \A i \in 1 .. Len(w) : w[i] = IF ~skRegistered /\ i = 1 THEN "register" ELSE "keepalive"
    BY <1>3 DEF Accepts
  <2>3. /\ skReplies \in Seq({"register_ack", "keepalive_ack"}) /\ Len(skReplies) = skFed
        /\ skFed \in Nat /\ skRegistered \in BOOLEAN /\ (skRegistered <=> skFed > 0)
        /\ \A i \in 1 .. skFed : skReplies[i] = "register_ack" <=> i = 1
    BY <2>1, SkinnyAssumption DEF SkinnyInv, SkinnyTypeOK, SkinnyAnswersAll
  <2>9. /\ a \in Seq({"register_ack", "keepalive_ack"}) /\ Len(a) = Len(w)
        /\ \A i \in 1 .. Len(w) : a[i] = Answer(w[i])
    BY <1>1, AnswersOf
  <2> HIDE DEF w, a
  <2>4. /\ skReplies' \in Seq({"register_ack", "keepalive_ack"})
        /\ Len(skReplies') = skFed + Len(w)
        /\ \A i \in 1 .. skFed : skReplies'[i] = skReplies[i]
        /\ \A i \in skFed + 1 .. skFed + Len(w) : skReplies'[i] = Answer(w[i - skFed])
    <3>1. PICK r : r = skReplies
      OBVIOUS
    <3>2. r \in Seq({"register_ack", "keepalive_ack"}) /\ Len(r) = skFed
      BY <2>3, <3>1
    <3>3. /\ r \o a \in Seq({"register_ack", "keepalive_ack"})
          /\ Len(r \o a) = Len(r) + Len(a)
          /\ \A i \in 1 .. Len(r) : (r \o a)[i] = r[i]
          /\ \A i \in Len(r) + 1 .. Len(r) + Len(a) : (r \o a)[i] = a[i - Len(r)]
      BY <2>9, <3>2, AnswersCarryOn
    <3>4. \A i \in skFed + 1 .. skFed + Len(w) : i - skFed \in 1 .. Len(w)
      BY <1>1, <2>3
    <3>5. \A i \in skFed + 1 .. skFed + Len(w) : (r \o a)[i] = Answer(w[i - skFed])
      BY <2>9, <3>2, <3>3, <3>4
    <3>6. skReplies' = r \o a
      BY <2>1, <3>1
    <3> QED  BY <2>9, <3>1, <3>2, <3>3, <3>5, <3>6
  <2>5. ASSUME NEW i \in 1 .. skFed + Len(w)
        PROVE  skReplies'[i] = "register_ack" <=> i = 1
    <3>1. CASE i <= skFed
      <4>1. i \in 1 .. skFed
        BY <2>3, <3>1
      <4> QED  BY <2>3, <2>4, <4>1
    <3>2. CASE i > skFed
      <4>1. i - skFed \in 1 .. Len(w) /\ skReplies'[i] = Answer(w[i - skFed])
        BY <1>1, <2>3, <2>4, <3>2
      <4>2. w[i - skFed] = IF skFed = 0 /\ i = 1 THEN "register" ELSE "keepalive"
        BY <1>1, <2>2, <2>3, <3>2, <4>1
      <4> QED  BY <2>3, <3>2, <4>1, <4>2 DEF Answer
    <3> QED  BY <1>1, <2>3, <3>1, <3>2
  <2>6. skRegistered' <=> skFed' > 0
    <3>1. w = <<>> <=> Len(w) = 0
      BY <1>1
    <3>2. skRegistered' <=> skRegistered \/ w # <<>>
      BY <2>1
    <3>3. skRegistered' <=> skFed > 0 \/ Len(w) # 0
      BY <2>3, <3>1, <3>2
    <3> QED  BY <1>1, <2>3, <3>3
  <2>7. SkinnyAnswersAll'
    BY <1>1, <2>1, <2>4, <2>5, <2>6 DEF SkinnyAnswersAll
  <2>8. SkinnyTypeOK'
    BY <1>1, <2>1, <2>4, <2>6 DEF SkinnyInv, SkinnyTypeOK, Feeds
  <2> QED  BY <2>7, <2>8 DEF SkinnyInv
<1> QED  BY <1>2, <1>3

LEMMA SkinnyKept == SkinnyInv /\ [SkinnyNext]_skVars => SkinnyInv'
<1> SUFFICES ASSUME SkinnyInv, [SkinnyNext]_skVars PROVE SkinnyInv'
  OBVIOUS
<1>1. ASSUME UNCHANGED skVars PROVE SkinnyInv'
  BY <1>1 DEF SkinnyInv, skVars, SkinnyTypeOK, SkinnyAnswersAll
<1>2. ASSUME UNCHANGED skFed,
             EndpointFail \/ UNCHANGED <<skFailed, skRegistered, skHead, skReplies>>
      PROVE  SkinnyInv'
  <2>1. skFed' \in 0 .. MaxFed
    BY <1>2 DEF SkinnyInv, SkinnyTypeOK
  <2> QED  BY <1>1, <1>2, <2>1, FailKeeps DEF skVars
<1>3. ASSUME EndpointReset PROVE SkinnyInv'
  <2>1. 0 \in 0 .. MaxFed /\ <<>> \in Seq({"register_ack", "keepalive_ack"}) /\ Len(<<>>) = 0
    BY SkinnyAssumption
  <2>2. SkinnyTypeOK'
    BY <1>3, <2>1 DEF EndpointReset, SkinnyTypeOK
  <2>3. SkinnyAnswersAll'
    BY <1>3, <2>1 DEF EndpointReset, SkinnyAnswersAll
  <2> QED  BY <2>2, <2>3 DEF SkinnyInv
<1>4. ASSUME NEW valid \in BOOLEAN, EndpointRinger(valid) PROVE SkinnyInv'
  BY <1>2, <1>4 DEF EndpointRinger
<1>5. ASSUME EndpointFinish PROVE SkinnyInv'
  BY <1>2, <1>5 DEF EndpointFinish
<1> QED  BY <1>1, <1>3, <1>4, <1>5, ReceiveKeeps DEF SkinnyNext

(* FixtureEndpoint answers every whole frame in order, however the stream  *)
(* is cut, and an endpoint that failed keeps nothing of the connection.    *)
THEOREM SkinnyIsAnswered == SkinnySpec => []SkinnyAnswersAll
  BY SkinnyStarts, SkinnyKept, PTL DEF SkinnySpec, SkinnyInv

-----------------------------------------------------------------------------
(* The media sessions.  A stamp tells how many packets went before: it is  *)
(* the IAX2 timestamp, or the RTP timestamp beside a sequence number that  *)
(* wraps too early to tell.                                                *)
StampOf(kind, n, s) ==
    IF kind = "iax2" THEN s = <<IaxFirst + n>> /\ (n = 0 \/ IaxFirst + n <= IaxLast)
                     ELSE \E q \in Nat : s = <<q, n>>

PathInv == \A m \in mdNet :
    /\ m.from \in {"sender", "other", "malformed"}
    /\ m.from = "sender" => m.position \in 1 .. mdSent /\ StampOf(mdKind, m.position - 1, m.stamp)

(* The stamps of both ends, and what was accepted so far.                  *)
MediaInv == /\ MediaTypeOK /\ mdAccepted \in Seq(Nat) /\ Len(mdAccepted) <= mdSent
            /\ mdOut # Resync => StampOf(mdKind, mdSent, mdOut)
            /\ mdIn # Resync => StampOf(mdKind, Len(mdAccepted), mdIn)
            /\ \A i \in 1 .. Len(mdAccepted) : mdAccepted[i] = i
            /\ mdKind = "iax2" /\ Len(mdAccepted) > 1 => IaxFirst + Len(mdAccepted) - 1 <= IaxLast
            /\ PathInv

(* Two packets of one stream never have the same stamp.                    *)
LEMMA StampTells ==
  ASSUME NEW n \in Nat, NEW k \in Nat, NEW s, StampOf(mdKind, n, s), StampOf(mdKind, k, s), mdKind \in Protocol
  PROVE  n = k
<1>1. CASE mdKind = "iax2"
  <2>1. <<IaxFirst + n>> = <<IaxFirst + k>>
    BY <1>1 DEF StampOf
  <2>2. IaxFirst + n = IaxFirst + k
    BY <2>1
  <2> QED  BY <2>2, MediaAssumption
<1>2. CASE mdKind # "iax2"
  <2>1. PICK q \in Nat : s = <<q, n>>
    BY <1>2 DEF StampOf
  <2>2. PICK p \in Nat : s = <<p, k>>
    BY <1>2 DEF StampOf
  <2> QED  BY <2>1, <2>2
<1> QED  BY <1>1, <1>2

(* The counters advance by one packet until a full frame is needed.        *)
LEMMA StampAdvances ==
  ASSUME NEW n \in 0 .. MaxMedia - 1, NEW s, StampOf(mdKind, n, s), mdKind \in Protocol,
         NextStamp(s) # Resync
  PROVE  StampOf(mdKind, n + 1, NextStamp(s))
<1>1. CASE mdKind = "iax2"
  <2>1. s[1] = IaxFirst + n
    BY <1>1 DEF StampOf
  <2>2. NextStamp(s) = <<s[1] + 1>> /\ s[1] + 1 <= IaxLast
    BY <1>1 DEF NextStamp, NextIax
  <2> QED  BY <1>1, <2>1, <2>2, MediaAssumption DEF StampOf
<1>2. CASE mdKind # "iax2"
  <2>1. PICK q \in Nat : s = <<q, n>>
    BY <1>2 DEF StampOf
  <2>2. NextStamp(s) = <<(q + 1) % SequenceWidth, (n + 1) % ClockWidth>>
    BY <1>2, <2>1 DEF NextStamp, NextRtp
  <2>3. (q + 1) % SequenceWidth \in Nat
    BY MediaAssumption
  <2>4. (n + 1) % ClockWidth = n + 1
    BY MediaAssumption
  <2> QED  BY <1>2, <2>2, <2>3, <2>4 DEF StampOf
<1> QED  BY <1>1, <1>2

LEMMA FirstIsStamped ==
  ASSUME mdKind \in Protocol
  PROVE  FirstStamp(mdKind) # Resync /\ StampOf(mdKind, 0, FirstStamp(mdKind))
  BY MediaAssumption DEF FirstStamp, StampOf, Resync, Protocol

LEMMA MediaStarts == MediaInit => MediaInv
<1> SUFFICES ASSUME MediaInit PROVE MediaInv
  OBVIOUS
<1>1. mdAccepted \in Seq(Nat) /\ Len(mdAccepted) = 0 /\ mdSent = 0 /\ 0 \in 0 .. MaxMedia
  BY MediaAssumption DEF MediaInit
<1>2. StampOf(mdKind, 0, mdOut) /\ StampOf(mdKind, 0, mdIn)
  BY FirstIsStamped DEF MediaInit
<1> QED  BY <1>1, <1>2 DEF MediaInit, MediaInv, MediaTypeOK, PathInv

LEMMA BuildKeeps ==
  ASSUME MediaInv, NEW wellFormed \in BOOLEAN, BuildOutbound(wellFormed)
  PROVE  MediaInv'
<1> USE DEF MediaInv, MediaTypeOK
<1>1. /\ mdKind' = mdKind /\ mdIn' = mdIn /\ mdAccepted' = mdAccepted /\ mdSent < MaxMedia
  BY DEF BuildOutbound
<1>2. CASE CanBuild(wellFormed)
  <2> DEFINE p == [from |-> "sender", position |-> mdSent + 1, stamp |-> mdOut]
  <2>1. /\ mdSent' = mdSent + 1 /\ mdNet' = mdNet \cup {p}
        /\ mdOut' = NextStamp(mdOut) /\ mdFailed' = mdFailed /\ mdOut # Resync
    BY <1>2 DEF BuildOutbound, Transmit, CanBuild
  <2>2. mdSent \in 0 .. MaxMedia - 1 /\ mdSent' \in 0 .. MaxMedia /\ StampOf(mdKind, mdSent, mdOut)
    BY <1>1, <2>1, MediaAssumption
  <2>3. mdOut' # Resync => StampOf(mdKind', mdSent', mdOut')
    BY <1>1, <2>1, <2>2, StampAdvances
  <2>4. ASSUME NEW m \in mdNet'
        PROVE  /\ m.from \in {"sender", "other", "malformed"}
               /\ m.from = "sender" => /\ m.position \in 1 .. mdSent'
                                       /\ StampOf(mdKind', m.position - 1, m.stamp)
    <3>1. CASE m = p
      <4>1. m.from = "sender" /\ m.position = mdSent + 1 /\ m.stamp = mdOut
        BY <3>1
      <4>2. m.position - 1 = mdSent /\ m.position \in 1 .. mdSent'
        BY <2>1, <2>2, <4>1
      <4>3. StampOf(mdKind', mdSent, mdOut)
        BY <1>1, <2>2
      <4> QED  BY <1>1, <2>2, <4>1, <4>2
    <3>2. CASE m \in mdNet
      <4>1. m.position \in 1 .. mdSent => m.position \in 1 .. mdSent'
        BY <2>1, <2>2
      <4> QED  BY <1>1, <3>2, <4>1 DEF PathInv
    <3> QED  BY <2>1, <3>1, <3>2
  <2>5. PathInv'
    BY <2>4 DEF PathInv
  <2>6. Len(mdAccepted') <= mdSent'
    BY <1>1, <2>1, <2>2
  <2>7. MediaTypeOK'
    BY <1>1, <2>1, <2>2
  <2>8. mdIn' # Resync => StampOf(mdKind', Len(mdAccepted'), mdIn')
    BY <1>1
  <2> QED  BY <1>1, <2>3, <2>5, <2>6, <2>7, <2>8
<1>3. CASE ~CanBuild(wellFormed)
  <2>1. /\ mdFailed' = mdFailed \cup {"sender"} /\ mdOut' \in {Resync, mdOut}
        /\ UNCHANGED <<mdNet, mdSent>>
    BY <1>3 DEF BuildOutbound, SenderFails, Forgets
  <2> QED  BY <1>1, <2>1 DEF PathInv
<1> QED  BY <1>2, <1>3

LEMMA IntrudeKeeps ==
  ASSUME MediaInv, Intrude
  PROVE  MediaInv'
<1> USE DEF MediaInv, MediaTypeOK
<1>1. UNCHANGED <<mdKind, mdOut, mdIn, mdFailed, mdSent, mdAccepted>>
  BY DEF Intrude
<1>3. PICK who \in {"other", "malformed"} :
        mdNet' = mdNet \cup {[from |-> who, position |-> 0, stamp |-> mdIn]}
  BY DEF Intrude, Transmit
<1>4. PathInv'
  BY <1>1, <1>3 DEF PathInv
<1> QED  BY <1>1, <1>4

(* The one packet that is taken is the next one that was sent.             *)
LEMMA NextIsTaken ==
  ASSUME MediaInv, NEW m \in mdNet, MediaExpected(m)
  PROVE  m.position = Len(mdAccepted) + 1 /\ Len(mdAccepted) < mdSent
<1> USE DEF MediaInv, MediaTypeOK
<1>1. m.from = "sender" /\ m.stamp = mdIn /\ mdIn # Resync
  BY DEF MediaExpected, Decoded, PathInv
<1>2. /\ StampOf(mdKind, Len(mdAccepted), mdIn) /\ StampOf(mdKind, m.position - 1, mdIn)
      /\ m.position \in 1 .. mdSent /\ mdSent \in Nat /\ Len(mdAccepted) \in Nat
  BY <1>1 DEF PathInv
<1>3. m.position - 1 = Len(mdAccepted)
  BY <1>2, StampTells
<1> QED  BY <1>2, <1>3

LEMMA MediaReceiveKeeps ==
  ASSUME MediaInv, NEW m \in mdNet, NEW again \in BOOLEAN, ReceiveMedia(m, again)
  PROVE  MediaInv'
<1> USE DEF MediaInv, MediaTypeOK
<1>1. /\ UNCHANGED <<mdKind, mdOut, mdSent>> /\ mdNet' \subseteq mdNet
  BY DEF ReceiveMedia
<1>2. PathInv' /\ (mdOut' # Resync => StampOf(mdKind', mdSent', mdOut'))
  BY <1>1 DEF PathInv
<1>3. CASE MediaExpected(m)
  <2> DEFINE k == Len(mdAccepted)
  <2>1. /\ mdIn' = NextStamp(mdIn) /\ mdAccepted' = Append(mdAccepted, m.position)
        /\ mdFailed' = mdFailed /\ mdIn # Resync
    BY <1>3 DEF ReceiveMedia, MediaExpected
  <2>2. m.position = k + 1 /\ k < mdSent /\ k \in Nat /\ mdSent \in 0 .. MaxMedia
    BY <1>3, NextIsTaken
  <2>3. /\ mdAccepted' \in Seq(Nat) /\ Len(mdAccepted') = k + 1
        /\ mdAccepted'[k + 1] = k + 1
        /\ \A i \in 1 .. k : mdAccepted'[i] = mdAccepted[i]
    BY <2>1, <2>2
  <2>4. \A i \in 1 .. Len(mdAccepted') : mdAccepted'[i] = i
    BY <2>2, <2>3
  <2>5. StampOf(mdKind, k, mdIn) /\ k \in 0 .. MaxMedia - 1
    BY <2>1, <2>2, MediaAssumption
  <2>6. mdIn' # Resync => StampOf(mdKind', k + 1, mdIn')
    BY <1>1, <2>1, <2>5, StampAdvances
  <2>7. mdKind' = "iax2" /\ Len(mdAccepted') > 1 => IaxFirst + Len(mdAccepted') - 1 <= IaxLast
    BY <1>1, <2>2, <2>3, <2>5, MediaAssumption DEF StampOf
  <2>8. Len(mdAccepted') <= mdSent'
    BY <1>1, <2>2, <2>3
  <2>9. MediaTypeOK'
    BY <1>1, <2>1
  <2> QED  BY <1>1, <1>2, <2>3, <2>4, <2>6, <2>7, <2>8, <2>9
<1>4. CASE ~MediaExpected(m)
  <2>1. /\ mdFailed' = mdFailed \cup {"receiver"} /\ mdIn' \in {Resync, mdIn}
        /\ mdAccepted' = mdAccepted
    BY <1>4 DEF ReceiveMedia, ReceiverFails, Forgets
  <2> QED  BY <1>1, <1>2, <2>1
<1> QED  BY <1>3, <1>4

LEMMA ResetMediaKeeps ==
  ASSUME MediaInv, ResetMedia
  PROVE  MediaInv'
<1>1. mdKind' = mdKind /\ mdKind \in Protocol
  BY DEF ResetMedia, MediaInv, MediaTypeOK
<1>2. /\ mdAccepted' \in Seq(Nat) /\ Len(mdAccepted') = 0 /\ mdSent' = 0 /\ 0 \in 0 .. MaxMedia
      /\ mdFailed' = {} /\ mdNet' = {}
  BY MediaAssumption DEF ResetMedia
<1>3. StampOf(mdKind', 0, mdOut') /\ StampOf(mdKind', 0, mdIn')
  BY <1>1, FirstIsStamped DEF ResetMedia
<1> QED  BY <1>1, <1>2, <1>3 DEF MediaInv, MediaTypeOK, PathInv

LEMMA MediaKept == MediaInv /\ [MediaNext]_mdVars => MediaInv'
<1> SUFFICES ASSUME MediaInv, [MediaNext]_mdVars PROVE MediaInv'
  OBVIOUS
<1>1. ASSUME UNCHANGED <<mdKind, mdOut, mdIn, mdFailed, mdSent, mdAccepted>>,
             mdNet' \subseteq mdNet
      PROVE  MediaInv'
  <2>1. PathInv'
    BY <1>1 DEF PathInv, MediaInv
  <2> QED  BY <1>1, <2>1 DEF MediaInv, MediaTypeOK
<1>2. ASSUME NEW m \in mdNet, LoseMedia(m) PROVE MediaInv'
  BY <1>1, <1>2 DEF LoseMedia
<1>3. ASSUME UNCHANGED mdVars PROVE MediaInv'
  BY <1>1, <1>3 DEF mdVars
<1> QED
  BY <1>2, <1>3, BuildKeeps, IntrudeKeeps, MediaReceiveKeeps, ResetMediaKeeps DEF MediaNext

LEMMA MediaMeans == MediaInv => MediaInOrder
  BY MediaAssumption DEF MediaInv, MediaTypeOK, MediaInOrder

(* MiniMediaSession and PcmuMediaSession accept the packets of the stream  *)
(* in order and without a gap, whatever the path loses, repeats or swaps.  *)
THEOREM MediaIsOrdered == MediaSpec => []MediaInOrder
  BY MediaMeans, MediaStarts, MediaKept, PTL DEF MediaSpec

-----------------------------------------------------------------------------
(* The loopback probe.                                                     *)
Answered == [to |-> "INVITE", code |-> "200"]

(* The port of the engine is known from its answer, which the probe took   *)
(* once and for all; the answer comes of a call that was up.               *)
AnswerInv == /\ prTarget => /\ prTo = Answered
                            /\ prPc \notin {"start", "registering", "inviting"}
             /\ prDigit => prTarget
             /\ prTo = Answered \/ Answered \in enResponses => enCall \in {"up", "over"}

(* Audio is counted as it arrives, and the verdict looks at what came      *)
(* after the digit.                                                        *)
AudioInv == /\ prRx <= enAudio
            /\ prPc = "pass" => prDigit /\ prRx - prPreRx >= FreshAudio

ProbeInv == ProbeTypeOK /\ AnswerInv /\ AudioInv

LEMMA ProbeStarts == ProbeInit => ProbeInv
<1> SUFFICES ASSUME ProbeInit PROVE ProbeInv
  OBVIOUS
<1>1. NoResponse \in Response /\ NoResponse # Answered
  BY DEF NoResponse, Response, Answered
<1>2. /\ 0 \in 0 .. RunTicks + CallTicks /\ 0 \in 0 .. RunTicks + DigitTick
      /\ 0 \in 0 .. MaxAudio /\ 0 \in 0 .. MaxFaults
  BY ProbeAssumption
<1>3. ProbeTypeOK
  BY <1>1, <1>2 DEF ProbeInit, ProbeTypeOK
<1>4. AnswerInv /\ AudioInv
  BY <1>1 DEF ProbeInit, AnswerInv, AudioInv
<1> QED  BY <1>3, <1>4 DEF ProbeInv

(* What the engine and the path do while the probe does nothing.           *)
LEMMA EngineKeeps ==
  ASSUME ProbeInv, UNCHANGED prVars,
         enRequests' \subseteq Request, enResponses' \subseteq Response,
         enCall' \in {"none", "ringing", "up", "over"}, enDigit' \in BOOLEAN,
         enAudio' \in enAudio .. MaxAudio, enFaults' \in 0 .. MaxFaults,
         enCall \in {"up", "over"} => enCall' \in {"up", "over"},
         Answered \in enResponses' => Answered \in enResponses \/ enCall' \in {"up", "over"}
  PROVE  ProbeInv'
<1>1. /\ UNCHANGED <<prPc, prNow, prMediaEnd, prDigitAt, prTo>>
      /\ UNCHANGED <<prTarget, prRx, prPreRx, prDigit>>
  BY DEF prVars
<1>2. enAudio' \in 0 .. MaxAudio /\ enAudio <= enAudio'
  BY ProbeAssumption DEF ProbeInv, ProbeTypeOK
<1>3. ProbeTypeOK'
  BY <1>1, <1>2 DEF ProbeInv, ProbeTypeOK
<1>4. AnswerInv'
  BY <1>1 DEF ProbeInv, AnswerInv
<1>5. AudioInv'
  BY <1>1, <1>2, ProbeAssumption DEF ProbeInv, ProbeTypeOK, AudioInv
<1> QED  BY <1>3, <1>4, <1>5 DEF ProbeInv

LEMMA EngineStepKeeps ==
  ASSUME ProbeInv,
         \/ EngineRegisters \/ EngineRings \/ EngineDecides \/ EngineHearsAck \/ EngineHearsBye
         \/ EngineSpeaks \/ EngineReadsDigit \/ LoseDatagram \/ DropOdd \/ DropInDialog
  PROVE  ProbeInv'
<1> USE DEF ProbeInv, ProbeTypeOK
<1>1. enAudio \in enAudio .. MaxAudio
  BY ProbeAssumption
<1>2. ASSUME NEW q \in {"REGISTER", "INVITE", "BYE"}, NEW codes \in SUBSET {"100", "200", "486", "odd"},
             Respond(q, codes), q = "INVITE" => "200" \notin codes
      PROVE  /\ enRequests' \subseteq Request /\ enResponses' \subseteq Response
             /\ Answered \in enResponses' => Answered \in enResponses
  BY <1>2 DEF Respond, Response, Answered
<1>3. CASE EngineRegisters
  <2>1. PICK code \in {"200", "486", "odd"} : Respond("REGISTER", {code})
    BY <1>3 DEF EngineRegisters
  <2> QED  BY <1>1, <1>2, <1>3, <2>1, EngineKeeps DEF EngineRegisters
<1>4. CASE EngineRings
  BY <1>1, <1>2, <1>4, EngineKeeps DEF EngineRings
<1>5. CASE EngineDecides
  <2>1. PICK code \in {"200", "486"} : /\ enResponses' = enResponses \cup {[to |-> "INVITE", code |-> code]}
                                       /\ enCall' = IF code = "200" THEN "up" ELSE "over"
    BY <1>5 DEF EngineDecides
  <2>2. enResponses' \subseteq Response
    BY <2>1 DEF Response
  <2>3. enCall' \in {"up", "over"}
    BY <2>1
  <2> QED  BY <1>1, <1>5, <2>2, <2>3, EngineKeeps DEF EngineDecides
<1>6. CASE EngineHearsAck
  BY <1>1, <1>6, EngineKeeps DEF EngineHearsAck
<1>7. CASE EngineHearsBye
  BY <1>1, <1>2, <1>7, EngineKeeps DEF EngineHearsBye
<1>8. CASE EngineSpeaks
  <2>1. enAudio' \in enAudio .. MaxAudio
    BY <1>8, ProbeAssumption DEF EngineSpeaks
  <2> QED  BY <1>8, <2>1, EngineKeeps DEF EngineSpeaks
<1>9. CASE EngineReadsDigit
  BY <1>1, <1>9, EngineKeeps DEF EngineReadsDigit
<1>10. CASE LoseDatagram
  <2>1. enFaults' \in 0 .. MaxFaults
    BY <1>10, ProbeAssumption DEF LoseDatagram
  <2>2. enRequests' \subseteq enRequests /\ enResponses' \subseteq enResponses
    BY <1>10 DEF LoseDatagram
  <2> QED  BY <1>1, <1>10, <2>1, <2>2, EngineKeeps DEF LoseDatagram
<1>11. CASE DropOdd
  BY <1>1, <1>11, EngineKeeps DEF DropOdd
<1>12. CASE DropInDialog
  BY <1>1, <1>12, EngineKeeps DEF DropInDialog
<1> QED
  BY <1>3, <1>4, <1>5, <1>6, <1>7, <1>8, <1>9, <1>10, <1>11, <1>12

(* A response is taken from those that arrived, and leaves the engine be.  *)
LEMMA TakesKeeps ==
  ASSUME ProbeInv, NEW r \in Response, Takes(r)
  PROVE  /\ r \in enResponses /\ enResponses' \subseteq enResponses
         /\ prNow' = prNow /\ prNow < RunTicks /\ enFaults' \in 0 .. MaxFaults
         /\ UNCHANGED <<enCall, enDigit, enAudio>>
<1>1. enFaults \in 0 .. MaxFaults
  BY DEF ProbeInv, ProbeTypeOK
<1>2. enFaults' = enFaults \/ (enFaults < MaxFaults /\ enFaults' = enFaults + 1)
  BY DEF Takes
<1>3. enFaults' \in 0 .. MaxFaults
  BY <1>1, <1>2, ProbeAssumption
<1> QED  BY <1>3 DEF Takes

LEMMA ResponseKeeps ==
  ASSUME ProbeInv, NEW r \in Response, Registered(r) \/ Invited(r) \/ Left(r)
  PROVE  ProbeInv'
<1> USE DEF ProbeInv, ProbeTypeOK
<1>1. /\ r \in enResponses /\ enResponses' \subseteq enResponses
      /\ prNow' = prNow /\ prNow < RunTicks /\ enFaults' \in 0 .. MaxFaults
      /\ UNCHANGED <<enCall, enDigit, enAudio, prRx, prPreRx, prDigit>>
  BY TakesKeeps DEF Registered, Invited, Left, prMedia
<1>2. enRequests' \subseteq Request
  BY DEF Registered, Invited, Left, Request
<1>3. CASE Registered(r)
  <2>1. /\ prPc' \in {"inviting", "fail-register"} /\ prPc = "registering"
        /\ UNCHANGED <<prMediaEnd, prDigitAt, prTo, prTarget>>
    BY <1>3 DEF Registered
  <2>2. ProbeTypeOK'
    BY <1>1, <1>2, <2>1 DEF Waiting, Failures
  <2>3. AnswerInv' /\ AudioInv'
    BY <1>1, <2>1 DEF AnswerInv, AudioInv
  <2> QED  BY <2>2, <2>3
<1>4. CASE Invited(r)
  <2>1. /\ prPc = "inviting" /\ prTo' = r
        /\ prPc' = CASE r.code = "100" -> "inviting"
                     [] r.code = "200" -> "media"
                     [] OTHER          -> "fail-invite"
        /\ prTarget' = (prTarget \/ NamesPort(r))
        /\ prMediaEnd' = prNow + CallTicks /\ prDigitAt' = prNow + DigitTick
    BY <1>4 DEF Invited
  <2>2. prPc' \in {"inviting", "media", "fail-invite"} /\ (r.code = "200" => prPc' = "media")
    BY <2>1
  <2>3. prMediaEnd' \in 0 .. RunTicks + CallTicks /\ prDigitAt' \in 0 .. RunTicks + DigitTick
    BY <1>1, <2>1, ProbeAssumption
  <2>4. ~prTarget /\ ~prDigit
    BY <2>1 DEF AnswerInv
  <2>5. prTarget' \in BOOLEAN /\ (prTarget' <=> NamesPort(r))
    BY <2>1, <2>4 DEF NamesPort
  <2>6. NamesPort(r) => r = Answered /\ prPc' = "media"
    BY <2>2 DEF NamesPort, Response, Answered
  <2>7. ProbeTypeOK'
    BY <1>1, <1>2, <2>1, <2>2, <2>3, <2>5 DEF Waiting, Failures
  <2>8. AnswerInv'
    BY <1>1, <2>1, <2>4, <2>5, <2>6 DEF AnswerInv
  <2>9. AudioInv'
    BY <1>1, <2>2 DEF AudioInv
  <2> QED  BY <2>7, <2>8, <2>9
<1>5. CASE Left(r)
  <2>1. /\ prPc' = Verdict /\ prPc = "leaving"
        /\ UNCHANGED <<prMediaEnd, prDigitAt, prTo, prTarget>>
    BY <1>5 DEF Left
  <2>2. /\ Verdict \in {"fail-rtp", "fail-ivr", "pass"}
        /\ Verdict = "pass" => prDigit /\ prRx - prPreRx >= FreshAudio
    BY ProbeAssumption DEF Verdict, Fresh
  <2>3. ProbeTypeOK'
    BY <1>1, <1>2, <2>1, <2>2 DEF Waiting, Failures
  <2>4. AnswerInv' /\ AudioInv'
    BY <1>1, <2>1, <2>2 DEF AnswerInv, AudioInv
  <2> QED  BY <2>3, <2>4
<1> QED  BY <1>3, <1>4, <1>5

(* The probe's steps that take no response.                                *)
LEMMA ProbeStepKeeps ==
  ASSUME ProbeInv, \/ StartProbe \/ ReceiveAudio \/ SendDigit \/ SendBye
                   \/ WaitTimesOut \/ ProbeTick
  PROVE  ProbeInv'
<1> USE DEF ProbeInv, ProbeTypeOK
<1>1. CASE StartProbe
  <2>1. /\ prPc = "start" /\ prPc' \in {"dry", "unbound", "registering"} /\ enRequests' \subseteq Request
        /\ UNCHANGED <<prNow, prMediaEnd, prDigitAt, prTo, prTarget, prRx, prPreRx, prDigit>>
        /\ UNCHANGED <<enResponses, enCall, enDigit, enAudio, enFaults>>
    BY <1>1 DEF StartProbe, prMedia, Request
  <2>2. ProbeTypeOK'
    BY <2>1 DEF Waiting
  <2> QED  BY <2>1, <2>2 DEF AnswerInv, AudioInv
<1>2. CASE ReceiveAudio
  <2>1. /\ prPc = "media" /\ prRx' = prRx + 1 /\ prRx < enAudio
        /\ UNCHANGED <<prPc, prNow, prMediaEnd, prDigitAt, prTo, prTarget, prPreRx, prDigit>>
        /\ UNCHANGED <<enRequests, enResponses, enCall, enDigit, enAudio, enFaults>>
    BY <1>2 DEF ReceiveAudio, enVars
  <2>2. prRx' \in 0 .. MaxAudio /\ prRx' <= enAudio'
    BY <2>1, ProbeAssumption
  <2>3. ProbeTypeOK'
    BY <2>1, <2>2
  <2> QED  BY <2>1, <2>2, <2>3 DEF AnswerInv, AudioInv
<1>3. CASE SendDigit
  <2>1. /\ prPc = "media" /\ prPc' \in {"media", "raised"} /\ prPreRx' = prRx
        /\ prDigit' \in BOOLEAN /\ (prDigit' => prTarget)
        /\ UNCHANGED <<prNow, prMediaEnd, prDigitAt, prTo, prTarget, prRx>>
        /\ UNCHANGED <<enRequests, enResponses, enCall, enDigit, enAudio, enFaults>>
    BY <1>3 DEF SendDigit, enVars, AnswerInv
  <2>2. ProbeTypeOK'
    BY <2>1
  <2> QED  BY <2>1, <2>2 DEF AnswerInv, AudioInv
<1>4. CASE SendBye
  <2>1. /\ prPc' = "leaving" /\ enRequests' \subseteq Request /\ prPc = "media"
        /\ UNCHANGED <<prNow, prMediaEnd, prDigitAt, prTo, prTarget, prRx, prPreRx, prDigit>>
        /\ UNCHANGED <<enResponses, enCall, enDigit, enAudio, enFaults>>
    BY <1>4 DEF SendBye, prMedia, Request
  <2>2. ProbeTypeOK'
    BY <2>1 DEF Waiting
  <2> QED  BY <2>1, <2>2 DEF AnswerInv, AudioInv
<1>5. CASE WaitTimesOut
  <2>1. /\ prPc \in Waiting
        /\ prPc' = CASE prPc = "registering" -> "fail-register"
                     [] prPc = "inviting"    -> "fail-invite"
                     [] prPc = "leaving"     -> Verdict
        /\ UNCHANGED <<prNow, prMediaEnd, prDigitAt, prTo, prTarget, prRx, prPreRx, prDigit>>
        /\ UNCHANGED <<enRequests, enResponses, enCall, enDigit, enAudio, enFaults>>
    BY <1>5 DEF WaitTimesOut, prMedia, enVars
  <2>2. /\ Verdict \in {"fail-rtp", "fail-ivr", "pass"}
        /\ Verdict = "pass" => prDigit /\ prRx - prPreRx >= FreshAudio
    BY ProbeAssumption DEF Verdict, Fresh
  <2>3. prPc' \in Failures \cup {"pass"} /\ (prPc' = "pass" => Verdict = "pass")
    BY <2>1, <2>2 DEF Waiting, Failures
  <2>4. ProbeTypeOK'
    BY <2>1, <2>3
  <2>5. AnswerInv'
    BY <2>1, <2>3 DEF AnswerInv, Failures
  <2>6. AudioInv'
    BY <2>1, <2>2, <2>3 DEF AudioInv
  <2> QED  BY <2>4, <2>5, <2>6
<1>6. CASE ProbeTick
  <2>1. /\ prNow' = prNow + 1 /\ (prNow < RunTicks \/ prNow < prMediaEnd)
        /\ UNCHANGED <<prPc, prMediaEnd, prDigitAt, prTo, prTarget, prRx, prPreRx, prDigit>>
        /\ UNCHANGED <<enRequests, enResponses, enCall, enDigit, enAudio, enFaults>>
    BY <1>6 DEF ProbeTick, prMedia, enVars
  <2>2. prNow' \in 0 .. RunTicks + CallTicks
    BY <2>1, ProbeAssumption
  <2>3. ProbeTypeOK'
    BY <2>1, <2>2
  <2> QED  BY <2>1, <2>3 DEF AnswerInv, AudioInv
<1> QED  BY <1>1, <1>2, <1>3, <1>4, <1>5, <1>6

LEMMA ProbeKept == ProbeInv /\ [ProbeNext]_probeVars => ProbeInv'
<1>1. ASSUME ProbeInv, UNCHANGED probeVars PROVE ProbeInv'
  <2>1. /\ UNCHANGED <<prPc, prNow, prMediaEnd, prDigitAt, prTo, prTarget, prRx, prPreRx, prDigit>>
        /\ UNCHANGED <<enRequests, enResponses, enCall, enDigit, enAudio, enFaults>>
    BY <1>1 DEF probeVars, prVars, enVars
  <2>2. ProbeTypeOK'
    BY <1>1, <2>1 DEF ProbeInv, ProbeTypeOK
  <2> QED  BY <1>1, <2>1, <2>2 DEF ProbeInv, AnswerInv, AudioInv
<1> QED  BY <1>1, EngineStepKeeps, ResponseKeeps, ProbeStepKeeps DEF ProbeNext

LEMMA PassMeans == ProbeInv => PassMeansConversation
  BY ProbeAssumption
  DEF ProbeInv, ProbeTypeOK, AnswerInv, AudioInv, PassMeansConversation, Answered

(* However responses are lost, repeated or taken for another request's,    *)
(* "pass" means that the call was answered, that the BYE belonged to that  *)
(* answer and that audio came after the digit.                             *)
THEOREM PassIsConversation == ProbeSpec => []PassMeansConversation
  BY PassMeans, ProbeStarts, ProbeKept, PTL DEF ProbeSpec

-----------------------------------------------------------------------------
(* The browser phone.                                                      *)
WebInv == WebTypeOK /\ NoGhostCall

LEMMA WebStarts == WebInit => WebInv
  BY DEF WebInit, WebInv, WebTypeOK, NoGhostCall, CallState, Idle, Button

(* One call moves on; the others are as live as they were.                 *)
LEMMA OneMoves ==
  ASSUME WebTypeOK, NEW s \in Call, NEW state \in CallState, Becomes(s, state)
  PROVE  /\ wpState' \in [Call -> CallState] /\ wpState'[s] = state
         /\ \A c \in Call \ {s} : wpState'[c] = wpState[c]
         /\ \A c \in Call \ {s} : Live(c)' <=> Live(c)
         /\ Live(s)' <=> state \in {"initial", "establishing", "established"}
  BY DEF WebTypeOK, Becomes, Live

(* A step that ends a call forgets it, and enables the Call button.        *)
LEMMA EndKeeps ==
  ASSUME WebInv, NEW s \in Call, Becomes(s, "terminated"),
         wpSession' \in {NoCall, wpSession}, wpSession' # s,
         wpIncoming' \in {NoCall, wpIncoming}, wpIncoming' # s,
         wpAccepting' \in {NoCall, wpAccepting}, wpInviting' \subseteq wpInviting,
         wpRing' \in BOOLEAN, wpEnabled' = Idle, UNCHANGED <<wpAgent, wpWatched>>
  PROVE  WebInv'
<1>1. /\ wpState' \in [Call -> CallState] /\ wpState'[s] = "terminated"
      /\ \A c \in Call \ {s} : Live(c)' <=> Live(c)
  BY OneMoves DEF WebInv, CallState
<1>2. WebTypeOK'
  BY <1>1 DEF WebInv, WebTypeOK, Idle, Button
<1>3. wpSession' # NoCall => wpSession' \in Call \ {s} /\ Live(wpSession)
  BY DEF WebInv, WebTypeOK, NoGhostCall
<1>4. wpIncoming' # NoCall => wpIncoming' \in Call \ {s} /\ Live(wpIncoming)
  BY DEF WebInv, WebTypeOK, NoGhostCall, Call
<1>5. NoGhostCall'
  BY <1>1, <1>3, <1>4 DEF NoGhostCall, Live, Idle
<1> QED  BY <1>2, <1>5 DEF WebInv

LEMMA CallEndsKeeps ==
  ASSUME WebInv, NEW c \in Outgoing, CallEnds(c)
  PROVE  WebInv'
<1>1. c \in Call /\ wpIncoming # c /\ c # NoCall
  BY WebAssumption DEF WebInv, WebTypeOK, Call
<1>2. /\ Becomes(c, "terminated") /\ wpInviting' = wpInviting \ {c} /\ wpSession' = NoCall
      /\ wpRing' = FALSE /\ wpEnabled' = Idle
      /\ UNCHANGED <<wpAgent, wpWatched, wpIncoming, wpAccepting>>
  BY DEF CallEnds, StopRingback, ResetButtons
<1> QED  BY <1>1, <1>2, EndKeeps

LEMMA WatchedEndsKeeps ==
  ASSUME WebInv, NEW i \in Incoming, WatchedEnds(i), UNCHANGED wpAccepting
  PROVE  WebInv'
<1>1. i \in Call /\ i # NoCall
  BY WebAssumption DEF Call
<1>2. /\ Becomes(i, "terminated") /\ wpIncoming' = NoCall
      /\ wpSession' = IF wpSession = i THEN NoCall ELSE wpSession
      /\ wpRing' = FALSE /\ wpEnabled' = Idle
      /\ UNCHANGED <<wpAgent, wpWatched, wpInviting>>
  BY DEF WatchedEnds, StopRingback, ResetButtons
<1> QED  BY <1>1, <1>2, EndKeeps

LEMMA AcceptFailsKeeps ==
  ASSUME WebInv, AcceptFails
  PROVE  WebInv'
<1>1. PICK i \in Incoming : i = wpAccepting
  BY DEF AcceptFails, WebInv, WebTypeOK
<1>2. i \in Call /\ i # NoCall
  BY WebAssumption DEF Call
<1>3. /\ Becomes(i, "terminated") /\ wpIncoming' = NoCall
      /\ wpSession' = IF wpSession = i THEN NoCall ELSE wpSession
      /\ wpRing' \in {FALSE, wpRing} /\ wpEnabled' = Idle /\ wpAccepting' = NoCall
      /\ UNCHANGED <<wpAgent, wpWatched, wpInviting>>
  BY <1>1 DEF AcceptFails, ResetButtons
<1>4. wpRing' \in BOOLEAN
  BY <1>3 DEF WebInv, WebTypeOK
<1> QED  BY <1>2, <1>3, <1>4, EndKeeps

(* A step by which a call becomes or stays live, and those that the page   *)
(* holds stay what they are but for that call.                             *)
LEMMA LiveKeeps ==
  ASSUME WebInv, NEW s \in Call, NEW state \in {"initial", "establishing", "established"},
         Becomes(s, state), wpAgent' = wpAgent,
         wpSession' \in {wpSession, s},
         wpIncoming' = wpIncoming \/ (s \in Incoming /\ wpIncoming' = s),
         wpAccepting' \in Incoming \cup {NoCall}, wpInviting' \subseteq Outgoing,
         wpRing' \in BOOLEAN, wpEnabled' \subseteq Button, wpWatched' \subseteq Incoming
  PROVE  WebInv'
<1>1. /\ wpState' \in [Call -> CallState] /\ Live(s)'
      /\ \A c \in Call \ {s} : Live(c)' <=> Live(c)
  BY OneMoves DEF WebInv, CallState
<1>2. \A c \in Call : Live(c) => Live(c)'
  BY <1>1
<1>3. WebTypeOK'
  BY <1>1 DEF WebInv, WebTypeOK
<1>4. /\ wpSession' # NoCall => wpSession' \in Call /\ (wpSession' = s \/ Live(wpSession))
      /\ wpIncoming' # NoCall => wpIncoming' \in Call /\ (wpIncoming' = s \/ Live(wpIncoming))
  BY <1>3 DEF WebInv, WebTypeOK, NoGhostCall, Call
<1>5. wpSession' # NoCall => wpState'[wpSession'] \in {"initial", "establishing", "established"}
  BY <1>1, <1>2, <1>4 DEF Live
<1>6. wpIncoming' # NoCall => wpState'[wpIncoming'] \in {"initial", "establishing", "established"}
  BY <1>1, <1>2, <1>4 DEF Live
<1>7. NoGhostCall'
  BY <1>1, <1>5, <1>6 DEF NoGhostCall, Live
<1> QED  BY <1>3, <1>7 DEF WebInv

LEMMA OutgoingKeeps ==
  ASSUME WebInv, NEW c \in Outgoing,
         (\E b \in Button : PlaceCall(c, b)) \/ InviteSent(c) \/ CallAnswered(c)
  PROVE  WebInv'
<1> USE DEF WebInv, WebTypeOK, Call
<1>1. CASE \E b \in Button : PlaceCall(c, b)
  <2>1. /\ Becomes(c, "initial") /\ wpSession' = c /\ wpInviting' \subseteq Outgoing
        /\ wpEnabled' \subseteq Button
        /\ UNCHANGED <<wpAgent, wpWatched, wpIncoming, wpAccepting, wpRing>>
    BY <1>1 DEF PlaceCall
  <2> QED  BY <2>1, LiveKeeps
<1>2. CASE InviteSent(c)
  <2>1. /\ Becomes(c, "establishing") /\ wpInviting' \subseteq Outgoing /\ wpEnabled' \subseteq Button
        /\ UNCHANGED <<wpAgent, wpWatched, wpSession, wpIncoming, wpAccepting, wpRing>>
    BY <1>2 DEF InviteSent, Enable, Button
  <2> QED  BY <2>1, LiveKeeps
<1>3. CASE CallAnswered(c)
  <2>1. /\ Becomes(c, "established") /\ wpRing' = FALSE /\ wpEnabled' \subseteq Button
        /\ UNCHANGED <<wpAgent, wpWatched, wpSession, wpIncoming, wpAccepting, wpInviting>>
    BY <1>3 DEF CallAnswered, StopRingback, Enable, Button
  <2> QED  BY <2>1, LiveKeeps
<1> QED  BY <1>1, <1>2, <1>3

LEMMA InvitationKeeps ==
  ASSUME WebInv, NEW i \in Incoming, InvitationArrives(i)
  PROVE  WebInv'
<1> USE DEF WebInv, WebTypeOK
<1>1. /\ i \in Call /\ i # NoCall /\ ~Live(i)
      /\ UNCHANGED <<wpAgent, wpSession, wpAccepting, wpInviting>>
  BY WebAssumption DEF InvitationArrives, Call, Live
<1>2. CASE wpSession # NoCall \/ wpIncoming # NoCall
  <2>1. Becomes(i, "terminated") /\ UNCHANGED <<wpIncoming, wpRing, wpEnabled, wpWatched>>
    BY <1>2 DEF InvitationArrives
  <2>2. wpState' \in [Call -> CallState] /\ \A c \in Call : Live(c) => Live(c)'
    BY <1>1, <2>1, OneMoves DEF CallState
  <2>3. WebTypeOK'
    BY <1>1, <2>1, <2>2
  <2>4. wpSession # NoCall => wpState'[wpSession] \in {"initial", "establishing", "established"}
    BY <2>2 DEF NoGhostCall, Live
  <2>5. wpIncoming # NoCall => wpState'[wpIncoming] \in {"initial", "establishing", "established"}
    BY <2>2 DEF NoGhostCall, Live, Call
  <2>6. NoGhostCall'
    BY <1>1, <2>1, <2>2, <2>4, <2>5 DEF NoGhostCall, Live
  <2> QED  BY <2>3, <2>6
<1>3. CASE ~(wpSession # NoCall \/ wpIncoming # NoCall)
  <2>1. /\ Becomes(i, "initial") /\ wpIncoming' = i /\ wpRing' = TRUE
        /\ wpEnabled' \subseteq Button /\ wpWatched' \subseteq Incoming
    BY <1>3 DEF InvitationArrives, StartRingback, Button
  <2> QED  BY <1>1, <2>1, LiveKeeps
<1> QED  BY <1>2, <1>3

LEMMA AnsweringKeeps ==
  ASSUME WebInv, PressAccept \/ InvitationEstablished
  PROVE  WebInv'
<1> USE DEF WebInv, WebTypeOK
<1>1. CASE PressAccept
  <2>1. PICK i \in Incoming : i = wpIncoming
    BY <1>1 DEF PressAccept
  <2>2. /\ Becomes(i, "establishing") /\ wpAccepting' = i
        /\ UNCHANGED <<wpAgent, wpWatched, wpSession, wpIncoming, wpInviting, wpRing, wpEnabled>>
    BY <1>1, <2>1 DEF PressAccept
  <2> QED  BY <2>1, <2>2, LiveKeeps DEF Call
<1>2. CASE InvitationEstablished
  <2>1. PICK i \in Incoming : i = wpAccepting
    BY <1>2 DEF InvitationEstablished
  <2>2. /\ Becomes(i, "established") /\ wpSession' = i /\ wpAccepting' = NoCall /\ wpRing' = FALSE
        /\ wpEnabled' \subseteq Button /\ UNCHANGED <<wpAgent, wpWatched, wpIncoming, wpInviting>>
    BY <1>2, <2>1 DEF InvitationEstablished, StopRingback, Button
  <2> QED  BY <2>1, <2>2, LiveKeeps DEF Call
<1> QED  BY <1>1, <1>2

LEMMA WebKept == WebInv /\ [WebNext]_wpVars => WebInv'
<1> SUFFICES ASSUME WebInv, [WebNext]_wpVars PROVE WebInv'
  OBVIOUS
<1> USE DEF WebInv, WebTypeOK
<1>1. ASSUME UNCHANGED <<wpState, wpWatched, wpSession, wpIncoming, wpAccepting, wpInviting, wpEnabled>>,
             wpAgent' \in {"starting", "up", "down"}, wpRing' \in BOOLEAN
      PROVE  WebInv'
  <2>1. WebTypeOK'
    BY <1>1
  <2>2. NoGhostCall'
    BY <1>1 DEF NoGhostCall, Live
  <2> QED  BY <2>1, <2>2
<1>2. CASE AgentStarts
  BY <1>1, <1>2 DEF AgentStarts
<1>3. CASE AgentDisconnects
  <2>1. /\ wpAgent' = "down" /\ wpSession' = NoCall /\ wpIncoming' = NoCall /\ wpRing' = FALSE
        /\ wpEnabled' = Idle /\ UNCHANGED <<wpState, wpWatched, wpAccepting, wpInviting>>
    BY <1>3 DEF AgentDisconnects, StopRingback, ResetButtons
  <2> QED  BY <2>1 DEF NoGhostCall, Idle, Button
<1>4. ASSUME NEW c \in Outgoing, RingingHeard(c) PROVE WebInv'
  <2>1. wpRing' \in BOOLEAN
    BY <1>4 DEF RingingHeard, StartRingback
  <2> QED  BY <1>1, <1>4, <2>1 DEF RingingHeard
<1>5. ASSUME NEW i \in Incoming, InvitationEnds(i) PROVE WebInv'
  BY <1>5, WatchedEndsKeeps DEF InvitationEnds
<1>6. CASE PressReject
  <2>1. PICK i \in Incoming : i = wpIncoming
    BY <1>6 DEF PressReject
  <2> QED  BY <1>6, <2>1, WatchedEndsKeeps DEF PressReject
<1>7. CASE PressHangup
  <2>1. PICK s \in Call : s = wpSession
    BY <1>7 DEF PressHangup
  <2>2. CASE s \in Outgoing
    BY <1>7, <2>1, <2>2, CallEndsKeeps DEF PressHangup
  <2>3. CASE s \notin Outgoing
    BY <1>7, <2>1, <2>3, WatchedEndsKeeps DEF PressHangup, Call
  <2> QED  BY <2>2, <2>3
<1>8. CASE UNCHANGED wpVars
  BY <1>1, <1>8 DEF wpVars
<1>9. CASE \E c \in Outgoing : \/ \E b \in Button : PlaceCall(c, b)
                              \/ InviteSent(c) \/ CallAnswered(c)
  BY <1>9, OutgoingKeeps
<1> QED
  BY <1>2, <1>3, <1>4, <1>5, <1>6, <1>7, <1>8, <1>9, CallEndsKeeps, InvitationKeeps,
     AnsweringKeeps, AcceptFailsKeeps DEF WebNext

(* The page of app.js never holds a call that is over, in whatever order   *)
(* the listeners of any number of calls run.                               *)
THEOREM NoGhosts == WebSpec => []NoGhostCall
  BY WebStarts, WebKept, PTL DEF WebSpec, WebInv

-----------------------------------------------------------------------------
(* The feed cache.                                                         *)
Built == {"resolve", "fetch", "write", "done"}

(* The indexes in memory are those beside the packages, as far as they     *)
(* were fetched.                                                           *)
IndexInv == /\ fcApply \in BOOLEAN
            /\ fcStep = "index" => fcFeedAt < Len(FeedOrder) /\ DOMAIN fcResolved = {}
            /\ fcStep = "index" /\ fcApply =>
                  \A j \in 1 .. fcFeedAt : fcIndex[FeedOrder[j]] = fcDiskIndex[FeedOrder[j]]
            /\ fcStep \in Built /\ fcApply => fcIndex = fcDiskIndex
            /\ fcStep \in Built \ {"resolve"} => fcApply = TRUE

(* Whatever a resolved package needs is resolved, waits to be, or is found *)
(* nowhere.                                                                *)
ClosureInv == /\ fcStep \in Built => \A p \in DOMAIN fcResolved :
                    /\ p \in Packages /\ fcResolved[p] \in Find(p)
                    /\ \A d \in NeededBy[p] : d \in DOMAIN fcResolved \cup fcPending \/ Find(d) = {}
              /\ fcStep \in Built \ {"resolve"} => fcPending = {}

(* A package that needs no more looking at is whole, and what its index    *)
(* says; so is the one about to be written.                                *)
Right(p, data) == /\ data \in Versions \cup {"wrong"}
                  /\ p \in Unhashed \/ data = IndexedAs(p)

CacheInv == /\ fcStep \in Built \ {"resolve"} =>
                  \A p \in DOMAIN fcResolved \ fcToFetch : Right(p, fcPkg[p])
            /\ fcStep = "write" => \E p \in fcToFetch, data \in Versions \cup {"wrong"} :
                                      fcFile = <<p, data>> /\ Right(p, data)
            /\ fcStep = "done" => fcToFetch = {}

FeedInv == FeedTypeOK /\ IndexInv /\ ClosureInv /\ CacheInv

-----------------------------------------------------------------------------
(* A name that is not found is in the base image or in no index.           *)
LEMMA FoundWhereListed ==
  ASSUME FeedTypeOK, NEW name \in Packages
  PROVE  /\ \A f \in Find(name) : f \in Feed /\ fcIndex[f][name] # "absent"
         /\ Find(name) = {} =>
               name \in InBaseImage \/ \A f \in Feed : fcIndex[f][name] = "absent"
<1>1. Len(FeedOrder) \in Nat
  BY FeedAssumption
<1>2. \A i \in 1 .. Len(FeedOrder) : FeedOrder[i] \in Feed
  BY DEF Feed
<1>3. \A f \in Find(name) : f \in Feed /\ fcIndex[f][name] # "absent"
  BY <1>2 DEF Find, Listing
<1>4. ASSUME Find(name) = {}, name \notin InBaseImage
      PROVE  Listing(name) = {}
  <2>1. Listing(name) \in SUBSET Nat
    BY <1>1 DEF Listing
  <2>2. ASSUME Listing(name) # {} PROVE FALSE
    <3> DEFINE R == OpToRel(<, Nat)
    <3>1. PICK j \in Listing(name) : \A k \in Listing(name) : <<k, j>> \notin R
      BY <2>1, <2>2, NatLessThanWellFounded, WFMin
    <3>2. j \in Nat /\ \A k \in Listing(name) : k \in Nat /\ ~(k < j)
      BY <2>1, <3>1 DEF OpToRel
    <3>3. \A k \in Listing(name) : j <= k
      BY <3>2
    <3> QED  BY <1>4, <3>1, <3>3 DEF Find
  <2> QED  BY <2>2
<1>5. Listing(name) = {} => \A f \in Feed : fcIndex[f][name] = "absent"
  BY DEF Listing, Feed
<1> QED  BY <1>3, <1>4, <1>5

(* What the index lists is a version, so a package that is as listed is    *)
(* neither missing nor cut short.                                          *)
LEMMA ListedIsVersion ==
  ASSUME FeedTypeOK, NEW p \in Packages, NEW f \in Find(p)
  PROVE  fcIndex[f][p] \in Versions
<1>1. f \in Feed /\ fcIndex[f][p] # "absent"
  BY FoundWhereListed
<1>2. fcIndex[f] \in [Packages -> Versions \cup {"absent"}]
  BY <1>1 DEF FeedTypeOK, Listed
<1> QED  BY <1>1, <1>2

LEMMA FeedStarts == FeedInit => FeedInv
<1> SUFFICES ASSUME FeedInit PROVE FeedInv
  OBVIOUS
<1>1. Len(FeedOrder) \in Nat /\ 0 \in 0 .. Len(FeedOrder)
  BY FeedAssumption
<1>2. (CHOOSE v \in Versions : TRUE) \in Versions
  BY FeedAssumption
<1>3. NoIndexes \in [Feed -> Listed] /\ fcUpstream \in [Feed -> Listed]
  BY <1>2 DEF FeedInit, NoIndexes, Listed
<1>4. fcPkg \in [Packages -> Versions \cup {"absent", "part", "wrong"}]
  BY DEF FeedInit
<1>5. FeedTypeOK
  BY <1>1, <1>3, <1>4 DEF FeedInit, FeedTypeOK, Over
<1>6. IndexInv /\ ClosureInv /\ CacheInv
  BY DEF FeedInit, IndexInv, ClosureInv, CacheInv, Built
<1> QED  BY <1>5, <1>6 DEF FeedInv

LEMMA StartRunKeeps ==
  ASSUME FeedInv, NEW apply \in BOOLEAN, StartRun(apply)
  PROVE  FeedInv'
<1>1. Len(FeedOrder) \in Nat /\ 0 \in 0 .. Len(FeedOrder) /\ 0 < Len(FeedOrder)
  BY FeedAssumption
<1>2. /\ fcStep' = "index" /\ fcApply' = apply /\ fcFeedAt' = 0 /\ fcIndex' = NoIndexes
      /\ fcPending' = AskedFor /\ fcResolved' = <<>> /\ fcToFetch' = {}
      /\ UNCHANGED <<fcPkg, fcDiskIndex, fcUpstream>>
  BY DEF StartRun, fcDisk
<1>3. NoIndexes \in [Feed -> Listed]
  BY DEF NoIndexes, Listed
<1>4. FeedTypeOK'
  BY <1>1, <1>2, <1>3, FeedAssumption DEF FeedInv, FeedTypeOK
<1>5. DOMAIN fcResolved' = {}
  BY <1>2
<1>6. IndexInv' /\ ClosureInv' /\ CacheInv'
  BY <1>1, <1>2, <1>5 DEF IndexInv, ClosureInv, CacheInv, Built
<1> QED  BY <1>4, <1>6 DEF FeedInv

LEMMA FetchIndexKeeps ==
  ASSUME FeedInv, FetchIndex
  PROVE  FeedInv'
<1> DEFINE f == FeedOrder[fcFeedAt + 1]
<1>1. /\ fcFeedAt \in Nat /\ Len(FeedOrder) \in Nat /\ fcFeedAt < Len(FeedOrder)
      /\ f \in Feed /\ DOMAIN fcResolved = {} /\ fcStep = "index"
  <2>1. fcStep = "index" /\ fcFeedAt < Len(FeedOrder) /\ DOMAIN fcResolved = {}
    BY DEF FetchIndex, FeedInv, IndexInv
  <2>2. Len(FeedOrder) \in Nat /\ fcFeedAt \in Nat
    BY FeedAssumption DEF FeedInv, FeedTypeOK
  <2>3. fcFeedAt + 1 \in 1 .. Len(FeedOrder)
    BY <2>1, <2>2
  <2> QED  BY <2>1, <2>2, <2>3 DEF Feed
<1>2. /\ fcIndex' = [fcIndex EXCEPT ![f] = fcUpstream[f]]
      /\ fcDiskIndex' = IF fcApply THEN [fcDiskIndex EXCEPT ![f] = fcUpstream[f]] ELSE fcDiskIndex
      /\ fcFeedAt' = fcFeedAt + 1
      /\ fcStep' = IF fcFeedAt' = Len(FeedOrder) THEN "resolve" ELSE "index"
      /\ UNCHANGED <<fcApply, fcPending, fcResolved, fcToFetch, fcPkg, fcUpstream>>
  BY DEF FetchIndex, fcWorld
<1>3. /\ fcIndex \in [Feed -> Listed] /\ fcDiskIndex \in [Feed -> Listed]
      /\ fcUpstream[f] \in Listed
  BY <1>1 DEF FeedInv, FeedTypeOK
<1> HIDE DEF f
<1>4. /\ fcIndex' \in [Feed -> Listed] /\ fcDiskIndex' \in [Feed -> Listed]
      /\ fcApply = TRUE => fcIndex'[f] = fcDiskIndex'[f]
      /\ \A g \in Feed : g # f => fcIndex'[g] = fcIndex[g] /\ fcDiskIndex'[g] = fcDiskIndex[g]
  BY <1>1, <1>2, <1>3
<1>5. fcFeedAt' \in 0 .. Len(FeedOrder) /\ (fcStep' = "index" => fcFeedAt' < Len(FeedOrder))
  BY <1>1, <1>2
<1>6. FeedTypeOK'
  BY <1>2, <1>4, <1>5 DEF FeedInv, FeedTypeOK
<1>7. ASSUME fcApply = TRUE, NEW j \in 1 .. fcFeedAt + 1
      PROVE  fcIndex'[FeedOrder[j]] = fcDiskIndex'[FeedOrder[j]]
  <2>1. FeedOrder[j] \in Feed
    BY <1>1 DEF Feed
  <2>2. CASE FeedOrder[j] = f
    BY <1>4, <1>7, <2>2
  <2>3. CASE FeedOrder[j] # f
    <3>1. j \in 1 .. fcFeedAt
      BY <1>1, <2>3 DEF f
    <3>2. fcIndex[FeedOrder[j]] = fcDiskIndex[FeedOrder[j]]
      BY <1>1, <1>7, <3>1 DEF FeedInv, IndexInv
    <3> QED  BY <1>4, <2>1, <2>3, <3>2
  <2> QED  BY <2>2, <2>3
<1>8. ASSUME fcApply = TRUE, fcStep' = "resolve" PROVE fcIndex' = fcDiskIndex'
  <2>1. fcFeedAt + 1 = Len(FeedOrder)
    BY <1>2, <1>8
  <2>2. \A g \in Feed : fcIndex'[g] = fcDiskIndex'[g]
    BY <1>7, <1>8, <2>1 DEF Feed
  <2> QED  BY <1>4, <2>2
<1>9. IndexInv'
  BY <1>1, <1>2, <1>5, <1>7, <1>8 DEF FeedInv, IndexInv, Built
<1>10. ClosureInv' /\ CacheInv'
  BY <1>1, <1>2 DEF ClosureInv, CacheInv, Built
<1> QED  BY <1>6, <1>9, <1>10 DEF FeedInv

LEMMA ResolveKeeps ==
  ASSUME FeedInv, ResolveName
  PROVE  FeedInv'
<1>1. PICK name \in fcPending :
         \/ /\ name \in DOMAIN fcResolved \/ Find(name) = {}
            /\ fcPending' = fcPending \ {name}
            /\ UNCHANGED fcResolved
         \/ /\ name \notin DOMAIN fcResolved
            /\ \E f \in Find(name) :
                  fcResolved' = [p \in DOMAIN fcResolved \cup {name} |->
                                   IF p = name THEN f ELSE fcResolved[p]]
            /\ fcPending' = (fcPending \ {name}) \cup NeededBy[name]
  BY DEF ResolveName
<1>2. /\ fcStep = "resolve"
      /\ UNCHANGED <<fcStep, fcApply, fcFeedAt, fcIndex, fcToFetch, fcPkg, fcDiskIndex, fcUpstream>>
  BY DEF ResolveName, fcDisk, fcWorld
<1>3. name \in Packages /\ NeededBy[name] \subseteq Packages
  BY FeedAssumption DEF FeedInv, FeedTypeOK
<1>4. \A d : Find(d)' = Find(d)
  BY <1>2 DEF Find, Listing
<1>5. /\ fcPending' \subseteq Packages /\ fcPending \subseteq fcPending' \cup {name}
      /\ DOMAIN fcResolved \subseteq DOMAIN fcResolved'
      /\ name \in DOMAIN fcResolved' \/ Find(name) = {}
  <2>1. fcPending \subseteq Packages
    BY DEF FeedInv, FeedTypeOK
  <2> QED  BY <1>1, <1>3, <2>1
<1>6. FeedTypeOK'
  BY <1>2, <1>5 DEF FeedInv, FeedTypeOK
<1>7. IndexInv'
  BY <1>2 DEF FeedInv, IndexInv, Built
<1>8. ASSUME NEW p \in DOMAIN fcResolved'
      PROVE  /\ p \in Packages /\ fcResolved'[p] \in Find(p)
             /\ \A d \in NeededBy[p] : d \in DOMAIN fcResolved' \cup fcPending' \/ Find(d) = {}
  <2>1. CASE p \in DOMAIN fcResolved
    <3>1. /\ p \in Packages /\ fcResolved[p] \in Find(p)
          /\ \A d \in NeededBy[p] : d \in DOMAIN fcResolved \cup fcPending \/ Find(d) = {}
      BY <1>2, <2>1 DEF FeedInv, ClosureInv, Built
    <3>2. fcResolved'[p] = fcResolved[p]
      BY <1>1, <2>1
    <3> QED  BY <1>5, <3>1, <3>2
  <2>2. CASE p \notin DOMAIN fcResolved
    <3>1. p = name /\ fcResolved'[p] \in Find(name) /\ NeededBy[name] \subseteq fcPending'
      BY <1>1, <2>2
    <3> QED  BY <1>3, <3>1
  <2> QED  BY <2>1, <2>2
<1>9. ClosureInv'
  BY <1>2, <1>4, <1>8 DEF ClosureInv, Built
<1>10. CacheInv'
  BY <1>2 DEF CacheInv, Built
<1> QED  BY <1>6, <1>7, <1>9, <1>10 DEF FeedInv

LEMMA ClosureKeeps ==
  ASSUME FeedInv, ClosureComplete
  PROVE  FeedInv'
<1>1. /\ fcStep = "resolve" /\ fcPending = {}
      /\ fcStep' = IF fcApply THEN "fetch" ELSE "dry"
      /\ fcToFetch' = IF fcApply THEN DOMAIN fcResolved ELSE {}
      /\ UNCHANGED <<fcApply, fcFeedAt, fcIndex, fcPending, fcResolved, fcPkg, fcDiskIndex, fcUpstream>>
  BY DEF ClosureComplete, fcDisk, fcWorld
<1>2. fcStep' \in {"fetch", "dry"} /\ fcToFetch' \subseteq DOMAIN fcResolved
  BY <1>1
<1>3. FeedTypeOK'
  BY <1>1, <1>2 DEF FeedInv, FeedTypeOK, Over
<1>4. \A d : Find(d)' = Find(d)
  BY <1>1 DEF Find, Listing
<1>5. IndexInv'
  BY <1>1, <1>2 DEF FeedInv, IndexInv, Built
<1>6. ClosureInv'
  BY <1>1, <1>2, <1>4 DEF FeedInv, ClosureInv, Built
<1>7. fcStep' \in Built => fcToFetch' = DOMAIN fcResolved'
  BY <1>1 DEF Built
<1>8. CacheInv'
  BY <1>2, <1>7 DEF CacheInv, Built
<1> QED  BY <1>3, <1>5, <1>6, <1>8 DEF FeedInv

(* The steps that look at the packages one by one leave the indexes and    *)
(* the closure alone.                                                      *)
LEMMA CacheStepKeeps ==
  ASSUME FeedInv, fcStep \in {"fetch", "write"}, fcStep' \in {"fetch", "write", "done"},
         UNCHANGED <<fcApply, fcFeedAt, fcIndex, fcPending, fcResolved, fcDiskIndex, fcUpstream>>,
         fcToFetch' \subseteq fcToFetch,
         fcPkg' \in [Packages -> Versions \cup {"absent", "part", "wrong"}],
         CacheInv'
  PROVE  FeedInv'
<1> USE DEF FeedInv
<1>a. fcToFetch' \subseteq DOMAIN fcResolved'
  BY DEF FeedTypeOK
<1>b. fcStep' \in {"idle", "index", "resolve", "fetch", "write"} \cup Over
  BY DEF Over
<1>1. FeedTypeOK'
  BY <1>a, <1>b DEF FeedTypeOK
<1>2. \A d : Find(d)' = Find(d)
  BY DEF Find, Listing
<1>3. IndexInv'
  BY DEF FeedInv, IndexInv, Built
<1>4. ClosureInv'
  BY <1>2 DEF FeedInv, ClosureInv, Built
<1> QED  BY <1>1, <1>3, <1>4 DEF FeedInv

LEMMA RightStays ==
  ASSUME UNCHANGED <<fcIndex, fcResolved>>
  PROVE  \A p, data : Right(p, data)' <=> Right(p, data)
  BY DEF Right, IndexedAs

LEMMA KeepCachedKeeps ==
  ASSUME FeedInv, NEW p \in Packages, KeepCached(p)
  PROVE  FeedInv'
<1>1. /\ fcStep = "fetch" /\ p \in fcToFetch /\ Cached(p) /\ fcToFetch' = fcToFetch \ {p}
      /\ UNCHANGED <<fcStep, fcApply, fcFeedAt, fcIndex, fcPending, fcResolved, fcFile>>
      /\ UNCHANGED <<fcPkg, fcDiskIndex, fcUpstream>>
  BY DEF KeepCached, fcDisk, fcWorld
<1>2. p \in DOMAIN fcResolved /\ fcResolved[p] \in Find(p)
  BY <1>1 DEF FeedInv, FeedTypeOK, ClosureInv, Built
<1>3. Right(p, fcPkg[p])
  <2>1. fcPkg[p] = fcIndex[fcResolved[p]][p]
    BY <1>1 DEF Cached, IndexedAs
  <2>2. fcPkg[p] \in Versions
    BY <1>2, <2>1, ListedIsVersion DEF FeedInv
  <2> QED  BY <1>1, <2>2 DEF Right, Cached
<1>4. CacheInv'
  BY <1>1, <1>3, RightStays DEF FeedInv, CacheInv, Built
<1>5. fcPkg' \in [Packages -> Versions \cup {"absent", "part", "wrong"}]
  BY <1>1 DEF FeedInv, FeedTypeOK
<1> QED  BY <1>1, <1>4, <1>5, CacheStepKeeps

LEMMA FetchPackageKeeps ==
  ASSUME FeedInv, NEW p \in Packages, FetchPackage(p)
  PROVE  FeedInv'
<1>1. /\ fcStep = "fetch" /\ p \in fcToFetch /\ fcPkg' = Unlinked(p) /\ fcStep' = "write"
      /\ UNCHANGED <<fcApply, fcFeedAt, fcIndex, fcPending, fcResolved, fcToFetch>>
      /\ UNCHANGED <<fcDiskIndex, fcUpstream>>
  BY DEF FetchPackage, fcWorld
<1>2. PICK data \in Served(p) : (p \in Unhashed \/ data = IndexedAs(p)) /\ fcFile' = <<p, data>>
  BY DEF FetchPackage
<1>3. p \in DOMAIN fcResolved /\ fcResolved[p] \in Find(p)
  BY <1>1 DEF FeedInv, FeedTypeOK, ClosureInv, Built
<1>4. data \in Versions \cup {"wrong"}
  <2>1. fcResolved[p] \in Feed
    BY <1>3, FoundWhereListed DEF FeedInv
  <2>2. fcUpstream[fcResolved[p]][p] \in Versions \cup {"absent"}
    BY <2>1 DEF FeedInv, FeedTypeOK, Listed
  <2> QED  BY <2>2 DEF Served
<1>5. fcPkg \in [Packages -> Versions \cup {"absent", "part", "wrong"}]
  BY DEF FeedInv, FeedTypeOK
<1>6. /\ fcPkg' \in [Packages -> Versions \cup {"absent", "part", "wrong"}]
      /\ \A q \in Packages : q # p => fcPkg'[q] = fcPkg[q]
  BY <1>1, <1>5 DEF Unlinked
<1>7. ASSUME NEW q \in DOMAIN fcResolved \ fcToFetch PROVE Right(q, fcPkg'[q])
  <2>1. q \in Packages /\ q # p
    BY <1>1 DEF FeedInv, ClosureInv, Built
  <2>2. Right(q, fcPkg[q])
    BY <1>1 DEF FeedInv, CacheInv, Built
  <2> QED  BY <1>6, <2>1, <2>2
<1>8. Right(p, data)
  BY <1>2, <1>4 DEF Right
<1>9. CacheInv'
  BY <1>1, <1>2, <1>4, <1>7, <1>8, RightStays DEF CacheInv, Built
<1> QED  BY <1>1, <1>6, <1>9, CacheStepKeeps

LEMMA WritePackageKeeps ==
  ASSUME FeedInv, WritePackage
  PROVE  FeedInv'
<1>1. PICK p \in fcToFetch, data \in Versions \cup {"wrong"} : fcFile = <<p, data>> /\ Right(p, data)
  BY DEF WritePackage, FeedInv, CacheInv
<1>2. /\ fcStep = "write" /\ fcStep' = "fetch"
      /\ fcPkg' = [fcPkg EXCEPT ![p] = data] /\ fcToFetch' = fcToFetch \ {p}
      /\ UNCHANGED <<fcApply, fcFeedAt, fcIndex, fcPending, fcResolved, fcDiskIndex, fcUpstream>>
  BY <1>1 DEF WritePackage, fcWorld
<1>3. p \in DOMAIN fcResolved /\ p \in Packages
  BY <1>2 DEF FeedInv, FeedTypeOK, ClosureInv, Built
<1>4. fcPkg \in [Packages -> Versions \cup {"absent", "part", "wrong"}]
  BY DEF FeedInv, FeedTypeOK
<1>5. /\ fcPkg' \in [Packages -> Versions \cup {"absent", "part", "wrong"}] /\ fcPkg'[p] = data
      /\ \A q \in Packages : q # p => fcPkg'[q] = fcPkg[q]
  BY <1>2, <1>3, <1>4
<1>6. ASSUME NEW q \in DOMAIN fcResolved \ fcToFetch' PROVE Right(q, fcPkg'[q])
  <2>1. CASE q = p
    BY <1>1, <1>5, <2>1
  <2>2. CASE q # p
    <3>1. q \in Packages /\ Right(q, fcPkg[q])
      BY <1>2, <2>2 DEF FeedInv, ClosureInv, CacheInv, Built
    <3> QED  BY <1>5, <2>2, <3>1
  <2> QED  BY <2>1, <2>2
<1>7. CacheInv'
  BY <1>2, <1>6, RightStays DEF CacheInv, Built
<1> QED  BY <1>2, <1>5, <1>7, CacheStepKeeps

(* A run that ends otherwise leaves whatever it leaves: only the types     *)
(* matter to the next one.                                                 *)
LEMMA AbandonKeeps ==
  ASSUME FeedInv, UNCHANGED <<fcRunVars, fcUpstream>>, fcStep' \in {"failed", "killed"},
         fcPkg' \in [Packages -> Versions \cup {"absent", "part", "wrong"}],
         fcDiskIndex' \in [Feed -> Listed]
  PROVE  FeedInv'
<1>1. UNCHANGED <<fcApply, fcFeedAt, fcIndex, fcPending, fcResolved, fcToFetch, fcFile>>
  BY DEF fcRunVars
<1>2. FeedTypeOK'
  BY <1>1 DEF FeedInv, FeedTypeOK, Over
<1>3. IndexInv' /\ ClosureInv' /\ CacheInv'
  BY <1>1 DEF FeedInv, IndexInv, ClosureInv, CacheInv, Built
<1> QED  BY <1>2, <1>3 DEF FeedInv

LEMMA FailsKeeps ==
  ASSUME FeedInv, CacheFails
  PROVE  FeedInv'
<1>1. fcPkg \in [Packages -> Versions \cup {"absent", "part", "wrong"}]
  BY DEF FeedInv, FeedTypeOK
<1>2. /\ fcStep' = "failed" /\ UNCHANGED <<fcRunVars, fcDiskIndex, fcUpstream>>
      /\ UNCHANGED fcPkg \/ \E p \in fcToFetch : fcPkg' = Unlinked(p)
  BY DEF CacheFails, fcWorld
<1>3. fcPkg' \in [Packages -> Versions \cup {"absent", "part", "wrong"}]
  BY <1>1, <1>2 DEF Unlinked
<1>4. fcDiskIndex' \in [Feed -> Listed]
  BY <1>2 DEF FeedInv, FeedTypeOK
<1> QED  BY <1>2, <1>3, <1>4, AbandonKeeps

LEMMA KillKeeps ==
  ASSUME FeedInv, KillRun
  PROVE  FeedInv'
<1>1. /\ fcPkg \in [Packages -> Versions \cup {"absent", "part", "wrong"}]
      /\ fcDiskIndex \in [Feed -> Listed]
  BY DEF FeedInv, FeedTypeOK
<1>2. fcStep' = "killed" /\ UNCHANGED <<fcRunVars, fcUpstream>>
  BY DEF KillRun, fcWorld
<1>3. [p \in Packages |-> "absent"] \in Listed
  BY DEF Listed
<1>4. /\ fcPkg' = fcPkg \/ fcPkg' = [fcPkg EXCEPT ![fcFile[1]] = "part"]
      /\ \/ fcDiskIndex' = fcDiskIndex
         \/ fcDiskIndex' = [fcDiskIndex EXCEPT ![FeedOrder[fcFeedAt + 1]] = [p \in Packages |-> "absent"]]
  BY DEF KillRun, fcDisk
<1>5. fcPkg' \in [Packages -> Versions \cup {"absent", "part", "wrong"}]
  BY <1>1, <1>4
<1>6. fcDiskIndex' \in [Feed -> Listed]
  BY <1>1, <1>3, <1>4
<1> QED  BY <1>2, <1>5, <1>6, AbandonKeeps

(* A release changes what the feeds publish, and nothing of the run.       *)
LEMMA ReleaseKeeps ==
  ASSUME FeedInv, fcUpstream' \in [Feed -> Listed], UNCHANGED <<fcStep, fcRunVars, fcDisk>>
  PROVE  FeedInv'
<1>1. /\ UNCHANGED <<fcStep, fcApply, fcFeedAt, fcIndex, fcPending, fcResolved, fcToFetch, fcFile>>
      /\ UNCHANGED <<fcPkg, fcDiskIndex>>
  BY DEF fcRunVars, fcDisk
<1>2. FeedTypeOK'
  BY <1>1 DEF FeedInv, FeedTypeOK
<1>3. \A d : Find(d)' = Find(d)
  BY <1>1 DEF Find, Listing
<1>4. IndexInv'
  BY <1>1 DEF FeedInv, IndexInv, Built
<1>5. ClosureInv'
  BY <1>1, <1>3 DEF FeedInv, ClosureInv
<1>6. CacheInv'
  BY <1>1, RightStays DEF FeedInv, CacheInv
<1> QED  BY <1>2, <1>4, <1>5, <1>6 DEF FeedInv

LEMMA FeedKept == FeedInv /\ [FeedNext]_fcVars => FeedInv'
<1> SUFFICES ASSUME FeedInv, [FeedNext]_fcVars PROVE FeedInv'
  OBVIOUS
<1>1. fcUpstream \in [Feed -> Listed]
  BY DEF FeedInv, FeedTypeOK
<1>2. CASE NewRelease
  <2>1. PICK f \in Feed, p \in Packages, v \in Versions \cup {"absent"} :
          fcUpstream' = [fcUpstream EXCEPT ![f][p] = v]
    BY <1>2 DEF NewRelease
  <2>2. [fcUpstream[f] EXCEPT ![p] = v] \in Listed
    BY <1>1 DEF Listed
  <2>3. fcUpstream' \in [Feed -> Listed]
    BY <1>1, <2>1, <2>2
  <2> QED  BY <1>2, <2>3, ReleaseKeeps DEF NewRelease
<1>3. CASE CacheDone
  <2>1. /\ fcStep = "fetch" /\ fcToFetch = {} /\ fcStep' = "done"
        /\ UNCHANGED <<fcApply, fcFeedAt, fcIndex, fcPending, fcResolved, fcToFetch, fcFile>>
        /\ UNCHANGED <<fcPkg, fcDiskIndex, fcUpstream>>
    BY <1>3 DEF CacheDone, fcRunVars, fcDisk, fcWorld
  <2>2. CacheInv'
    BY <2>1, RightStays DEF FeedInv, CacheInv, Built
  <2>3. fcPkg' \in [Packages -> Versions \cup {"absent", "part", "wrong"}]
    BY <2>1 DEF FeedInv, FeedTypeOK
  <2> QED  BY <2>1, <2>2, <2>3, CacheStepKeeps
<1>4. CASE UNCHANGED fcVars
  BY <1>1, <1>4, ReleaseKeeps DEF fcVars, fcWorld
<1> QED
  BY <1>2, <1>3, <1>4, StartRunKeeps, FetchIndexKeeps, ResolveKeeps, ClosureKeeps,
     KeepCachedKeeps, FetchPackageKeeps, WritePackageKeeps, FailsKeeps, KillKeeps DEF FeedNext

LEMMA DoneMeans == FeedInv => DoneIsInstallable
<1>1. ASSUME FeedInv, fcStep = "done", NEW p \in DOMAIN fcResolved
      PROVE  /\ fcPkg[p] \notin {"absent", "part"}
             /\ p \in Unhashed \/ fcPkg[p] = fcDiskIndex[fcResolved[p]][p]
             /\ \A d \in NeededBy[p] : \/ d \in DOMAIN fcResolved \cup InBaseImage
                                       \/ \A f \in Feed : fcDiskIndex[f][d] = "absent"
  <2>1. Right(p, fcPkg[p]) /\ fcIndex = fcDiskIndex
    BY <1>1 DEF FeedInv, CacheInv, IndexInv, Built
  <2>2. p \in Packages /\ \A d \in NeededBy[p] : d \in DOMAIN fcResolved \/ Find(d) = {}
    BY <1>1 DEF FeedInv, ClosureInv, Built
  <2>3. NeededBy[p] \subseteq Packages
    BY <2>2, FeedAssumption
  <2>4. \A d \in NeededBy[p] : Find(d) = {} =>
           d \in InBaseImage \/ \A f \in Feed : fcIndex[f][d] = "absent"
    BY <1>1, <2>3, FoundWhereListed DEF FeedInv
  <2>5. fcPkg[p] \notin {"absent", "part"}
    BY <2>1, FeedAssumption DEF Right
  <2> QED  BY <2>1, <2>2, <2>4, <2>5 DEF Right, IndexedAs
<1> QED
  BY <1>1 DEF DoneIsInstallable

(* "DONE" of openwrt_feed_cache.py means that the guest can install from   *)
(* the cache alone, whatever feeds, packages and releases there are and    *)
(* however many earlier runs failed or were killed.                        *)
THEOREM DoneInstalls == FeedSpec => []DoneIsInstallable
  BY DoneMeans, FeedStarts, FeedKept, PTL DEF FeedSpec
-----------------------------------------------------------------------------
(* The AudioSocket agent: what it counts has been sent and is no longer in *)
(* the socket buffer, and it terminates a session only when leaving it.    *)
AgentInv == /\ AgentTypeOK
            /\ agRx + Len(agInbound) <= agSent
            /\ InSession => agClosed = 0

LEMMA AgentBegins == AgentInit => AgentInv
<1> SUFFICES ASSUME AgentInit PROVE AgentInv
  OBVIOUS
<1>1. <<>> \in Seq(Message) /\ Len(<<>>) = 0
  OBVIOUS
<1>2. /\ 0 \in 0 .. AgentSessions /\ 0 \in 0 .. MaxMessages /\ 0 \in 0 .. ToneFrames
      /\ 0 \in 0 .. WindowTicks /\ 0 \in 0 .. 0 /\ 0 \in 0 .. 1
  BY AgentAssumption
<1>3. agInbound \in Seq(Message) /\ agRx + Len(agInbound) <= agSent
  BY <1>1 DEF AgentInit
<1> QED
  BY <1>2, <1>3 DEF AgentInit, AgentInv, AgentTypeOK

(* A read takes a message off the buffer, or finds the end of the stream.  *)
LEMMA ReadsTakes ==
  ASSUME AgentInv, NEW m \in Message \cup {"eof"}, Reads(m)
  PROVE  /\ agInbound' \in Seq(Message)
         /\ agRx + Len(agInbound') <= agSent
         /\ m \in {"voice", "hiss"} => agRx + 1 + Len(agInbound') <= agSent
<1>1. /\ agInbound \in Seq(Message) /\ agRx \in Nat /\ agSent \in Nat
      /\ agRx + Len(agInbound) <= agSent
  BY AgentAssumption DEF AgentInv, AgentTypeOK
<1>2. CASE agInbound = <<>> \/ agInbound[1] = "stub"
  <2>1. agInbound' = <<>> /\ m = "eof"
    BY <1>2 DEF Reads
  <2>2. agInbound' \in Seq(Message) /\ Len(agInbound') = 0
    BY <2>1
  <2> QED
    BY <1>1, <2>1, <2>2
<1>3. CASE ~(agInbound = <<>> \/ agInbound[1] = "stub")
  <2>1. agInbound' = Tail(agInbound) /\ agInbound # <<>>
    BY <1>3 DEF Reads
  <2>2. agInbound' \in Seq(Message) /\ Len(agInbound') = Len(agInbound) - 1
    BY <1>1, <2>1
  <2> QED
    BY <1>1, <2>2
<1> QED
  BY <1>2, <1>3

LEMMA DrainMessageKeeps == AgentInv /\ DrainMessage => AgentInv'
<1> SUFFICES ASSUME AgentInv, DrainMessage PROVE AgentInv'
  OBVIOUS
<1>1. PICK m \in Message \cup {"eof"} :
        /\ agPc = "drain" /\ Reads(m)
        /\ agRx' = IF m \in {"voice", "hiss"} THEN agRx + 1 ELSE agRx
        /\ agPc' \in {"tone", "drain"}
        /\ UNCHANGED <<agServed, agSent, agHungUp, agEof, agTx, agVoiced, agTime, agClosed>>
  BY DEF DrainMessage
<1>2. /\ agInbound' \in Seq(Message) /\ agRx + Len(agInbound') <= agSent
      /\ m \in {"voice", "hiss"} => agRx + 1 + Len(agInbound') <= agSent
  BY <1>1, ReadsTakes
<1>3. Len(agInbound') \in Nat
  BY <1>2
<1>4. agRx' \in 0 .. MaxMessages /\ agRx' + Len(agInbound') <= agSent' /\ agVoiced' \in 0 .. agRx'
  BY <1>1, <1>2, <1>3, AgentAssumption DEF AgentInv, AgentTypeOK
<1> QED
  BY <1>1, <1>2, <1>4 DEF AgentInv, AgentTypeOK, InSession

LEMMA WindowReadKeeps == AgentInv /\ WindowRead => AgentInv'
<1> SUFFICES ASSUME AgentInv, WindowRead PROVE AgentInv'
  OBVIOUS
<1>1. PICK m \in Message \cup {"eof"} :
        /\ agPc = "window" /\ Reads(m)
        /\ agPc' \in {"closing", "window"}
        /\ agRx' = IF m \in {"voice", "hiss"} THEN agRx + 1 ELSE agRx
        /\ agVoiced' = IF m = "voice" THEN agVoiced + 1 ELSE agVoiced
        /\ UNCHANGED <<agServed, agSent, agHungUp, agEof, agTx, agTime, agClosed>>
  BY DEF WindowRead
<1>2. /\ agInbound' \in Seq(Message) /\ agRx + Len(agInbound') <= agSent
      /\ m \in {"voice", "hiss"} => agRx + 1 + Len(agInbound') <= agSent
  BY <1>1, ReadsTakes
<1>3. Len(agInbound') \in Nat
  BY <1>2
<1>4. agRx' \in 0 .. MaxMessages /\ agRx' + Len(agInbound') <= agSent' /\ agVoiced' \in 0 .. agRx'
  BY <1>1, <1>2, <1>3, AgentAssumption DEF AgentInv, AgentTypeOK
<1> QED
  BY <1>1, <1>2, <1>4 DEF AgentInv, AgentTypeOK, InSession

LEMMA EngineSendsKeeps ==
  ASSUME AgentInv, NEW m \in Message, EngineSends(m)
  PROVE  AgentInv'
<1>1. /\ agInbound' = Append(agInbound, m) /\ agSent' = agSent + 1 /\ agSent < MaxMessages
      /\ InSession /\ agHungUp' = (agHungUp \/ m = "terminate")
      /\ UNCHANGED <<agPc, agServed, agEof, agCounts>>
  BY DEF EngineSends
<1>2. agInbound \in Seq(Message) /\ agSent \in 0 .. MaxMessages /\ agRx + Len(agInbound) <= agSent
      /\ agRx \in Nat
  BY AgentAssumption DEF AgentInv, AgentTypeOK
<1>3. agInbound' \in Seq(Message) /\ Len(agInbound') = Len(agInbound) + 1
  BY <1>1, <1>2
<1>4. agSent' \in 0 .. MaxMessages /\ agRx' + Len(agInbound') <= agSent'
  BY <1>1, <1>2, <1>3, AgentAssumption DEF agCounts
<1>5. agHungUp' \in BOOLEAN
  BY <1>1, Zenon DEF AgentInv, AgentTypeOK
<1> QED
  BY <1>1, <1>3, <1>4, <1>5 DEF AgentInv, AgentTypeOK, InSession, agCounts

LEMMA AcceptSessionKeeps == AgentInv /\ AcceptSession => AgentInv'
<1> SUFFICES ASSUME AgentInv, AcceptSession PROVE AgentInv'
  OBVIOUS
<1>1. agInbound' \in Seq(Message) /\ Len(agInbound') = 0
  BY DEF AcceptSession
<1>2. agServed' \in 0 .. AgentSessions
  BY AgentAssumption DEF AgentInv, AgentTypeOK, AcceptSession
<1>3. /\ agPc' = "uuid" /\ agSent' = 0 /\ agHungUp' = FALSE /\ agEof' = FALSE
      /\ agTx' = 0 /\ agRx' = 0 /\ agVoiced' = 0 /\ agTime' = 0 /\ agClosed' = 0
  BY DEF AcceptSession
<1>4. /\ agSent' \in 0 .. MaxMessages /\ agTx' \in 0 .. ToneFrames /\ agRx' \in 0 .. MaxMessages
      /\ agVoiced' \in 0 .. agRx' /\ agTime' \in 0 .. WindowTicks /\ agClosed' \in 0 .. 1
      /\ agRx' + Len(agInbound') <= agSent'
  BY <1>1, <1>3, AgentAssumption
<1>5. agHungUp' \in BOOLEAN /\ agEof' \in BOOLEAN
  BY <1>3
<1> QED
  BY <1>1, <1>2, <1>3, <1>4, <1>5 DEF AgentInv, AgentTypeOK, InSession

(* The steps that leave the socket buffer alone, or read the opening.      *)
LEMMA AgentStepKeeps == AgentInv /\ AgentStep => AgentInv'
<1> SUFFICES ASSUME AgentInv, AgentStep PROVE AgentInv'
  OBVIOUS
<1> USE DEF agCounts, agPeer, InSession
<1>1. ASSUME BindAgent \/ AgentStops \/ ReceiveTimesOut \/ SendRaises \/ DrainEnds \/ ToneEnds
             \/ WindowEnds
      PROVE  AgentInv'
  <2>1. /\ UNCHANGED <<agServed, agInbound, agSent, agHungUp, agEof, agTx, agRx, agVoiced,
                       agTime, agClosed>>
        /\ agPc' \in {"listen", "stopped", "raised", "tone", "window", "closing"}
        /\ agPc' \in {"tone", "window", "closing"} => InSession
    BY <1>1 DEF BindAgent, AgentStops, ReceiveTimesOut, SendRaises, DrainEnds, ToneEnds, WindowEnds
  <2> QED
    BY <2>1 DEF AgentInv, AgentTypeOK
<1>2. ASSUME ReadUuid PROVE AgentInv'
  <2>1. PICK m \in Message \cup {"eof"} :
          /\ agPc = "uuid" /\ Reads(m) /\ agPc' \in {"tone", "listen"}
          /\ UNCHANGED <<agServed, agSent, agHungUp, agEof, agCounts>>
    BY <1>2 DEF ReadUuid
  <2>2. agInbound' \in Seq(Message) /\ agRx + Len(agInbound') <= agSent
    BY <2>1, ReadsTakes
  <2> QED
    BY <2>1, <2>2 DEF AgentInv, AgentTypeOK
<1>3. ASSUME SendTone PROVE AgentInv'
  BY <1>3, AgentAssumption DEF SendTone, AgentInv, AgentTypeOK
<1>4. ASSUME WindowTick PROVE AgentInv'
  BY <1>4, AgentAssumption DEF WindowTick, AgentInv, AgentTypeOK
<1>5. ASSUME SendTerminate PROVE AgentInv'
  BY <1>5 DEF SendTerminate, AgentInv, AgentTypeOK
<1> QED
  BY <1>1, <1>2, <1>3, <1>4, <1>5, DrainMessageKeeps, WindowReadKeeps DEF AgentStep

LEMMA AgentKept == AgentInv /\ [AgentNext]_agVars => AgentInv'
<1>1. ASSUME AgentInv, EngineCloses PROVE AgentInv'
  BY <1>1 DEF EngineCloses, AgentInv, AgentTypeOK, InSession, agCounts
<1>2. ASSUME AgentInv, UNCHANGED agVars PROVE AgentInv'
  BY <1>2 DEF agVars, AgentInv, AgentTypeOK, InSession
<1> QED
  BY <1>1, <1>2, AgentStepKeeps, AcceptSessionKeeps, EngineSendsKeeps DEF AgentNext

-----------------------------------------------------------------------------
(* The bench: whichever program runs keeps its invariant, and the others   *)
(* stand still.                                                            *)
BenchInv == /\ ServerInv /\ SkinnyInv /\ AgentInv /\ MediaInv
            /\ WebInv /\ ProbeInv /\ FeedInv

LEMMA BenchStarts == BenchInit => BenchInv
  BY InitCoherent, SkinnyStarts, AgentBegins, MediaStarts, WebStarts, ProbeStarts, FeedStarts
     DEF BenchInit, BenchInv

LEMMA BenchKept == BenchInv /\ [TelephonyNext]_telephonyVars => BenchInv'
<1> SUFFICES ASSUME BenchInv, [TelephonyNext]_telephonyVars PROVE BenchInv'
  OBVIOUS
<1>1. /\ [ServerNext]_serverVars /\ [SkinnyNext]_skVars /\ [AgentNext]_agVars
      /\ [MediaNext]_mdVars /\ [WebNext]_wpVars /\ [ProbeNext]_probeVars /\ [FeedNext]_fcVars
  BY DEF TelephonyNext, telephonyVars
<1> QED
  BY <1>1, InvKept, SkinnyKept, AgentKept, MediaKept, WebKept, ProbeKept, FeedKept DEF BenchInv

LEMMA BenchMeans ==
  BenchInv => /\ TelephonyTypeOK /\ TransferCoherent /\ RunTimeKept /\ SkinnyAnswersAll
              /\ MediaInOrder /\ NoGhostCall /\ PassMeansConversation /\ DoneIsInstallable
  BY InvMeans, MediaMeans, PassMeans, DoneMeans
     DEF BenchInv, SkinnyInv, AgentInv, MediaInv, WebInv, ProbeInv, FeedInv, TelephonyTypeOK

(* The programs of the bench side by side, as the run TelephonyBench has   *)
(* them: every variable has its type, and each program keeps its promise.  *)
THEOREM BenchIsSafe ==
  TelephonyBench => [](/\ TelephonyTypeOK /\ TransferCoherent /\ RunTimeKept /\ SkinnyAnswersAll
                       /\ MediaInOrder /\ NoGhostCall /\ PassMeansConversation /\ DoneIsInstallable)
  BY BenchStarts, BenchKept, BenchMeans, PTL DEF TelephonyBench
================================================================================
