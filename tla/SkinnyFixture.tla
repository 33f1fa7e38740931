---------------------------- MODULE SkinnyFixture ----------------------------
(***************************************************************************)
(* The Skinny fixture of telephony/skinny_fixture.py: FrameDecoder cuts a  *)
(* byte stream into frames, FixtureSession answers each, FixtureEndpoint   *)
(* joins them and fails both at the first error.                           *)
(*                                                                         *)
(* A frame is two pieces on the wire, its first eight bytes (which hold    *)
(* the length) and the rest; the stream arrives cut between any two.       *)
(***************************************************************************)
EXTENDS Naturals, Sequences, FiniteSets

CONSTANTS
    MaxFrames,   \* MAX_FRAMES_PER_FEED
    MaxPieces,   \* MAX_BUFFER_BYTES, in pieces
    MaxFed       \* bound: whole frames the peer sends on one connection

ASSUME SkinnyAssumption == {MaxFrames, MaxPieces, MaxFed} \subseteq Nat

(* "register" is valid; "stranger" is a registration refused for its name, *)
(* device type or form; "odd" is any other message; "badlength" declares a *)
(* length outside the limits.                                              *)
FrameKind == {"register", "stranger", "keepalive", "odd", "badlength"}
NoFrame == "none"

VARIABLES
    skFailed,      \* _failed of the session and of the decoder, set together
    skRegistered,  \* session._registered
    skHead,        \* the frame of which only the first piece is buffered
    skFed,         \* whole frames received on this connection
    skReplies      \* replies returned on this connection

skVars == <<skFailed, skRegistered, skHead, skFed, skReplies>>

SkinnyInit == /\ skFailed = FALSE /\ skRegistered = FALSE
              /\ skHead = NoFrame
              /\ skFed = 0 /\ skReplies = <<>>

(* What one feed may bring: the rest of a buffered frame or nothing of it, *)
(* then whole frames, then perhaps the head of one more.                   *)
Feeds == [frames : UNION {[1 .. n -> FrameKind] : n \in 0 .. MaxFrames + 1},
          resumes : BOOLEAN, head : FrameKind \cup {NoFrame}]

Pieces(f) == 2 * Len(f.frames) + (IF f.resumes THEN 1 ELSE 0)
             + (IF f.head = NoFrame THEN 0 ELSE 1)

(* All the frames that are complete once the feed is in the buffer.        *)
Whole(f) == IF f.resumes THEN <<skHead>> \o f.frames ELSE f.frames

Buffered(f) == IF skHead = NoFrame THEN 0 ELSE 1

Decodes(f) == /\ Pieces(f) + Buffered(f) <= MaxPieces
              /\ Len(Whole(f)) <= MaxFrames
              /\ \A i \in 1 .. Len(Whole(f)) : Whole(f)[i] # "badlength"
              /\ f.head # "badlength"

(* A session that asks for a registration in every feed.                   *)
Accepts_PerFeed(frames) ==
    \A i \in 1 .. Len(frames) : frames[i] = IF i = 1 THEN "register" ELSE "keepalive"

(* FixtureSession.receive, over the frames of one feed in turn.            *)
Accepts(frames) ==
    \A i \in 1 .. Len(frames) :
        frames[i] = IF ~skRegistered /\ i = 1 THEN "register" ELSE "keepalive"

Answer(kind) == IF kind = "register" THEN "register_ack" ELSE "keepalive_ack"

EndpointFail == /\ skFailed' = TRUE /\ skRegistered' = FALSE
                /\ skHead' = NoFrame
                /\ UNCHANGED skReplies

(* FixtureEndpoint.receive: the replies of one feed are returned together, *)
(* or, when a later frame is in error, not at all.                         *)
EndpointReceive(f) ==
    /\ ~skFailed
    /\ IF skHead = NoFrame THEN ~f.resumes
       ELSE f.resumes \/ (f.frames = <<>> /\ f.head = NoFrame)
    /\ skFed + Len(Whole(f)) <= MaxFed
    /\ skFed' = skFed + Len(Whole(f))
    /\ IF Decodes(f) /\ Accepts(Whole(f))
         THEN /\ skRegistered' = (skRegistered \/ Whole(f) # <<>>)
              /\ skHead' = IF f.resumes \/ skHead = NoFrame THEN f.head ELSE skHead
              /\ skReplies' = skReplies \o [i \in 1 .. Len(Whole(f)) |-> Answer(Whole(f)[i])]
              /\ UNCHANGED skFailed
         ELSE EndpointFail

(* FixtureSession.ringer, with a valid or an invalid mode.                 *)
CanRing(validMode) == skRegistered /\ validMode

(* FixtureEndpoint.ringer.                                                 *)
EndpointRinger(validMode) ==
    /\ ~skFailed
    /\ IF CanRing(validMode) THEN UNCHANGED <<skFailed, skRegistered, skHead, skReplies>>
                          ELSE EndpointFail
    /\ UNCHANGED skFed

(* FixtureEndpoint.finish: the stream may not end inside a frame.          *)
EndpointFinish ==
    /\ ~skFailed
    /\ IF skHead = NoFrame THEN UNCHANGED <<skFailed, skRegistered, skHead, skReplies>>
                           ELSE EndpointFail
    /\ UNCHANGED skFed

EndpointReset == /\ skFailed' = FALSE /\ skRegistered' = FALSE
                 /\ skHead' = NoFrame
                 /\ skFed' = 0 /\ skReplies' = <<>>

SkinnyNext == \/ \E f \in Feeds : EndpointReceive(f)
              \/ \E valid \in BOOLEAN : EndpointRinger(valid)
              \/ EndpointFinish
              \/ EndpointReset

SkinnySpec == SkinnyInit /\ [][SkinnyNext]_skVars

SkinnyTypeOK == /\ skFailed \in BOOLEAN /\ skRegistered \in BOOLEAN
                /\ skHead \in FrameKind \cup {NoFrame}
                /\ skFed \in 0 .. MaxFed
                /\ skReplies \in Seq({"register_ack", "keepalive_ack"})

(* However the stream is cut, an endpoint that has not failed has answered *)
(* every whole frame in order, its registration first; one that has failed *)
(* holds nothing of the connection, not even the registration.             *)
SkinnyAnswersAll ==
    IF skFailed
      THEN ~skRegistered /\ skHead = NoFrame
      ELSE /\ Len(skReplies) = skFed
           /\ skRegistered <=> skFed > 0
           /\ \A i \in 1 .. skFed :
                 skReplies[i] = "register_ack" <=> i = 1
===============================================================================
