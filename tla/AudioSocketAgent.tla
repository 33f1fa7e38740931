--------------------------- MODULE AudioSocketAgent ---------------------------
(***************************************************************************)
(* The AudioSocket agent of telephony/audiosocket_agent.py: sessions are   *)
(* accepted one after the other; each sends a fixed tone, draining what    *)
(* the engine sends meanwhile, then listens for a while and terminates.    *)
(*                                                                         *)
(* The engine may hang up (by message or by closing) or stall inside a     *)
(* message at any moment.  A receive without data ends with an exception   *)
(* after MAX_SESSION_SECONDS, which ends the agent.                        *)
(***************************************************************************)
EXTENDS Naturals, Sequences

CONSTANTS
    AgentSessions,  \* sessions served before the agent stops
    ToneFrames,     \* TONE_FRAMES
    WindowTicks,    \* POST_TONE_WINDOW_SECONDS, in ticks
    MaxMessages,    \* bound: messages of the engine in one session
    MaxInbound      \* bound: messages in the socket buffer

ASSUME AgentAssumption ==
    AgentSessions \in Nat /\ ToneFrames \in Nat /\ WindowTicks \in Nat /\ MaxMessages \in Nat

(* "hiss" is an audio frame below the energy threshold, "odd" a message of *)
(* another kind or an empty audio frame, "stub" an unfinished message.     *)
Message == {"uuid", "voice", "hiss", "odd", "terminate", "stub"}

VARIABLES
    agPc,       \* "start", "listen", "uuid", "tone", "drain", "window", "closing",
                \* "stopped" or "raised"
    agServed,   \* served
    agInbound,  \* what the engine has sent and the agent not read
    agSent,     \* messages the engine sent in this session
    agHungUp,   \* the engine has said TERMINATE or closed
    agEof,      \* the engine has closed the connection
    agTx,       \* audio_tx
    agRx,       \* audio_rx
    agVoiced,   \* voiced
    agTime,     \* ticks of the window
    agClosed    \* TERMINATE messages the agent sent in this session

agVars == <<agPc, agServed, agInbound, agSent, agHungUp, agEof, agTx, agRx,
            agVoiced, agTime, agClosed>>
agCounts == <<agTx, agRx, agVoiced, agTime, agClosed>>
agPeer == <<agInbound, agSent, agHungUp, agEof>>

AgentInit == /\ agPc = "start" /\ agServed = 0
             /\ agInbound = <<>> /\ agSent = 0
             /\ agHungUp = FALSE /\ agEof = FALSE
             /\ agTx = 0 /\ agRx = 0 /\ agVoiced = 0 /\ agTime = 0 /\ agClosed = 0

(* main: a dry run or a port that is taken ends the agent.                 *)
BindAgent == /\ agPc = "start"
             /\ agPc' \in {"listen", "stopped"}
             /\ UNCHANGED <<agServed, agPeer, agCounts>>

InSession == agPc \in {"uuid", "tone", "drain", "window", "closing"}

(* The accept loop of main; a peer off the loopback is dropped uncounted.  *)
AcceptSession ==
    /\ agPc = "listen" /\ agServed < AgentSessions
    /\ agPc' = "uuid" /\ agServed' = agServed + 1
    /\ agInbound' = <<>> /\ agSent' = 0 /\ agHungUp' = FALSE /\ agEof' = FALSE
    /\ agTx' = 0 /\ agRx' = 0 /\ agVoiced' = 0 /\ agTime' = 0 /\ agClosed' = 0

AgentStops == /\ agPc = "listen" /\ agServed = AgentSessions
              /\ agPc' = "stopped"
              /\ UNCHANGED <<agServed, agPeer, agCounts>>

EngineSends(m) ==
    /\ InSession /\ ~agEof /\ agSent < MaxMessages /\ Len(agInbound) < MaxInbound
    /\ \A i \in 1 .. Len(agInbound) : agInbound[i] # "stub"
    /\ agInbound' = Append(agInbound, m)
    /\ agSent' = agSent + 1
    /\ agHungUp' = (agHungUp \/ m = "terminate")
    /\ UNCHANGED <<agPc, agServed, agEof, agCounts>>

EngineCloses == /\ InSession /\ ~agEof
                /\ agEof' = TRUE /\ agHungUp' = TRUE
                /\ UNCHANGED <<agPc, agServed, agInbound, agSent, agCounts>>

Readable == agInbound # <<>> \/ agEof

(* read_message: a whole message, or "eof" once the engine has closed.     *)
Reads(m) == IF agInbound = <<>> \/ agInbound[1] = "stub"
              THEN agEof /\ m = "eof" /\ agInbound' = <<>>
              ELSE m = agInbound[1] /\ agInbound' = Tail(agInbound)

ReadUuid == \E m \in Message \cup {"eof"} :
    /\ agPc = "uuid"
    /\ Reads(m)
    /\ agPc' = IF m = "uuid" THEN "tone" ELSE "listen"
    /\ UNCHANGED <<agServed, agSent, agHungUp, agEof, agCounts>>

(* A timeout that is lifted once the session is known.                     *)
ReceiveTimesOut_UuidOnly ==
    /\ agPc = "uuid" /\ ~agEof
    /\ agInbound \in {<<>>, <<"stub">>}
    /\ agPc' = "raised"
    /\ UNCHANGED <<agServed, agPeer, agCounts>>

(* conn.settimeout: nothing to read, or no more of a message, for long.    *)
ReceiveTimesOut ==
    /\ agPc \in {"uuid", "drain", "window"} /\ ~agEof
    /\ \/ agPc = "uuid" /\ agInbound = <<>>
       \/ agInbound = <<"stub">>
    /\ agPc' = "raised"
    /\ UNCHANGED <<agServed, agPeer, agCounts>>

SendTone == /\ agPc = "tone" /\ agTx < ToneFrames
            /\ agTx' = agTx + 1
            /\ agPc' = "drain"
            /\ UNCHANGED <<agServed, agPeer, agRx, agVoiced, agTime, agClosed>>

(* sendall to an engine that has closed.                                   *)
SendRaises == /\ agPc \in {"tone", "closing"} /\ agEof
              /\ agPc' = "raised"
              /\ UNCHANGED <<agServed, agPeer, agCounts>>

(* _drain_inbound: counts audio and takes no notice of anything else.      *)
DrainMessage == \E m \in Message \cup {"eof"} :
    /\ agPc = "drain" /\ Readable
    /\ Reads(m)
    /\ agRx' = IF m \in {"voice", "hiss"} THEN agRx + 1 ELSE agRx
    /\ agPc' = IF m = "eof" THEN "tone" ELSE "drain"
    /\ UNCHANGED <<agServed, agSent, agHungUp, agEof, agTx, agVoiced, agTime, agClosed>>

DrainEnds == /\ agPc = "drain" /\ ~Readable
             /\ agPc' = "tone"
             /\ UNCHANGED <<agServed, agPeer, agCounts>>

ToneEnds == /\ agPc = "tone" /\ agTx = ToneFrames
            /\ agPc' = "window"
            /\ UNCHANGED <<agServed, agPeer, agCounts>>

WindowRead == \E m \in Message \cup {"eof"} :
    /\ agPc = "window" /\ agTime < WindowTicks /\ Readable
    /\ Reads(m)
    /\ agPc' = IF m \in {"eof", "terminate"} THEN "closing" ELSE "window"
    /\ agRx' = IF m \in {"voice", "hiss"} THEN agRx + 1 ELSE agRx
    /\ agVoiced' = IF m = "voice" THEN agVoiced + 1 ELSE agVoiced
    /\ UNCHANGED <<agServed, agSent, agHungUp, agEof, agTx, agTime, agClosed>>

(* Time passes, in sleep or while messages are read.                       *)
WindowTick == /\ agPc = "window" /\ agTime < WindowTicks
              /\ agTime' = agTime + 1
              /\ UNCHANGED <<agPc, agServed, agPeer, agTx, agRx, agVoiced, agClosed>>

WindowEnds == /\ agPc = "window" /\ agTime >= WindowTicks
              /\ agPc' = "closing"
              /\ UNCHANGED <<agServed, agPeer, agCounts>>

SendTerminate == /\ agPc = "closing"
                 /\ agClosed' = agClosed + 1
                 /\ agPc' = "listen"
                 /\ UNCHANGED <<agServed, agPeer, agTx, agRx, agVoiced, agTime>>

AgentStep == \/ BindAgent \/ AgentStops \/ ReadUuid \/ ReceiveTimesOut \/ SendTone \/ SendRaises
             \/ DrainMessage \/ DrainEnds \/ ToneEnds \/ WindowRead \/ WindowTick
             \/ WindowEnds \/ SendTerminate

AgentNext == AgentStep \/ AcceptSession \/ EngineCloses
             \/ \E m \in Message : EngineSends(m)

AgentSpec == AgentInit /\ [][AgentNext]_agVars

AgentTypeOK == /\ agPc \in {"start", "listen", "uuid", "tone", "drain", "window", "closing",
                            "stopped", "raised"}
               /\ agServed \in 0 .. AgentSessions
               /\ agInbound \in Seq(Message) /\ agSent \in 0 .. MaxMessages
               /\ agHungUp \in BOOLEAN /\ agEof \in BOOLEAN
               /\ agTx \in 0 .. ToneFrames /\ agRx \in 0 .. MaxMessages
               /\ agVoiced \in 0 .. agRx /\ agTime \in 0 .. WindowTicks
               /\ agClosed \in 0 .. 1

(* The agent runs; a receive, a send and the clock always make progress.   *)
AgentFairness == WF_agVars(AgentStep)

(* A hangup ends the session, even one that draining the socket swallowed  *)
(* while the tone played, or one inside an unfinished message.             *)
HangupEndsSession == agHungUp /\ InSession ~> ~InSession
===============================================================================
