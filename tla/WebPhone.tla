------------------------------- MODULE WebPhone -------------------------------
(***************************************************************************)
(* The browser phone of webrtc/site/app.js: its variables session and      *)
(* incoming, its buttons, and the calls that set and clear them.           *)
(*                                                                         *)
(* One action is one turn of the event loop: an event handler with the     *)
(* continuations that run before the next event.  The sessions of SIP.js   *)
(* are modelled by the states they report to the page.                     *)
(***************************************************************************)
EXTENDS FiniteSets

CONSTANTS
    Outgoing,   \* calls the page may place
    Incoming,   \* invitations that may arrive
    NoCall      \* null

ASSUME WebAssumption == /\ Outgoing \cap Incoming = {}
                        /\ NoCall \notin Outgoing \cup Incoming

Call == Outgoing \cup Incoming
CallState == {"unused", "initial", "establishing", "established", "terminated"}

VARIABLES
    wpAgent,     \* the user agent: "starting", "up" or "down"
    wpState,     \* per call: the state SIP.js reports
    wpWatched,   \* invitations watchSession listens to
    wpSession,   \* session
    wpIncoming,  \* incoming
    wpAccepting, \* the invitation whose accept() has not settled
    wpInviting,  \* outgoing calls whose invite() has not settled
    wpRing,      \* ringTimer is set
    wpEnabled    \* the buttons that can be pressed

wpVars == <<wpAgent, wpState, wpWatched, wpSession, wpIncoming, wpAccepting,
            wpInviting, wpRing, wpEnabled>>

Button == {"call", "echo", "accept", "reject", "hangup"}
Idle == {"call", "echo"}   \* what resetButtons leaves enabled

WebInit == /\ wpAgent = "starting"
           /\ wpState = [s \in Call |-> "unused"] /\ wpWatched = {}
           /\ wpSession = NoCall /\ wpIncoming = NoCall
           /\ wpAccepting = NoCall /\ wpInviting = {}
           /\ wpRing = FALSE /\ wpEnabled = Idle

Live(s) == wpState[s] \in {"initial", "establishing", "established"}
Becomes(s, state) == wpState' = [wpState EXCEPT ![s] = state]
Enable(buttons) == wpEnabled' = wpEnabled \cup buttons
ResetButtons == wpEnabled' = Idle
StartRingback == wpRing' = TRUE
StopRingback == wpRing' = FALSE

(* ensureUA: calls may be placed before start() has completed.             *)
AgentStarts == /\ wpAgent = "starting"
               /\ wpAgent' = "up"
               /\ UNCHANGED <<wpState, wpWatched, wpSession, wpIncoming, wpAccepting,
                              wpInviting, wpRing, wpEnabled>>

(* onDisconnect.                                                           *)
AgentDisconnects ==
    /\ wpAgent # "down"
    /\ wpAgent' = "down"
    /\ wpSession' = NoCall /\ wpIncoming' = NoCall
    /\ StopRingback
    /\ ResetButtons
    /\ UNCHANGED <<wpState, wpWatched, wpAccepting, wpInviting>>

(* call: session is overwritten, whatever it holds.                        *)
PlaceCall(c, button) ==
    /\ wpState[c] = "unused" /\ button \in wpEnabled \cap {"call", "echo"}
    /\ Becomes(c, "initial")
    /\ wpSession' = c
    /\ wpInviting' = wpInviting \cup {c}
    /\ wpEnabled' = wpEnabled \ {"call", "echo"}
    /\ UNCHANGED <<wpAgent, wpWatched, wpIncoming, wpAccepting, wpRing>>

InviteSent(c) ==
    /\ c \in wpInviting /\ wpState[c] = "initial" /\ wpAgent = "up"
    /\ Becomes(c, "establishing")
    /\ wpInviting' = wpInviting \ {c}
    /\ Enable({"hangup"})
    /\ UNCHANGED <<wpAgent, wpWatched, wpSession, wpIncoming, wpAccepting, wpRing>>

RingingHeard(c) ==
    /\ c \in Outgoing /\ wpState[c] = "establishing"
    /\ IF wpSession = c THEN StartRingback ELSE UNCHANGED wpRing
    /\ UNCHANGED <<wpAgent, wpState, wpWatched, wpSession, wpIncoming, wpAccepting,
                   wpInviting, wpEnabled>>

CallAnswered(c) ==
    /\ c \in Outgoing /\ wpState[c] = "establishing"
    /\ Becomes(c, "established")
    /\ StopRingback
    /\ Enable({"hangup"})
    /\ UNCHANGED <<wpAgent, wpWatched, wpSession, wpIncoming, wpAccepting, wpInviting>>

(* Terminated, by the peer, an error of invite() or our own hangup.        *)
CallEnds(c) ==
    /\ c \in Outgoing /\ Live(c)
    /\ Becomes(c, "terminated")
    /\ wpInviting' = wpInviting \ {c}
    /\ wpSession' = NoCall
    /\ StopRingback
    /\ ResetButtons
    /\ UNCHANGED <<wpAgent, wpWatched, wpIncoming, wpAccepting>>

-----------------------------------------------------------------------------
(* handleIncoming.                                                         *)
InvitationArrives(i) ==
    /\ wpState[i] = "unused" /\ i \in Incoming /\ wpAgent = "up"
    /\ IF wpSession # NoCall \/ wpIncoming # NoCall
         THEN /\ Becomes(i, "terminated")
              /\ UNCHANGED <<wpIncoming, wpRing, wpEnabled, wpWatched>>
         ELSE /\ Becomes(i, "initial")
              /\ wpIncoming' = i
              /\ StartRingback
              /\ wpEnabled' = (wpEnabled \ {"call"}) \cup {"accept", "reject"}
              /\ wpWatched' = wpWatched \cup {i}
    /\ UNCHANGED <<wpAgent, wpSession, wpAccepting, wpInviting>>

(* A listener that forgets only an invitation that became the session.     *)
WatchedEnds_KeepsIncoming(i) ==
    /\ Becomes(i, "terminated")
    /\ wpSession' = IF wpSession = i THEN NoCall ELSE wpSession
    /\ wpIncoming' = IF wpSession = i THEN NoCall ELSE wpIncoming
    /\ StopRingback
    /\ ResetButtons
    /\ UNCHANGED <<wpAgent, wpWatched, wpInviting>>

(* watchSession, Terminated: incoming is cleared whichever call ended.     *)
WatchedEnds(i) ==
    /\ Becomes(i, "terminated")
    /\ wpSession' = IF wpSession = i THEN NoCall ELSE wpSession
    /\ wpIncoming' = NoCall
    /\ StopRingback
    /\ ResetButtons
    /\ UNCHANGED <<wpAgent, wpWatched, wpInviting>>

InvitationEnds(i) == /\ i \in wpWatched /\ Live(i)
                     /\ WatchedEnds(i)
                     /\ UNCHANGED wpAccepting

(* rejectIncoming: reject() terminates an invitation not yet established.  *)
PressReject ==
    /\ "reject" \in wpEnabled /\ wpIncoming # NoCall
    /\ wpState[wpIncoming] \in {"initial", "establishing"}
    /\ WatchedEnds(wpIncoming)
    /\ UNCHANGED wpAccepting

(* acceptIncoming, until accept() settles.                                 *)
PressAccept ==
    /\ "accept" \in wpEnabled /\ wpAccepting = NoCall
    /\ wpIncoming # NoCall /\ wpState[wpIncoming] = "initial"
    /\ wpAccepting' = wpIncoming
    /\ Becomes(wpIncoming, "establishing")
    /\ UNCHANGED <<wpAgent, wpWatched, wpSession, wpIncoming, wpInviting, wpRing, wpEnabled>>

(* accept() fails because the microphone is refused, or the invitation has *)
(* ended meanwhile: the handler clears incoming, whatever it now holds.    *)
AcceptFails ==
    /\ wpAccepting # NoCall /\ wpState[wpAccepting] # "established"
    /\ Becomes(wpAccepting, "terminated")
    /\ wpSession' = IF wpSession = wpAccepting THEN NoCall ELSE wpSession
    /\ wpIncoming' = NoCall
    /\ wpRing' = IF Live(wpAccepting) THEN FALSE ELSE wpRing
    /\ ResetButtons
    /\ wpAccepting' = NoCall
    /\ UNCHANGED <<wpAgent, wpWatched, wpInviting>>

(* watchSession, Established.                                              *)
InvitationEstablished ==
    /\ wpAccepting # NoCall /\ wpState[wpAccepting] = "establishing"
    /\ Becomes(wpAccepting, "established")
    /\ wpSession' = wpAccepting
    /\ StopRingback
    /\ wpEnabled' = (wpEnabled \ {"accept", "reject"}) \cup {"hangup"}
    /\ wpAccepting' = NoCall
    /\ UNCHANGED <<wpAgent, wpWatched, wpIncoming, wpInviting>>

(* hangup acts on the session alone: cancel() or bye(), then Terminated.   *)
PressHangup ==
    /\ "hangup" \in wpEnabled /\ wpSession # NoCall
    /\ wpState[wpSession] \in {"establishing", "established"}
    /\ IF wpSession \in Outgoing
         THEN CallEnds(wpSession)
         ELSE WatchedEnds(wpSession) /\ UNCHANGED wpAccepting

WebNext == \/ AgentStarts \/ AgentDisconnects
           \/ \E c \in Outgoing : \/ \E b \in Button : PlaceCall(c, b)
                                  \/ InviteSent(c) \/ RingingHeard(c)
                                  \/ CallAnswered(c) \/ CallEnds(c)
           \/ \E i \in Incoming : InvitationArrives(i) \/ InvitationEnds(i)
           \/ PressReject \/ PressAccept \/ AcceptFails \/ InvitationEstablished
           \/ PressHangup

WebSpec == WebInit /\ [][WebNext]_wpVars

WebTypeOK == /\ wpAgent \in {"starting", "up", "down"}
             /\ wpState \in [Call -> CallState] /\ wpWatched \subseteq Incoming
             /\ wpSession \in Call \cup {NoCall} /\ wpIncoming \in Incoming \cup {NoCall}
             /\ wpAccepting \in Incoming \cup {NoCall} /\ wpInviting \subseteq Outgoing
             /\ wpRing \in BOOLEAN /\ wpEnabled \subseteq Button

(* The page never holds a call that is over, although the listeners of     *)
(* several calls clear each other's variables: it does not refuse an       *)
(* invitation, and does not keep its Call button disabled, on account of   *)
(* a call that has ended.                                                  *)
NoGhostCall ==
    /\ wpSession # NoCall => Live(wpSession)
    /\ wpIncoming # NoCall => Live(wpIncoming)
    /\ "call" \notin wpEnabled => \E s \in Call : Live(s)
===============================================================================
