------------------------------- MODULE SipProbe -------------------------------
(***************************************************************************)
(* The loopback probe of telephony/sip_loopback_probe.py: it registers     *)
(* with the local engine, calls an extension, listens, sends one DTMF      *)
(* digit, counts the audio that follows and hangs up.                      *)
(*                                                                         *)
(* The engine (external) answers requests once; its responses, like the    *)
(* probe's requests, may be lost or repeated.  The probe retransmits       *)
(* nothing.  Time is in ticks; nothing but waiting takes any.              *)
(***************************************************************************)
EXTENDS Naturals, FiniteSets

CONSTANTS
    RunTicks,    \* run_seconds
    CallTicks,   \* call_seconds
    DigitTick,   \* DTMF_DELAY_SECONDS
    FreshAudio,  \* POST_DTMF_RTP_MIN
    MaxAudio,    \* bound: audio packets of the engine that arrive
    MaxFaults    \* bound: datagrams lost or repeated

ASSUME ProbeAssumption ==
    {RunTicks, CallTicks, DigitTick, FreshAudio, MaxAudio, MaxFaults} \subseteq Nat

Request == {"REGISTER", "INVITE", "ACK", "BYE"}
(* Responses, by the request they answer; "odd" is no SIP response.        *)
Response == [to : {"REGISTER", "INVITE", "BYE"}, code : {"100", "200", "486", "odd"}]
Waiting == {"registering", "inviting", "leaving"}
Failures == {"fail-register", "fail-invite", "fail-rtp", "fail-ivr"}

VARIABLES
    prPc,        \* what run() is at, or how it ended
    prNow,       \* ticks since run() was called
    prMediaEnd,  \* tick_deadline
    prDigitAt,   \* dtmf_at
    prTo,        \* the response whose To header ACK and BYE carry
    prTarget,    \* engine_rtp_port is known
    prRx,        \* rtp_rx
    prPreRx,     \* pre_dtmf_rx
    prDigit,     \* dtmf_sent
    enRequests,  \* requests on their way to the engine
    enResponses, \* responses on their way to the probe
    enCall,      \* the engine's call: "none", "ringing", "up", "over"
    enDigit,     \* the engine has read the digit
    enAudio,     \* audio packets that arrived at the probe's port
    enFaults     \* datagrams lost or repeated so far

prVars == <<prPc, prNow, prMediaEnd, prDigitAt, prTo, prTarget, prRx, prPreRx, prDigit>>
enVars == <<enRequests, enResponses, enCall, enDigit, enAudio, enFaults>>
probeVars == <<prVars, enVars>>
prMedia == <<prRx, prPreRx, prDigit>>

NoResponse == [to |-> "BYE", code |-> "odd"]

ProbeInit ==
    /\ prPc = "start" /\ prNow = 0 /\ prMediaEnd = 0 /\ prDigitAt = 0
    /\ prTo = NoResponse /\ prTarget = FALSE
    /\ prRx = 0 /\ prPreRx = 0 /\ prDigit = FALSE
    /\ enRequests = {} /\ enResponses = {}
    /\ enCall = "none" /\ enDigit = FALSE /\ enAudio = 0 /\ enFaults = 0

(* main: a dry run, a port that is taken, or run() and its REGISTER.       *)
StartProbe ==
    /\ prPc = "start"
    /\ \/ prPc' \in {"dry", "unbound"} /\ UNCHANGED enRequests
       \/ prPc' = "registering" /\ enRequests' = {"REGISTER"}
    /\ UNCHANGED <<prNow, prMediaEnd, prDigitAt, prTo, prTarget, prMedia, enResponses,
                   enCall, enDigit, enAudio, enFaults>>

-----------------------------------------------------------------------------
(* The engine and the path.                                                *)
Respond(request, codes) ==
    /\ request \in enRequests
    /\ enRequests' = enRequests \ {request}
    /\ enResponses' = enResponses \cup [to : {request}, code : codes]

EngineRegisters == /\ \E code \in {"200", "486", "odd"} : Respond("REGISTER", {code})
                   /\ UNCHANGED <<prVars, enCall, enDigit, enAudio, enFaults>>

EngineRings == /\ enCall = "none" /\ Respond("INVITE", {"100"})
               /\ enCall' = "ringing"
               /\ UNCHANGED <<prVars, enDigit, enAudio, enFaults>>

EngineDecides == /\ enCall = "ringing"
                 /\ \E code \in {"200", "486"} :
                       /\ enResponses' = enResponses \cup {[to |-> "INVITE", code |-> code]}
                       /\ enCall' = IF code = "200" THEN "up" ELSE "over"
                 /\ UNCHANGED <<prVars, enRequests, enDigit, enAudio, enFaults>>

EngineHearsAck == /\ "ACK" \in enRequests /\ enRequests' = enRequests \ {"ACK"}
                  /\ UNCHANGED <<prVars, enResponses, enCall, enDigit, enAudio, enFaults>>

EngineHearsBye == /\ Respond("BYE", {"200"})
                  /\ enCall' = IF enCall = "up" THEN "over" ELSE enCall
                  /\ UNCHANGED <<prVars, enDigit, enAudio, enFaults>>

(* Audio of an answered call; the queue of the socket counts as received.  *)
EngineSpeaks == /\ enCall = "up" /\ enAudio < MaxAudio
                /\ enAudio' = enAudio + 1
                /\ UNCHANGED <<prVars, enRequests, enResponses, enCall, enDigit, enFaults>>

EngineReadsDigit == /\ enCall = "up" /\ prDigit /\ ~enDigit
                    /\ enDigit' = TRUE
                    /\ UNCHANGED <<prVars, enRequests, enResponses, enCall, enAudio, enFaults>>

LoseDatagram == /\ enFaults < MaxFaults /\ enFaults' = enFaults + 1
                /\ \/ \E q \in enRequests : /\ enRequests' = enRequests \ {q}
                                            /\ UNCHANGED enResponses
                   \/ \E r \in enResponses : /\ enResponses' = enResponses \ {r}
                                             /\ UNCHANGED enRequests
                /\ UNCHANGED <<prVars, enCall, enDigit, enAudio>>

-----------------------------------------------------------------------------
(* _wait_sip_response_full: the first response that parses, whatever it    *)
(* answers; others are dropped.  A repeated one stays on the path.         *)
Takes(r) == /\ prPc \in Waiting /\ r \in enResponses /\ r.code # "odd"
            /\ prNow < RunTicks
            /\ \/ enResponses' = enResponses \ {r} /\ UNCHANGED enFaults
               \/ /\ enFaults < MaxFaults /\ enFaults' = enFaults + 1
                  /\ UNCHANGED enResponses
            /\ UNCHANGED <<prNow, enCall, enDigit, enAudio>>

DropOdd == /\ prPc \in Waiting
           /\ \E r \in enResponses : r.code = "odd" /\ enResponses' = enResponses \ {r}
           /\ UNCHANGED <<prVars, enRequests, enCall, enDigit, enAudio, enFaults>>

Registered(r) ==
    /\ prPc = "registering" /\ Takes(r)
    /\ IF r.code = "200"
         THEN prPc' = "inviting" /\ enRequests' = enRequests \cup {"INVITE"}
         ELSE prPc' = "fail-register" /\ UNCHANGED enRequests
    /\ UNCHANGED <<prMediaEnd, prDigitAt, prTo, prTarget, prMedia>>

(* A probe that falls back to a fixed port when the answer has no body.    *)
Invited_AnyBody(r) ==
    /\ prPc = "inviting" /\ Takes(r)
    /\ prTo' = r
    /\ prPc' = CASE r.code = "100" -> "inviting"
                 [] r.code = "200" -> "media"
                 [] OTHER          -> "fail-invite"
    /\ prTarget' = (prTarget \/ r.code = "200")
    /\ enRequests' = IF r.code = "200" THEN enRequests \cup {"ACK"} ELSE enRequests
    /\ prMediaEnd' = prNow + CallTicks /\ prDigitAt' = prNow + DigitTick
    /\ UNCHANGED prMedia

(* parse_sdp_target: only the answer of the INVITE itself has a body.      *)
NamesPort(r) == r.code = "200" /\ r.to = "INVITE"

(* The INVITE loop passes over provisional responses.                      *)
Invited(r) ==
    /\ prPc = "inviting" /\ Takes(r)
    /\ prTo' = r
    /\ prPc' = CASE r.code = "100" -> "inviting"
                 [] r.code = "200" -> "media"
                 [] OTHER          -> "fail-invite"
    /\ prTarget' = (prTarget \/ NamesPort(r))
    /\ enRequests' = IF r.code = "200" THEN enRequests \cup {"ACK"} ELSE enRequests
    /\ prMediaEnd' = prNow + CallTicks /\ prDigitAt' = prNow + DigitTick
    /\ UNCHANGED prMedia

(* _rtp_receive.                                                           *)
ReceiveAudio == /\ prPc = "media" /\ prNow < prMediaEnd /\ prRx < enAudio
                /\ prRx' = prRx + 1
                /\ UNCHANGED <<prPc, prNow, prMediaEnd, prDigitAt, prTo, prTarget, prPreRx,
                               prDigit, enVars>>

(* SIP messages in the call are read and dropped.                          *)
DropInDialog == /\ prPc = "media"
                /\ \E r \in enResponses : enResponses' = enResponses \ {r}
                /\ UNCHANGED <<prVars, enRequests, enCall, enDigit, enAudio, enFaults>>

(* The digit goes to the port of the answer: without one, sendto raises.   *)
SendDigit ==
    /\ prPc = "media" /\ ~prDigit /\ prNow >= prDigitAt /\ prNow < prMediaEnd
    /\ IF prTarget THEN prDigit' = TRUE /\ UNCHANGED prPc
                   ELSE prPc' = "raised" /\ UNCHANGED prDigit
    /\ prPreRx' = prRx
    /\ UNCHANGED <<prNow, prMediaEnd, prDigitAt, prTo, prTarget, prRx, enVars>>

Fresh == IF prDigit THEN prRx - prPreRx ELSE 0

SendBye == /\ prPc = "media"
           /\ prNow >= prMediaEnd \/ Fresh >= FreshAudio
           /\ prPc' = "leaving"
           /\ enRequests' = enRequests \cup {"BYE"}
           /\ UNCHANGED <<prNow, prMediaEnd, prDigitAt, prTo, prTarget, prMedia, enResponses,
                          enCall, enDigit, enAudio, enFaults>>

Verdict == IF prRx < 1 THEN "fail-rtp"
           ELSE IF ~prDigit \/ Fresh < FreshAudio THEN "fail-ivr" ELSE "pass"

Left(r) == /\ prPc = "leaving" /\ Takes(r)
           /\ prPc' = Verdict
           /\ UNCHANGED <<prMediaEnd, prDigitAt, prTo, prTarget, prMedia, enRequests>>

(* The deadline of run() passes in a wait.                                 *)
WaitTimesOut ==
    /\ prPc \in Waiting /\ prNow >= RunTicks
    /\ prPc' = CASE prPc = "registering" -> "fail-register"
                 [] prPc = "inviting"    -> "fail-invite"
                 [] prPc = "leaving"     -> Verdict
    /\ UNCHANGED <<prNow, prMediaEnd, prDigitAt, prTo, prTarget, prMedia, enVars>>

ProbeTick == /\ \/ prPc \in Waiting /\ prNow < RunTicks
                \/ prPc = "media" /\ prNow < prMediaEnd
             /\ prNow' = prNow + 1
             /\ UNCHANGED <<prPc, prMediaEnd, prDigitAt, prTo, prTarget, prMedia, enVars>>

ProbeNext ==
    \/ StartProbe
    \/ EngineRegisters \/ EngineRings \/ EngineDecides \/ EngineHearsAck \/ EngineHearsBye
    \/ EngineSpeaks \/ EngineReadsDigit \/ LoseDatagram
    \/ \E r \in Response : Registered(r) \/ Invited(r) \/ Left(r)
    \/ DropOdd \/ DropInDialog \/ ReceiveAudio \/ SendDigit \/ SendBye
    \/ WaitTimesOut \/ ProbeTick

ProbeSpec == ProbeInit /\ [][ProbeNext]_probeVars

ProbeTypeOK ==
    /\ prPc \in Waiting \cup Failures \cup {"start", "dry", "unbound", "media", "pass", "raised"}
    /\ prNow \in 0 .. RunTicks + CallTicks /\ prMediaEnd \in 0 .. RunTicks + CallTicks
    /\ prDigitAt \in 0 .. RunTicks + DigitTick
    /\ prTo \in Response /\ prTarget \in BOOLEAN /\ prDigit \in BOOLEAN
    /\ prRx \in 0 .. MaxAudio /\ prPreRx \in 0 .. MaxAudio
    /\ enRequests \subseteq Request /\ enResponses \subseteq Response
    /\ enCall \in {"none", "ringing", "up", "over"} /\ enDigit \in BOOLEAN
    /\ enAudio \in 0 .. MaxAudio /\ enFaults \in 0 .. MaxFaults

(* A response taken for another request's never makes the probe pass: a    *)
(* pass means that the engine answered the call, that ACK and BYE belonged *)
(* to that answer, and that audio of the call came after the digit.        *)
PassMeansConversation ==
    prPc = "pass" => /\ prTo = [to |-> "INVITE", code |-> "200"]
                     /\ enCall \in {"up", "over"}
                     /\ prDigit /\ prPreRx + FreshAudio <= enAudio
===============================================================================
