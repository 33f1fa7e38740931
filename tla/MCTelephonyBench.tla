---------------------------- MODULE MCTelephonyBench ----------------------------
(* The programs of the telephony bench that share no state, on small inputs: *)
(* each behaviour runs one of them, chosen at the start.                     *)
EXTENDS TftpServer, SkinnyFixture, AudioSocketAgent, MediaSessions, WebPhone,
        SipProbe, FeedCache, TLC

VARIABLE program

(* "cfg" ends with a short block, "bin" is one full block exactly.           *)
Files == {"cfg", "bin"}
Full == [f \in Files |-> 1]
Tails == [f \in Files |-> f = "cfg"]
Times == {7}

(* app and codec need each other, and app needs libc, which the base image     *)
(* provides.                                                                   *)
CONSTANTS app, codec, libc
SearchOrder == <<"base", "packages">>
Depends == (app :> {codec, libc}) @@ (codec :> {app}) @@ (libc :> {})

Programs == {"tftp", "skinny", "agent", "media", "phone", "probe", "feed"}

BenchInit == /\ program \in Programs
             /\ ServerInit /\ SkinnyInit /\ AgentInit /\ MediaInit /\ WebInit
             /\ ProbeInit /\ FeedInit
             /\ program # "media" => mdKind = "rtp"

TelephonyNext ==
    \/ program = "tftp" /\ ServerNext
         /\ UNCHANGED <<program, skVars, agVars, mdVars, wpVars, probeVars, fcVars>>
    \/ program = "skinny" /\ SkinnyNext
         /\ UNCHANGED <<program, serverVars, agVars, mdVars, wpVars, probeVars, fcVars>>
    \/ program = "agent" /\ AgentNext
         /\ UNCHANGED <<program, serverVars, skVars, mdVars, wpVars, probeVars, fcVars>>
    \/ program = "media" /\ MediaNext
         /\ UNCHANGED <<program, serverVars, skVars, agVars, wpVars, probeVars, fcVars>>
    \/ program = "phone" /\ WebNext
         /\ UNCHANGED <<program, serverVars, skVars, agVars, mdVars, probeVars, fcVars>>
    \/ program = "probe" /\ ProbeNext
         /\ UNCHANGED <<program, serverVars, skVars, agVars, mdVars, wpVars, fcVars>>
    \/ program = "feed" /\ FeedNext
         /\ UNCHANGED <<program, serverVars, skVars, agVars, mdVars, wpVars, probeVars>>

telephonyVars == <<program, serverVars, skVars, agVars, mdVars, wpVars, probeVars, fcVars>>

(* Only the agent is promised to make progress: see AgentFairness.           *)
TelephonyBench == BenchInit /\ [][TelephonyNext]_telephonyVars /\ AgentFairness

(* The variables of every program have their types.                          *)
TelephonyTypeOK == /\ ServerTypeOK /\ SkinnyTypeOK /\ AgentTypeOK /\ MediaTypeOK
                   /\ WebTypeOK /\ ProbeTypeOK /\ FeedTypeOK
=================================================================================
