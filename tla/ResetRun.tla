------------------------------- MODULE ResetRun -------------------------------
(***************************************************************************)
(* firmware/ata_reboot.py run: the whole reset of the adapter in one       *)
(* command.  It saves the configuration the adapter shows, makes a profile *)
(* that trips a reset and one that reverts it, starts a TFTP server for    *)
(* them in a thread, waits for one lease to be taken, swaps the profiles   *)
(* and polls until the adapter shows the saved configuration again.  The   *)
(* command may be repeated in the same work directory.                     *)
(***************************************************************************)
EXTENDS Naturals

CONSTANTS MaxTries,       \* how often the configuration is polled
          MaxResetRuns    \* bound on the runs

VARIABLES
    rrStep,        \* where cmd_run is
    rrNamed,       \* --tftp-name was given
    rrSaved,       \* the configuration saved as baseline
    rrCompiled,    \* the compiled profiles exist in the work directory
    rrThread,      \* the server's thread: "none", "started" or "dead"
    rrSocket,      \* the server's socket: "none" or "bound"
    rrPayload,     \* the profile served
    rrTries,       \* polls left
    rrRuns,        \* runs started
    atConfig,      \* the adapter: the configuration it holds
    atPhase,       \* the adapter: "up", or "boot" when it needs a lease
    atFetched      \* the profiles it was given in this run, in any order

rrServer == <<rrThread, rrSocket, rrPayload>>
rrLocal == <<rrNamed, rrSaved, rrTries, rrRuns>>
adapter == <<atConfig, atPhase, atFetched>>
rrVars == <<rrStep, rrLocal, rrCompiled, rrServer, adapter>>

RunOver == {"idle", "ok", "failed", "raised"}

ResetInit ==
    /\ rrStep = "idle" /\ rrNamed = FALSE /\ rrSaved = "base" /\ rrCompiled = FALSE
    /\ rrThread = "none" /\ rrSocket = "none" /\ rrPayload = "trip"
    /\ rrTries = 0 /\ rrRuns = 0
    /\ atConfig = "base" /\ atPhase = "up" /\ atFetched = {}

-----------------------------------------------------------------------------
StartReset(named) ==
    /\ rrStep \in RunOver /\ rrRuns < MaxResetRuns
    /\ rrStep' = "baseline" /\ rrNamed' = named /\ rrRuns' = rrRuns + 1
    /\ rrThread' = "none" /\ rrSocket' = "none" /\ rrPayload' = "trip"
    /\ atFetched' = {}
    /\ UNCHANGED <<rrSaved, rrTries, rrCompiled, atConfig, atPhase>>

(* The saved baseline is replaced by whatever the adapter shows now.       *)
CollectBaseline ==
    /\ rrStep = "baseline"
    /\ \/ /\ atPhase = "up"
          /\ rrSaved' = atConfig /\ rrStep' = "prepare"
       \/ rrStep' = "failed" /\ UNCHANGED rrSaved
    /\ UNCHANGED <<rrNamed, rrTries, rrRuns, rrCompiled, rrServer, adapter>>

(* fresh skips the test for old outputs but removes none: the converter    *)
(* refuses to replace them.                                                *)
PrepareProfiles ==
    /\ rrStep = "prepare"
    /\ rrStep' = IF rrCompiled THEN "failed" ELSE "serve"
    /\ rrCompiled' = TRUE
    /\ UNCHANGED <<rrLocal, rrServer, adapter>>

(* The server is made with no socket, and only its run method is called.   *)
StartThread ==
    /\ rrStep = "serve"
    /\ rrThread' = "started"
    /\ rrStep' = "lease"
    /\ UNCHANGED <<rrLocal, rrCompiled, rrSocket, rrPayload, adapter>>

(* select of a missing socket raises in the thread; cmd_run does not look. *)
ThreadRuns ==
    /\ rrThread = "started" /\ rrSocket = "none"
    /\ rrThread' = "dead"
    /\ UNCHANGED <<rrStep, rrLocal, rrCompiled, rrSocket, rrPayload, adapter>>

(* run_dhcp returns when the adapter took a lease, for whatever reason.    *)
LeaseTaken ==
    /\ rrStep = "lease" /\ atPhase = "boot"
    /\ atPhase' = "up"
    /\ rrStep' = "swap"
    /\ UNCHANGED <<rrLocal, rrCompiled, rrServer, atConfig, atFetched>>

LeaseTimesOut ==
    /\ rrStep = "lease"
    /\ rrStep' = "failed"
    /\ UNCHANGED <<rrLocal, rrCompiled, rrServer, adapter>>

(* Without a name there is no dictionary of payloads to swap in.           *)
SwapProfiles ==
    /\ rrStep = "swap"
    /\ IF rrNamed THEN rrPayload' = "revert" /\ rrStep' = "verify" /\ rrTries' = MaxTries
                  ELSE rrStep' = "raised" /\ UNCHANGED <<rrPayload, rrTries>>
    /\ UNCHANGED <<rrNamed, rrSaved, rrRuns, rrCompiled, rrThread, rrSocket, adapter>>

PollBaseline ==
    /\ rrStep = "verify"
    /\ \/ /\ atPhase = "up" /\ atConfig = rrSaved
          /\ rrStep' = "ok" /\ UNCHANGED rrTries
       \/ /\ atPhase = "boot" \/ atConfig # rrSaved
          /\ rrTries' = rrTries - 1
          /\ rrStep' = IF rrTries = 1 THEN "failed" ELSE "verify"
    /\ UNCHANGED <<rrNamed, rrSaved, rrRuns, rrCompiled, rrServer, adapter>>

-----------------------------------------------------------------------------
(* The adapter: it asks for its profile now and then and resets when what  *)
(* it is given differs; it may be powered off and on at any time.          *)
AdapterFetches ==
    /\ atPhase = "up" /\ rrThread = "started" /\ rrSocket = "bound"
    /\ atFetched' = atFetched \cup {rrPayload}
    /\ atConfig' = IF rrPayload = "trip" THEN "tripped" ELSE "base"
    /\ atPhase' = IF atConfig' # atConfig THEN "boot" ELSE "up"
    /\ UNCHANGED <<rrStep, rrLocal, rrCompiled, rrServer>>

AdapterPowerCycled ==
    /\ atPhase = "up"
    /\ atPhase' = "boot"
    /\ UNCHANGED <<rrStep, rrLocal, rrCompiled, rrServer, atConfig, atFetched>>

ResetNext == \/ \E named \in BOOLEAN : StartReset(named)
             \/ CollectBaseline \/ PrepareProfiles \/ StartThread \/ ThreadRuns
             \/ LeaseTaken \/ LeaseTimesOut \/ SwapProfiles \/ PollBaseline
             \/ AdapterFetches \/ AdapterPowerCycled

ResetSpec == ResetInit /\ [][ResetNext]_rrVars

-----------------------------------------------------------------------------
ResetTypeOK ==
    /\ rrStep \in RunOver \cup {"baseline", "prepare", "serve", "lease", "swap", "verify"}
    /\ rrThread \in {"none", "started", "dead"} /\ rrSocket \in {"none", "bound"}
    /\ rrTries \in 0 .. MaxTries
    /\ atConfig \in {"base", "tripped"} /\ atPhase \in {"up", "boot"}

(* What cmd_run says of itself: "trip payload on the config poll, reset    *)
(* detected via the post-reset DISCOVER, revert payload swapped BEFORE the *)
(* boot fetch, then convergence verified".  A run that ends well has given *)
(* the adapter both profiles.                                              *)
SuccessfulRunMeansReset == rrStep = "ok" => atFetched = {"trip", "revert"}
===============================================================================
