---------------------------- MODULE PrivateOutput ----------------------------
(***************************************************************************)
(* What publishing a private output promises, whatever tool does it: a     *)
(* name holds nothing or one complete file, a file is never replaced, a    *)
(* report of success means that every output is there and a report of      *)
(* failure, for the tools that publish a set of files, that none is unless *)
(* the file system refused to take it away again.                          *)
(***************************************************************************)
CONSTANTS Publisher,  \* runs of the tools that share a directory
          Output,     \* output names in it
          Unowned,    \* the owner of a free name
          Wanted,     \* per run: the names it publishes
          Withdraws,  \* the runs whose failure leaves none of their outputs
          Durable     \* the runs whose success survives a power loss

VARIABLES slot,       \* whose complete file each name holds
          verdict,    \* what each run has reported
          hindered    \* the runs that could not take their outputs back

promiseVars == <<slot, verdict, hindered>>

PromiseInit == /\ slot = [t \in Output |-> Unowned]
               /\ verdict = [p \in Publisher |-> "open"]
               /\ hindered = {}

Publish(p, t) == /\ verdict[p] = "open" /\ t \in Wanted[p] /\ slot[t] = Unowned
                 /\ slot' = [slot EXCEPT ![t] = p]
                 /\ UNCHANGED <<verdict, hindered>>

Withdraw(p, t) == /\ verdict[p] = "open" /\ slot[t] = p
                  /\ slot' = [slot EXCEPT ![t] = Unowned]
                  /\ UNCHANGED <<verdict, hindered>>

Succeed(p) == /\ verdict[p] = "open"
              /\ \A t \in Wanted[p] : slot[t] = p
              /\ verdict' = [verdict EXCEPT ![p] = "ok"]
              /\ UNCHANGED <<slot, hindered>>

Refuse(p) == /\ verdict[p] = "open"
             /\ hindered' \in {hindered, hindered \cup {p}}
             /\ p \in Withdraws \ hindered' => \A t \in Output : slot[t] # p
             /\ verdict' = [verdict EXCEPT ![p] = "failed"]
             /\ UNCHANGED slot

(* A name that the run published cannot be taken away.                     *)
Hinder(p, t) == /\ verdict[p] = "open" /\ slot[t] = p
                /\ hindered' = hindered \cup {p}
                /\ UNCHANGED <<slot, verdict>>

Die(p) == /\ verdict[p] = "open"
          /\ verdict' = [verdict EXCEPT ![p] = "dead"]
          /\ UNCHANGED <<slot, hindered>>

(* What was not yet safe on disk may be lost or come back, but whole.      *)
Outage ==
    /\ verdict' = [p \in Publisher |-> IF verdict[p] = "open" THEN "dead" ELSE verdict[p]]
    /\ slot' \in [Output -> Publisher \cup {Unowned}]
    /\ \A t \in Output : \A p \in Durable :
          verdict[p] = "ok" /\ slot[t] = p => slot'[t] = p
    /\ UNCHANGED hindered

PromiseNext == \/ \E p \in Publisher, t \in Output : Publish(p, t) \/ Withdraw(p, t) \/ Hinder(p, t)
               \/ \E p \in Publisher : Succeed(p) \/ Refuse(p) \/ Die(p)
               \/ Outage

PromiseSpec == PromiseInit /\ [][PromiseNext]_promiseVars
===============================================================================
