--------------------------- MODULE CommandLifecycle ---------------------------
(***************************************************************************)
(* What the hub promises about remote commands, without saying how they    *)
(* are delivered: a command is submitted once, the Runtime decides at most *)
(* once and only what was submitted, and the hub settles it at most once,  *)
(* with the Runtime's decision or with an admission that it knows of none. *)
(***************************************************************************)
CONSTANT Command

VARIABLES ledger, decision

lifecycleVars == <<ledger, decision>>

\* The decision a verdict reports; the other verdicts report none.
Reports == [succeeded |-> "accepted", rejected |-> "refused", conflict |-> "conflicted"]

Init ==
    /\ ledger = [c \in Command |-> "absent"]
    /\ decision = [c \in Command |-> "none"]

Submit(c) ==
    /\ ledger[c] = "absent"
    /\ ledger' = [ledger EXCEPT ![c] = "open"]
    /\ UNCHANGED decision

\* The Runtime may well decide after the hub has given the command up.
Decide(c) ==
    /\ ledger[c] # "absent"
    /\ decision[c] = "none"
    /\ \E d \in {"accepted", "refused", "conflicted"} :
        decision' = [decision EXCEPT ![c] = d]
    /\ UNCHANGED ledger

Settle(c) ==
    /\ ledger[c] = "open"
    /\ \/ \E outcome \in DOMAIN Reports :
            /\ decision[c] = Reports[outcome]
            /\ ledger' = [ledger EXCEPT ![c] = outcome]
       \/ \E outcome \in {"expired", "failed"} : ledger' = [ledger EXCEPT ![c] = outcome]
    /\ UNCHANGED decision

Next == \E c \in Command : Submit(c) \/ Decide(c) \/ Settle(c)

Spec == Init /\ [][Next]_lifecycleVars
===============================================================================
