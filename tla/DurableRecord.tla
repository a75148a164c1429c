---------------------------- MODULE DurableRecord ----------------------------
(***************************************************************************)
(* What a caller of ota_metadata.c can rely on: a durable value, and       *)
(* commits that replace it in one indivisible step.  A crash or an error   *)
(* during a commit leaves either the old value or the new one, as          *)
(* docs/PHASE1-SPEC.md section 8 promises, for the first commit after a    *)
(* restart.  A later one may also take the value back to the one the       *)
(* restart loaded (Lose), which is the old value when there was no other   *)
(* commit in between.                                                      *)
(***************************************************************************)
CONSTANTS Body, Unset

VARIABLES
    value,      \* what a restart would load
    loaded,     \* what the last restart loaded
    proposal,   \* the value being committed
    answer      \* what the caller is told of its commit, until it has been

durableVars == <<value, loaded, proposal, answer>>

Init ==
    /\ value \in Body \cup {Unset}
    /\ loaded = value
    /\ proposal = Unset
    /\ answer = "none"

Propose(body) ==
    /\ proposal = Unset /\ answer = "none"
    /\ proposal' = body
    /\ UNCHANGED <<value, loaded, answer>>

(* A commit is acknowledged when, and only when, it has been applied.  The *)
(* first value of an unset record also counts as loaded.                   *)
Apply ==
    /\ proposal # Unset
    /\ value' = proposal
    /\ loaded' \in IF value = Unset THEN {loaded, proposal} ELSE {loaded}
    /\ proposal' = Unset
    /\ answer' = "ok"

Lose ==
    /\ proposal # Unset
    /\ value' = loaded
    /\ UNCHANGED <<loaded, proposal, answer>>

(* A commit that fails, and may lose what an earlier one wrote. *)
Abandon ==
    /\ proposal # Unset
    /\ value' \in {value, loaded}
    /\ proposal' = Unset
    /\ answer' = "failed"
    /\ UNCHANGED loaded

Report ==
    /\ answer # "none"
    /\ answer' = "none"
    /\ UNCHANGED <<value, loaded, proposal>>

(* A crash, at any time, also one that tears the page being replaced.      *)
Restart ==
    /\ proposal' = Unset
    /\ \/ UNCHANGED value
       \/ proposal # Unset /\ value' = loaded
    /\ loaded' = value'
    /\ answer' = "none"

Next ==
    \/ \E body \in Body : Propose(body)
    \/ Apply
    \/ Lose
    \/ Abandon
    \/ Report
    \/ Restart

Spec == Init /\ [][Next]_durableVars

=============================================================================
