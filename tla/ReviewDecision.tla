---------------------------- MODULE ReviewDecision ----------------------------
(***************************************************************************)
(* What the human review of translations promises: the review of a job is  *)
(* decided once, and the outcome recorded for a run is that decision.      *)
(***************************************************************************)
CONSTANTS Runs,   \* runs that wait for a human
          Jobs,
          JobOf   \* the job of each run

VARIABLES decision,  \* decision[j]: "none", "approved" or "rejected"
          outcome    \* outcome[r]: the same for a run, "pending" until known

reviewVars == <<decision, outcome>>

Init ==
  /\ decision = [j \in Jobs |-> "none"]
  /\ outcome = [r \in Runs |-> "pending"]

Decide(j, verdict) ==
  /\ decision[j] = "none"
  /\ decision' = [decision EXCEPT ![j] = verdict]
  /\ UNCHANGED outcome

Settle(r) ==
  /\ decision[JobOf[r]] # "none"
  /\ outcome' = [outcome EXCEPT ![r] = decision[JobOf[r]]]
  /\ UNCHANGED decision

Next ==
  \/ \E j \in Jobs, verdict \in {"approved", "rejected"} : Decide(j, verdict)
  \/ \E r \in Runs : Settle(r)

Spec == Init /\ [][Next]_reviewVars
=============================================================================
