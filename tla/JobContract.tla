------------------------------ MODULE JobContract ------------------------------
(***************************************************************************)
(* What the queue promises of a job, whatever workers, retries, stalls and   *)
(* stops there are: it ends once, completed or failed, and stays so until it *)
(* is removed; a dead letter falls due with the failure and at no other      *)
(* time; it is then written, or lost with its process.  WorkerQueue is shown *)
(* to implement this.                                                        *)
(***************************************************************************)
CONSTANT Jobs

VARIABLES outcome,  \* [Jobs -> {"none", "open", "completed", "failed"}]
          letter    \* [Jobs -> {"none", "due", "written"}]

vars == <<outcome, letter>>

Init == /\ outcome = [j \in Jobs |-> "none"]
        /\ letter = [j \in Jobs |-> "none"]

Ends(j, how) == outcome[j] = "open" /\ outcome' = [outcome EXCEPT ![j] = how]

Accept(j) == /\ outcome[j] = "none"
             /\ outcome' = [outcome EXCEPT ![j] = "open"]
             /\ UNCHANGED letter

Complete(j) == Ends(j, "completed") /\ UNCHANGED letter

Fail(j) == /\ Ends(j, "failed") /\ letter[j] = "none"
           /\ \E l \in {"none", "due"} : letter' = [letter EXCEPT ![j] = l]

Write(j) == /\ letter[j] = "due"
            /\ letter' = [letter EXCEPT ![j] = "written"]
            /\ UNCHANGED outcome

\* A process stops with the writes of some letters under way.
Lose(S) == /\ \A j \in S : letter[j] = "due"
           /\ letter' = [j \in Jobs |-> IF j \in S THEN "none" ELSE letter[j]]
           /\ UNCHANGED outcome

Forget(j) == /\ outcome[j] \in {"completed", "failed"} /\ letter[j] # "due"
             /\ outcome' = [outcome EXCEPT ![j] = "none"]
             /\ letter' = [letter EXCEPT ![j] = "none"]

Next == \/ \E j \in Jobs : Accept(j) \/ Complete(j) \/ Fail(j) \/ Write(j) \/ Forget(j)
        \/ \E S \in SUBSET Jobs : Lose(S)

Spec == Init /\ [][Next]_vars
=============================================================================
