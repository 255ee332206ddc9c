------------------------------ MODULE StackOps ------------------------------
(***************************************************************************)
(* deploy/common.sh: create_or_update_stack and delete_stack for one       *)
(* CloudFormation stack.  The script asks for operations that CloudFormation *)
(* carries out in its own time, may be interrupted by the operator between *)
(* any two commands, and is run again.  A describe call that fails reads   *)
(* as "does not exist".                                                    *)
(***************************************************************************)
EXTENDS Naturals

CONSTANTS
    Attempts        \* STACK_CREATE_ATTEMPTS

ASSUME ConstantsAssumption == Attempts \in Nat \ {0}

VARIABLES
    flaky,      \* whether a describe call may fail (throttling, the network)
    slow,       \* whether an operation may outlast STACK_SETTLE_TIMEOUT
    status,     \* the stack's, "NONE" if there is none
    doomed,     \* why the creation in progress will fail: "no", "transient", "permanent"
    pc,         \* where the script is
    seen,       \* current_status
    attempt,
    then,       \* where delete_stack returns to
    params,     \* the parameter file, with the BMC password, is on the disk
    result,     \* of the last run
    misled      \* in this run a describe call failed or a wait was cut short (history)

env    == <<flaky, slow>>
aws    == <<status, doomed>>
script == <<pc, seen, attempt, then, params, result, misled>>
vars   == <<env, aws, script>>

InProgress   == {"CREATE_IN_PROGRESS", "ROLLBACK_IN_PROGRESS", "UPDATE_IN_PROGRESS",
                 "UPDATE_ROLLBACK_IN_PROGRESS", "DELETE_IN_PROGRESS"}
NeverCreated == {"ROLLBACK_COMPLETE", "ROLLBACK_FAILED", "CREATE_FAILED", "REVIEW_IN_PROGRESS"}
Working      == {"CREATE_COMPLETE", "UPDATE_COMPLETE", "UPDATE_ROLLBACK_COMPLETE"}
Broken       == {"UPDATE_ROLLBACK_FAILED", "DELETE_FAILED"}
Statuses     == InProgress \cup NeverCreated \cup Working \cup Broken \cup {"NONE"}
Places       == {"out", "settle", "triage", "branch", "update", "updating", "create",
                 "creating", "reasons", "delete", "deleting"}

TypeOK ==
    /\ flaky \in BOOLEAN
    /\ slow \in BOOLEAN
    /\ status \in Statuses
    /\ doomed \in {"no", "transient", "permanent"}
    /\ pc \in Places
    /\ seen \in Statuses
    /\ attempt \in 1..Attempts
    /\ then \in {"branch", "create"}
    /\ params \in BOOLEAN
    /\ result \in {"none", "ok", "died"}
    /\ misled \in BOOLEAN

\* The settings of flaky and slow are those of the environment, for good.
Init ==
    /\ flaky \in BOOLEAN
    /\ slow \in BOOLEAN
    /\ status \in Statuses \ InProgress
    /\ doomed = "no"
    /\ pc = "out"
    /\ seen = "NONE"
    /\ attempt = 1
    /\ then = "branch"
    /\ params = FALSE
    /\ result = "none"
    /\ misled = FALSE

\* What describe-stacks says of the stack.
Describe == {status} \cup (IF flaky THEN {"NONE"} ELSE {})

\* The script goes on with the answer s.
Hears(s) == s \in Describe /\ misled' = (misled \/ s # status)

-----------------------------------------------------------------------------
(* create_or_update_stack.                                                 *)

\* die, after removing the parameter file.
Die == pc' = "out" /\ result' = "died" /\ params' = FALSE

\* set -e: a command failed and nothing after it runs.
Abort == pc' = "out" /\ result' = "died" /\ UNCHANGED params

Ok == pc' = "out" /\ result' = "ok" /\ params' = FALSE

Run ==
    /\ pc = "out"
    /\ params' = TRUE
    /\ seen' \in Describe
    /\ misled' = (seen' # status)
    /\ attempt' = 1
    /\ result' = "none"
    /\ pc' = "settle"
    /\ UNCHANGED <<aws, then>>

\* Mutant: a stack under review counts as in flight.
SettleReview ==
    /\ pc = "settle"
    /\ IF seen \in InProgress \cup {"REVIEW_IN_PROGRESS"}
       THEN \E s \in Describe : Hears(s) /\ seen' = s /\ UNCHANGED pc
       ELSE pc' = "triage" /\ UNCHANGED <<seen, misled>>
    /\ UNCHANGED <<aws, attempt, then, params, result>>

\* Polling while an operation is in flight, for an hour at most.
Settle ==
    /\ pc = "settle"
    /\ IF seen \in InProgress
       THEN \/ \E s \in Describe : Hears(s) /\ seen' = s /\ UNCHANGED pc
            \/ slow /\ pc' = "triage" /\ misled' = TRUE /\ UNCHANGED seen
       ELSE pc' = "triage" /\ UNCHANGED <<seen, misled>>
    /\ UNCHANGED <<aws, attempt, then, params, result>>

\* Mutant: anything but a working stack is deleted and made anew.
TriageAll ==
    /\ pc = "triage"
    /\ IF seen \notin Working
       THEN pc' = "delete" /\ then' = "branch"
       ELSE pc' = "branch" /\ UNCHANGED then
    /\ UNCHANGED <<aws, seen, attempt, params, result, misled>>

\* Mutant: a stack whose creation rolled back is left to be updated.
TriageNone ==
    /\ pc = "triage"
    /\ pc' = "branch"
    /\ UNCHANGED <<aws, seen, attempt, then, params, result, misled>>

\* A stack that was never created can only be deleted and made anew.
Triage ==
    /\ pc = "triage"
    /\ IF seen \in NeverCreated
       THEN pc' = "delete" /\ then' = "branch"
       ELSE pc' = "branch" /\ UNCHANGED then
    /\ UNCHANGED <<aws, seen, attempt, params, result, misled>>

Branch ==
    /\ pc = "branch"
    /\ \E s \in Describe : Hears(s) /\ pc' = IF s = "NONE" THEN "create" ELSE "update"
    /\ UNCHANGED <<aws, seen, attempt, then, params, result>>

\* update-stack: accepted, refused as a no-op, or refused.
Update ==
    /\ pc = "update"
    /\ \/ /\ status \in Working
          /\ status' = "UPDATE_IN_PROGRESS" /\ pc' = "updating"
          /\ UNCHANGED <<doomed, params, result>>
       \/ status \in Working /\ Ok /\ UNCHANGED aws
       \/ Die /\ UNCHANGED aws
    /\ UNCHANGED <<seen, attempt, then, misled>>

Updating ==
    /\ pc = "updating"
    /\ \/ status = "UPDATE_COMPLETE" /\ Ok
       \/ status \notin InProgress \cup {"UPDATE_COMPLETE"} /\ Die
       \/ flaky /\ (Die \/ Abort)
    /\ UNCHANGED <<aws, seen, attempt, then, misled>>

\* create-stack is refused if the stack is there after all.
Create ==
    /\ pc = "create"
    /\ IF status = "NONE"
       THEN /\ status' = "CREATE_IN_PROGRESS"
            /\ doomed' \in {"no", "transient", "permanent"}
            /\ pc' = "creating"
            /\ UNCHANGED <<params, result>>
       ELSE Abort /\ UNCHANGED aws
    /\ UNCHANGED <<seen, attempt, then, misled>>

\* Mutant: the creation is over, so the stack is there.
CreatingIgnored ==
    /\ pc = "creating"
    /\ status # "CREATE_IN_PROGRESS"
    /\ Ok
    /\ UNCHANGED <<aws, seen, attempt, then, misled>>

\* The wait also ends, as a failure, when its own polling fails.
Creating ==
    /\ pc = "creating"
    /\ \/ status = "CREATE_COMPLETE" /\ Ok
       \/ /\ status \notin {"CREATE_IN_PROGRESS", "CREATE_COMPLETE"}
          /\ pc' = "reasons" /\ UNCHANGED <<params, result>>
       \/ flaky /\ pc' = "reasons" /\ UNCHANGED <<params, result>>
    /\ UNCHANGED <<aws, seen, attempt, then, misled>>

\* The failed events name the cause; a transient one is worth another attempt.
Reasons ==
    /\ pc = "reasons"
    /\ \/ /\ attempt < Attempts
          /\ doomed = "transient" /\ status # "CREATE_IN_PROGRESS"
          /\ attempt' = attempt + 1 /\ then' = "create" /\ pc' = "delete"
          /\ UNCHANGED <<params, result>>
       \/ /\ attempt = Attempts \/ doomed # "transient" \/ status = "CREATE_IN_PROGRESS"
          /\ Die
          /\ UNCHANGED <<attempt, then>>
       \/ flaky /\ Abort /\ UNCHANGED <<attempt, then>>     \* no events: grep's line fails
    /\ UNCHANGED <<aws, seen, misled>>

-----------------------------------------------------------------------------
(* delete_stack.                                                           *)

Delete ==
    /\ pc = "delete"
    /\ \E s \in Describe :
          /\ Hears(s)
          /\ \/ s = "NONE" /\ pc' = then /\ UNCHANGED status
             \/ s # "NONE" /\ pc' = "deleting" /\ status' = "DELETE_IN_PROGRESS"
    /\ UNCHANGED <<doomed, seen, attempt, then, params, result>>

\* Mutant: nobody waits for the deletion.
DeletingUnwaited ==
    /\ pc = "deleting"
    /\ pc' = then
    /\ UNCHANGED <<aws, seen, attempt, then, params, result, misled>>

Deleting ==
    /\ pc = "deleting"
    /\ \/ status = "NONE" /\ pc' = then /\ UNCHANGED <<params, result>>
       \/ (status = "DELETE_FAILED" \/ flaky) /\ Abort
    /\ UNCHANGED <<aws, seen, attempt, then, misled>>

\* The operator interrupts the script; nothing traps the signal.
Interrupt ==
    /\ pc # "out"
    /\ Abort
    /\ UNCHANGED <<aws, seen, attempt, then, misled>>

Step == \/ Settle \/ Triage \/ Branch \/ Update \/ Updating \/ Create \/ Creating
        \/ Reasons \/ Delete \/ Deleting

-----------------------------------------------------------------------------
(* CloudFormation.                                                         *)

Becomes(s) == status' = s /\ UNCHANGED <<doomed, script>>

Finish ==
    \/ /\ status = "CREATE_IN_PROGRESS"
       /\ IF doomed = "no" THEN Becomes("CREATE_COMPLETE") ELSE Becomes("ROLLBACK_IN_PROGRESS")
    \/ /\ status = "ROLLBACK_IN_PROGRESS"
       /\ Becomes("ROLLBACK_COMPLETE") \/ Becomes("ROLLBACK_FAILED")
    \/ /\ status = "UPDATE_IN_PROGRESS"
       /\ Becomes("UPDATE_COMPLETE") \/ Becomes("UPDATE_ROLLBACK_IN_PROGRESS")
    \/ /\ status = "UPDATE_ROLLBACK_IN_PROGRESS"
       /\ Becomes("UPDATE_ROLLBACK_COMPLETE") \/ Becomes("UPDATE_ROLLBACK_FAILED")
    \/ /\ status = "DELETE_IN_PROGRESS"
       /\ Becomes("NONE") \/ Becomes("DELETE_FAILED")

Proceed == Step /\ UNCHANGED env
Settles == Finish /\ UNCHANGED env
Next    == Proceed \/ Settles \/ ((Run \/ Interrupt) /\ UNCHANGED env)

\* The script goes on and CloudFormation finishes what it began; the operator
\* need not run the script, nor interrupt it.
Spec == Init /\ [][Next]_vars /\ WF_vars(Proceed) /\ WF_vars(Settles)

-----------------------------------------------------------------------------
(* Properties.                                                             *)

Deletes == pc = "delete" /\ status' = "DELETE_IN_PROGRESS"

\* create_or_update_stack never deletes a stack that works: a retry throws away
\* the attempt that failed and never "a healthy, already-running g4dn.metal"
\* (lines 220-223), whatever was in flight when it started.
NeverDeletesWorking == [][Deletes => status \notin Working \cup {"CREATE_IN_PROGRESS"}]_vars

\* Success is said of a stack that works, also after CloudFormation's rollbacks.
OkMeansWorking == result = "ok" /\ pc = "out" => status \in Working

\* Every run ends: polling and waits do not go on for ever.
RunEnds == pc = "settle" ~> pc = "out"

\* Unless it was misled, a run asks to update only a stack that CloudFormation has
\* finished with and whose creation did not fail: what "cannot be updated, only
\* deleted and recreated" (lines 179-180) has been deleted before.  A stack left over
\* by a failed update's rollback or a failed deletion, also that of a failed
\* creation, is not told from a working one: it is asked to update too, and refuses.
UpdatesSettled == pc = "update" /\ ~misled => status \in Working \cup Broken

\* A stack is created only where none is: each retry has waited until nothing is
\* left of the attempt before.
CreatesAnew == pc = "create" /\ ~misled => status = "NONE"

\* An unmisled run asks for nothing while CloudFormation is still at work, and
\* chooses between the update and the creation by what is there
\* (create_or_update_stack).
AsksOfSettledStack == UpdatesSettled /\ CreatesAnew
=============================================================================
