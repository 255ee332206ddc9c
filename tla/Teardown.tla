------------------------------ MODULE Teardown ------------------------------
(***************************************************************************)
(* make destroy and make destroy-acm: destroy.sh, destroy-acm.sh and the   *)
(* delete_stack they call, over the stacks of the two sites.  destroy.sh   *)
(* runs destroy-acm.sh, and the deletion of two stacks of its own, in the  *)
(* background; CloudFormation deletes a stack in its own time and refuses  *)
(* while another stack still uses it.                                      *)
(***************************************************************************)
EXTENDS Naturals, FiniteSets

CONSTANTS
    TnfLbs, AcmLbs,     \* load balancers of guests, by the VPC they are in
    MaxFaults           \* bound: failing calls, failing deletions and interruptions

Tnf    == {"network", "services", "compute", "bootstrap"}
Acm    == {"acm-network", "acm-services", "acm-sno", "acm-bootstrap"}
Lbs    == TnfLbs \cup AcmLbs
Stacks == Tnf \cup Acm \cup Lbs \cup {"peering"}

ASSUME ConstantsAssumption ==
    /\ MaxFaults \in Nat
    /\ TnfLbs \cap AcmLbs = {}
    /\ Lbs \cap (Tnf \cup Acm \cup {"peering"}) = {}

\* Whose resources sit in whose.
Uses ==
    ((Tnf \ {"network"}) \cup TnfLbs \cup {"peering"}) \X {"network"}
    \cup ((Acm \ {"acm-network"}) \cup AcmLbs \cup {"peering"}) \X {"acm-network"}

Users(s) == {u \in Stacks : <<u, s>> \in Uses}

\* Which stack stands before the stage that creates which.
Stages ==
    {<<"network", "services">>, <<"services", "compute">>, <<"compute", "bootstrap">>,
     <<"acm-network", "acm-services">>, <<"acm-services", "acm-sno">>,
     <<"acm-sno", "acm-bootstrap">>, <<"services", "peering">>, <<"acm-services", "peering">>}
    \cup {"services"} \X TnfLbs \cup {"acm-sno"} \X AcmLbs

VARIABLES
    stack,      \* "standing", "hidden" (no list-stacks filter names its status),
                \* "deleting", "failed" or "none"
    job,        \* each delete_stack call: "none", "ask", "wait", "done", "failed"
    main,       \* where destroy.sh is
    acm,        \* where destroy-acm.sh is
    lbs,        \* the load balancers it has yet to delete
    recorded,   \* STATE_DIR holds what the stages recorded
    acmRecorded,
    faults,
    misled      \* in this run a call failed and its answer read as absence (history)

scripts == <<job, main, acm, lbs>>
records == <<recorded, acmRecorded>>
trouble == <<faults, misled>>
vars    == <<stack, scripts, records, trouble>>

Exists(s) == stack[s] # "none"
Ended(s)  == job[s] \in {"done", "failed"}
Quiet     == main = "out" /\ acm = "off" /\ \A s \in Stacks : job[s] \notin {"ask", "wait"}

TypeOK ==
    /\ stack \in [Stacks -> {"standing", "hidden", "deleting", "failed", "none"}]
    /\ job \in [Stacks -> {"none", "ask", "wait", "done", "failed"}]
    /\ main \in {"out", "parallel", "services", "network"}
    /\ acm \in {"off", "peering", "instances", "lbs", "services", "network", "done", "failed"}
    /\ lbs \subseteq Lbs
    /\ recorded \in BOOLEAN
    /\ acmRecorded \in BOOLEAN
    /\ faults \in 0..MaxFaults
    /\ misled \in BOOLEAN

\* Any part of an environment that the stages, in their order, can have left.
\* make clean leaves the load balancers of guests that were on the TNF nodes.
Init ==
    /\ stack \in [Stacks -> {"standing", "hidden", "none"}]
    /\ \A s \in Stacks \ Lbs : stack[s] # "hidden"
    /\ \A stage \in Stages : Exists(stage[2]) => Exists(stage[1])
    /\ job = [s \in Stacks |-> "none"]
    /\ main = "out"
    /\ acm = "off"
    /\ lbs = {}
    /\ recorded = TRUE
    /\ acmRecorded = TRUE
    /\ faults = 0
    /\ misled = FALSE

Fault  == faults < MaxFaults /\ faults' = faults + 1
Honest == UNCHANGED trouble
Lies   == Fault /\ misled' = TRUE

-----------------------------------------------------------------------------
(* delete_stack.                                                           *)

Becomes(s, j) == job' = [job EXCEPT ![s] = j]

\* A describe call that fails reads as a stack that does not exist.
Ask(s) ==
    /\ job[s] = "ask"
    /\ \/ ~Exists(s) /\ Becomes(s, "done") /\ Honest /\ UNCHANGED stack
       \/ Exists(s) /\ Becomes(s, "wait") /\ Honest /\ stack' = [stack EXCEPT ![s] = "deleting"]
       \/ Exists(s) /\ Becomes(s, "done") /\ Lies /\ UNCHANGED stack
       \/ Exists(s) /\ Becomes(s, "failed") /\ Fault /\ UNCHANGED <<stack, misled>>
    /\ UNCHANGED <<main, acm, lbs, records>>

\* The wait fails with the deletion, or when its own polling does.
Wait(s) ==
    /\ job[s] = "wait"
    /\ \/ ~Exists(s) /\ Becomes(s, "done") /\ Honest
       \/ stack[s] = "failed" /\ Becomes(s, "failed") /\ Honest
       \/ Exists(s) /\ Becomes(s, "failed") /\ Fault /\ UNCHANGED misled
    /\ UNCHANGED <<stack, main, acm, lbs, records>>

\* The calls of delete_stack for the stacks in S begin.
Launch(S) == job' = [s \in Stacks |-> IF s \in S THEN "ask" ELSE job[s]]

-----------------------------------------------------------------------------
(* destroy-acm.sh, by itself or as a part of destroy.sh.                   *)

\* What destroy.sh learns of its end, or nobody.
AcmExit(how) ==
    /\ acm' = IF main = "out" THEN "off" ELSE how
    /\ lbs' = {}
    /\ UNCHANGED job

DestroyAcm ==
    /\ Quiet
    /\ acm' = "peering"
    /\ job' = [s \in Stacks |-> IF s = "peering" THEN "ask" ELSE "none"]
    /\ misled' = FALSE
    /\ UNCHANGED <<stack, main, lbs, records, faults>>

\* set -e: a part of the serial order failed and nothing after it runs.
AcmDies(S) ==
    /\ \A s \in S : Ended(s)
    /\ \E s \in S : job[s] = "failed"
    /\ AcmExit("failed")
    /\ UNCHANGED <<stack, main, records, trouble>>

AcmInstances ==
    /\ acm = "peering"
    /\ \/ /\ job["peering"] = "done"
          /\ acm' = "instances"
          /\ Launch({"acm-bootstrap", "acm-sno"})
          /\ UNCHANGED <<stack, main, lbs, records, trouble>>
       \/ AcmDies({"peering"})

\* Mutant: the names of one of the two kinds of load balancer are left out.
ListedTnf == {l \in TnfLbs : stack[l] = "standing"}

\* What has a status that the list-stacks filter of destroy-acm.sh names.
Listed == {l \in Lbs : stack[l] = "standing"}

\* The list is taken when both instances are gone; a failing call gives none.
AcmList ==
    /\ acm = "instances"
    /\ \/ /\ \A s \in {"acm-bootstrap", "acm-sno"} : job[s] = "done"
          /\ acm' = "lbs"
          /\ \/ lbs' = Listed /\ Honest
             \/ lbs' = {} /\ Lies
          /\ UNCHANGED <<stack, job, main, records>>
       \/ AcmDies({"acm-bootstrap", "acm-sno"})

\* One load balancer after the other.
AcmLb ==
    /\ acm = "lbs"
    /\ \E l \in lbs :
          \/ /\ job[l] = "none" /\ \A k \in lbs \ {l} : job[k] = "none"
             /\ Launch({l})
             /\ UNCHANGED <<stack, main, acm, lbs, records, trouble>>
          \/ /\ job[l] = "done" /\ lbs' = lbs \ {l}
             /\ UNCHANGED <<stack, job, main, acm, records, trouble>>
          \/ AcmDies({l})

AcmServices ==
    /\ acm = "lbs"
    /\ lbs = {}
    /\ acm' = "services"
    /\ Launch({"acm-services"})
    /\ UNCHANGED <<stack, main, lbs, records, trouble>>

AcmNetwork ==
    /\ acm = "services"
    /\ \/ /\ job["acm-services"] = "done"
          /\ acm' = "network"
          /\ Launch({"acm-network"})
          /\ UNCHANGED <<stack, main, lbs, records, trouble>>
       \/ AcmDies({"acm-services"})

AcmEnd ==
    /\ acm = "network"
    /\ \/ /\ job["acm-network"] = "done"
          /\ AcmExit("done")
          /\ acmRecorded' = FALSE
          /\ UNCHANGED <<stack, main, recorded, trouble>>
       \/ AcmDies({"acm-network"})

AcmStep == AcmInstances \/ AcmList \/ AcmLb \/ AcmServices \/ AcmNetwork \/ AcmEnd

-----------------------------------------------------------------------------
(* destroy.sh.                                                             *)

\* The ACM site is looked for by its peering and its network.
Destroy ==
    /\ Quiet
    /\ \E seen \in BOOLEAN :
          /\ \/ seen = (Exists("peering") \/ Exists("acm-network"))
                /\ misled' = FALSE /\ UNCHANGED faults
             \/ ~seen /\ (Exists("peering") \/ Exists("acm-network")) /\ Lies
          /\ acm' = IF seen THEN "peering" ELSE "off"
          /\ job' = [s \in Stacks |->
                       IF s \in {"bootstrap", "compute"} \cup (IF seen THEN {"peering"} ELSE {})
                       THEN "ask" ELSE "none"]
    /\ main' = "parallel"
    /\ UNCHANGED <<stack, lbs, records>>

Out == main' = "out" /\ acm' = "off" /\ job' = [s \in Stacks |-> "none"]
Die == Out /\ UNCHANGED records

\* Mutant: the outcome of the parts that ran in parallel is not looked at.
ServicesWhatever ==
    /\ main = "parallel"
    /\ acm \in {"off", "done", "failed"} /\ Ended("bootstrap") /\ Ended("compute")
    /\ main' = "services" /\ Launch({"services"}) /\ UNCHANGED <<acm, records>>
    /\ UNCHANGED <<stack, lbs, trouble>>

\* All parts are waited for, whether or not one of them has failed.
Services ==
    /\ main = "parallel"
    /\ acm \in {"off", "done", "failed"} /\ Ended("bootstrap") /\ Ended("compute")
    /\ IF acm = "failed" \/ "failed" \in {job["bootstrap"], job["compute"]}
       THEN Die
       ELSE main' = "services" /\ Launch({"services"}) /\ UNCHANGED <<acm, records>>
    /\ UNCHANGED <<stack, lbs, trouble>>

Network ==
    /\ main = "services"
    /\ Ended("services")
    /\ IF job["services"] = "failed"
       THEN Die
       ELSE main' = "network" /\ Launch({"network"}) /\ UNCHANGED <<acm, records>>
    /\ UNCHANGED <<stack, lbs, trouble>>

\* Mutant: the records are removed whatever became of the network.
EndAnyhow ==
    /\ main = "network"
    /\ Ended("network")
    /\ Out /\ recorded' = FALSE /\ acmRecorded' = FALSE
    /\ UNCHANGED <<stack, lbs, trouble>>

\* rm -rf STATE_DIR, which holds ACM_STATE_DIR too.
End ==
    /\ main = "network"
    /\ Ended("network")
    /\ IF job["network"] = "failed"
       THEN Die
       ELSE Out /\ recorded' = FALSE /\ acmRecorded' = FALSE
    /\ UNCHANGED <<stack, lbs, trouble>>

MainStep == Services \/ Network \/ End

-----------------------------------------------------------------------------
(* The operator and CloudFormation.                                        *)

\* The terminal is lost, and everything that ran in it.
Hangup ==
    /\ ~Quiet
    /\ Fault
    /\ Out
    /\ lbs' = {}
    /\ UNCHANGED <<stack, records, misled>>

\* Ctrl-C ends destroy.sh; a shell's background jobs ignore it and go on.
CtrlC ==
    /\ main = "parallel"
    /\ Fault
    /\ main' = "out"
    /\ acm' = IF acm \in {"done", "failed"} THEN "off" ELSE acm
    /\ UNCHANGED <<stack, job, lbs, records, misled>>

Finish(s) ==
    /\ stack[s] = "deleting"
    /\ \/ /\ \A u \in Users(s) : ~Exists(u)
          /\ stack' = [stack EXCEPT ![s] = "none"]
          /\ UNCHANGED trouble
       \/ /\ \E u \in Users(s) : Exists(u)
          /\ stack' = [stack EXCEPT ![s] = "failed"]
          /\ UNCHANGED trouble
       \/ /\ stack' = [stack EXCEPT ![s] = "failed"]
          /\ Fault /\ UNCHANGED misled
    /\ UNCHANGED <<scripts, records>>

Script == MainStep \/ AcmStep \/ \E s \in Stacks : Ask(s) \/ Wait(s)
Next   == Script \/ (\E s \in Stacks : Finish(s)) \/ Destroy \/ DestroyAcm \/ Hangup \/ CtrlC

\* The scripts go on, CloudFormation ends each deletion it began, and the operator
\* runs make destroy again, as it tells him to.
Spec == /\ Init /\ [][Next]_vars
        /\ WF_vars(Script)
        /\ \A s \in Stacks : WF_vars(Finish(s))
        /\ SF_vars(Destroy)

-----------------------------------------------------------------------------
(* Properties.                                                             *)

\* The order that the scripts' comments promise (destroy.sh:74-81,
\* destroy-acm.sh:4-5 and 39-40): what has to be gone before s is asked to go.
Before(s) == Users(s) \cup
    {u \in Stacks : <<u, s>> \in {"compute", "bootstrap"} \X {"services"}
                             \cup {"acm-sno", "acm-bootstrap"} \X {"acm-services"}}

\* The load balancers that the teardown cannot know of: list-stacks did not name
\* their status, or the run found no ACM site and so looked for none.
Overlooked(u) == u \in Lbs /\ (stack[u] # "standing" \/ acm = "off")

Asks(s) == job[s] = "ask" /\ job'[s] = "wait"

\* The deletion of a stack is asked for when all that must go before it is gone:
\* no failed, interrupted or repeated run of either script, in parallel or alone,
\* starts on the services or a network under what still stands there.
UsersFirst == [][\A s \in Stacks : Asks(s) /\ ~misled =>
                    \A u \in Before(s) : ~Exists(u) \/ Overlooked(u)]_vars

\* What a site's stages recorded is removed when its last stack is gone; an
\* environment of which some stack is left can be torn down by its records.
RecordsGoLast ==
    /\ [][recorded' # recorded /\ ~misled => \A s \in Stacks : ~Exists(s)]_vars
    /\ [][acmRecorded' # acmRecorded /\ ~misled =>
            \A s \in Acm \cup AcmLbs \cup {"peering"} : ~Exists(s)]_vars

\* "re-running is safe" (destroy.sh:106) and leads to the end: unless a load
\* balancer is one that the teardown cannot know of, repeated runs leave nothing.
AllKnown == \A l \in Lbs :
    stack[l] \in {"deleting", "none"} \/ (stack[l] = "standing" /\ Exists("acm-network"))
Finishes == AllKnown ~> ((\A s \in Stacks : ~Exists(s)) \/ ~AllKnown)
=============================================================================
