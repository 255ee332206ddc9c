--------------------------- MODULE ClusterProofs ---------------------------
(***************************************************************************)
(* Proofs about the life of a cluster: how it is installed and cleaned     *)
(* (TnfInstall), recovered (TnfRecover) and torn down with its environment *)
(* (Teardown), for any number of runs, nodes, load balancers and faults,   *)
(* with commands dying anywhere.  The three share no variable.  Each       *)
(* inductive invariant says what a run has established where it is.        *)
(***************************************************************************)
EXTENDS Teardown, TnfInstall, TnfRecover, TLAPS

-----------------------------------------------------------------------------
(* The teardown: what each script has established where it is, as long as  *)
(* no call misled the run.                                                 *)

\* No stack is without what its resources sit in.
Standing == \A u, s \in Stacks : <<u, s>> \in Uses /\ Exists(u) => Exists(s)

\* A delete_stack call that succeeded has seen the stack's end.
JobsTrue == ~misled => \A s \in Stacks : job[s] = "done" => ~Exists(s)

\* The serial deletions are only asked for at their place in the scripts.
JobsPlaced ==
    /\ job["services"] = "ask" => main = "services"
    /\ job["network"] = "ask" => main = "network"
    /\ job["acm-services"] = "ask" => acm = "services"
    /\ job["acm-network"] = "ask" => acm = "network"

\* What destroy-acm.sh has left behind it.
AcmOrder ==
    ~misled =>
        /\ acm \in {"instances", "lbs", "services", "network", "done"} => ~Exists("peering")
        /\ acm \in {"lbs", "services", "network", "done"} =>
              /\ ~Exists("acm-sno") /\ ~Exists("acm-bootstrap")
              /\ \A l \in Lbs : stack[l] = "standing" => acm = "lbs" /\ l \in lbs
        /\ acm \in {"network", "done"} => ~Exists("acm-services")
        /\ acm = "done" => ~Exists("acm-network")

\* What destroy.sh has left behind it; where it runs no destroy-acm.sh, it found
\* no ACM site.
MainOrder ==
    /\ main \in {"services", "network"} => acm \in {"off", "done"}
    /\ ~misled =>
        /\ main # "out" /\ acm = "off" => ~Exists("peering") /\ ~Exists("acm-network")
        /\ main \in {"services", "network"} => ~Exists("compute") /\ ~Exists("bootstrap")
        /\ main = "network" => ~Exists("services")

IInv == TypeOK /\ Standing /\ JobsTrue /\ JobsPlaced /\ AcmOrder /\ MainOrder

\* The stacks that have a name are stacks, each another, and no load balancers.
LEMMA Names ==
    /\ {"network", "services", "compute", "bootstrap", "acm-network", "acm-services",
        "acm-sno", "acm-bootstrap", "peering"} \subseteq Stacks
    /\ Lbs \subseteq Stacks
    /\ {"network", "services", "compute", "bootstrap", "acm-network", "acm-services",
        "acm-sno", "acm-bootstrap", "peering"} \cap Lbs = {}
  BY ConstantsAssumption DEF Stacks, Tnf, Acm

\* However a step counts its faults, and whatever it makes of misled.
LEMMA TroubleType ==
  ASSUME TypeOK,
         \/ Honest \/ Lies \/ (Fault /\ UNCHANGED misled)
         \/ (misled' = FALSE /\ UNCHANGED faults)
  PROVE  faults' \in 0..MaxFaults /\ misled' \in BOOLEAN
<1>1. faults' \in 0..MaxFaults
  BY ConstantsAssumption DEF TypeOK, Honest, Lies, Fault, trouble
<1>2. misled' = misled \/ misled' = TRUE \/ misled' = FALSE
  BY DEF Honest, Lies, trouble
<1>3. misled \in BOOLEAN
  BY DEF TypeOK
<1>4. misled' \in BOOLEAN
  BY <1>2, <1>3, Zenon
<1>5. QED
  BY <1>1, <1>4

LEMMA InitIInv == Init => IInv
<1> SUFFICES ASSUME Init PROVE IInv
  OBVIOUS
<1>1. TypeOK
  <2>1. recorded = TRUE /\ acmRecorded = TRUE /\ misled = FALSE
    BY DEF Init
  <2>2. recorded \in BOOLEAN /\ acmRecorded \in BOOLEAN /\ misled \in BOOLEAN
    BY <2>1, Zenon
  <2>3. stack \in [Stacks -> {"standing", "hidden", "deleting", "failed", "none"}]
    BY DEF Init
  <2>4. job \in [Stacks -> {"none", "ask", "wait", "done", "failed"}]
    BY DEF Init
  <2>5. faults \in 0..MaxFaults
    BY ConstantsAssumption DEF Init
  <2>6. QED
    BY <2>2, <2>3, <2>4, <2>5 DEF Init, TypeOK
<1>2. Standing
  <2>1. \A x, y : <<x, y>> \in Stages => (Exists(y) => Exists(x))
    BY DEF Init
  <2>2. /\ Exists("services") => Exists("network")
        /\ Exists("compute") => Exists("services")
        /\ Exists("bootstrap") => Exists("compute")
        /\ Exists("acm-services") => Exists("acm-network")
        /\ Exists("acm-sno") => Exists("acm-services")
        /\ Exists("acm-bootstrap") => Exists("acm-sno")
        /\ Exists("peering") => Exists("services") /\ Exists("acm-services")
    BY <2>1 DEF Stages
  <2>3. \A l \in TnfLbs : Exists(l) => Exists("services")
    BY <2>1 DEF Stages
  <2>4. \A l \in AcmLbs : Exists(l) => Exists("acm-sno")
    BY <2>1 DEF Stages
  <2>5. QED
    BY <2>2, <2>3, <2>4 DEF Standing, Uses, Tnf, Acm
<1>3. JobsTrue /\ JobsPlaced /\ AcmOrder /\ MainOrder
  BY Names DEF Init, JobsTrue, JobsPlaced, AcmOrder, MainOrder
<1>4. QED
  BY <1>1, <1>2, <1>3 DEF IInv

-----------------------------------------------------------------------------
(* delete_stack and CloudFormation.                                        *)

LEMMA AskInv == ASSUME IInv, NEW s \in Stacks, Ask(s) PROVE IInv'
<1>1. TypeOK'
  <2>1. \/ Honest \/ Lies \/ (Fault /\ UNCHANGED misled)
        \/ (misled' = FALSE /\ UNCHANGED faults)
    BY DEF Ask, Honest
  <2>2. faults' \in 0..MaxFaults /\ misled' \in BOOLEAN
    BY <2>1, TroubleType DEF IInv
  <2>3. QED
    BY <2>2, Names DEF IInv, TypeOK, Ask, Becomes, Exists, scripts, records, trouble
<1>2. Standing'
  BY Names DEF IInv, TypeOK, Standing, Ask, Becomes, Exists, Users, scripts,
     records, trouble
<1>3. JobsTrue'
  BY Names DEF IInv, TypeOK, JobsTrue, Ask, Becomes, Exists, Honest, Lies, Fault,
     scripts, records, trouble
<1>4. JobsPlaced'
  BY Names DEF IInv, TypeOK, JobsPlaced, Ask, Becomes, scripts, records, trouble
<1>5. AcmOrder'
  BY Names DEF IInv, TypeOK, AcmOrder, Ask, Exists, Becomes, Honest, Lies, Fault,
     scripts, records, trouble
<1>6. MainOrder'
  BY Names DEF IInv, TypeOK, MainOrder, Ask, Exists, Becomes, Honest, Lies, Fault,
     scripts, records, trouble
<1>7. QED
  BY <1>1, <1>2, <1>3, <1>4, <1>5, <1>6 DEF IInv

LEMMA WaitInv == ASSUME IInv, NEW s \in Stacks, Wait(s) PROVE IInv'
<1>1. TypeOK'
  <2>1. \/ Honest \/ Lies \/ (Fault /\ UNCHANGED misled)
        \/ (misled' = FALSE /\ UNCHANGED faults)
    BY DEF Wait, Honest
  <2>2. faults' \in 0..MaxFaults /\ misled' \in BOOLEAN
    BY <2>1, TroubleType DEF IInv
  <2>3. QED
    BY <2>2, Names DEF IInv, TypeOK, Wait, Becomes, Exists, scripts, records,
       trouble
<1>2. Standing'
  BY Names DEF IInv, TypeOK, Standing, Wait, Becomes, Exists, Users, scripts,
     records, trouble
<1>3. JobsTrue'
  BY Names DEF IInv, TypeOK, JobsTrue, Wait, Becomes, Exists, Honest, Lies, Fault,
     scripts, records, trouble
<1>4. JobsPlaced'
  BY Names DEF IInv, TypeOK, JobsPlaced, Wait, Becomes, scripts, records, trouble
<1>5. AcmOrder'
  BY Names DEF IInv, TypeOK, AcmOrder, Wait, Exists, Becomes, Honest, Lies, Fault,
     scripts, records, trouble
<1>6. MainOrder'
  BY Names DEF IInv, TypeOK, MainOrder, Wait, Exists, Becomes, Honest, Lies, Fault,
     scripts, records, trouble
<1>7. QED
  BY <1>1, <1>2, <1>3, <1>4, <1>5, <1>6 DEF IInv

LEMMA FinishInv == ASSUME IInv, NEW s \in Stacks, Finish(s) PROVE IInv'
<1>1. TypeOK'
  <2>1. \/ Honest \/ Lies \/ (Fault /\ UNCHANGED misled)
        \/ (misled' = FALSE /\ UNCHANGED faults)
    BY DEF Finish, Honest
  <2>2. faults' \in 0..MaxFaults /\ misled' \in BOOLEAN
    BY <2>1, TroubleType DEF IInv
  <2>3. QED
    BY <2>2, Names DEF IInv, TypeOK, Finish, Exists, scripts, records, trouble
<1>2. Standing'
  BY Names DEF IInv, TypeOK, Standing, Finish, Exists, Users, scripts, records,
     trouble
<1>3. JobsTrue'
  BY Names DEF IInv, TypeOK, JobsTrue, Finish, Exists, Fault, scripts, records,
     trouble
<1>4. JobsPlaced'
  BY Names DEF IInv, TypeOK, JobsPlaced, Finish, scripts, records, trouble
<1>5. AcmOrder'
  BY Names DEF IInv, TypeOK, AcmOrder, Finish, Exists, Fault, scripts, records,
     trouble
<1>6. MainOrder'
  BY Names DEF IInv, TypeOK, MainOrder, Finish, Exists, Fault, scripts, records,
     trouble
<1>7. QED
  BY <1>1, <1>2, <1>3, <1>4, <1>5, <1>6 DEF IInv

-----------------------------------------------------------------------------
(* The two scripts and the operator.                                       *)

LEMMA DestroyAcmInv == ASSUME IInv, DestroyAcm PROVE IInv'
<1>1. TypeOK'
  BY Names DEF IInv, TypeOK, DestroyAcm, Quiet, records
<1>2. Standing'
  BY DEF IInv, Standing, DestroyAcm, Quiet, Exists, records
<1>3. JobsTrue'
  BY Names DEF IInv, TypeOK, JobsTrue, DestroyAcm, Quiet, Exists, records
<1>4. JobsPlaced'
  BY Names DEF IInv, TypeOK, JobsPlaced, DestroyAcm, Quiet, records
<1>5. AcmOrder'
  BY Names DEF IInv, TypeOK, JobsTrue, AcmOrder, MainOrder, DestroyAcm, Quiet,
     Exists, records
<1>6. MainOrder'
  BY Names DEF IInv, TypeOK, JobsTrue, AcmOrder, MainOrder, DestroyAcm, Quiet,
     Exists, records
<1>7. QED
  BY <1>1, <1>2, <1>3, <1>4, <1>5, <1>6 DEF IInv

LEMMA AcmInstancesInv == ASSUME IInv, AcmInstances PROVE IInv'
<1>1. TypeOK'
  BY Names DEF IInv, TypeOK, AcmInstances, AcmDies, AcmExit, Launch, Ended, records,
     trouble
<1>2. Standing'
  BY DEF IInv, Standing, AcmInstances, AcmDies, AcmExit, Launch, Ended, Exists,
     records, trouble
<1>3. JobsTrue'
  BY Names DEF IInv, TypeOK, JobsTrue, AcmInstances, AcmDies, AcmExit, Launch,
     Ended, Exists, records, trouble
<1>4. JobsPlaced'
  BY Names DEF IInv, TypeOK, JobsPlaced, AcmInstances, AcmDies, AcmExit, Launch,
     Ended, records, trouble
<1>5. AcmOrder'
  BY Names DEF IInv, TypeOK, JobsTrue, AcmOrder, MainOrder, AcmInstances, AcmDies,
     AcmExit, Launch, Ended, Exists, records, trouble
<1>6. MainOrder'
  BY Names DEF IInv, TypeOK, JobsTrue, AcmOrder, MainOrder, AcmInstances, AcmDies,
     AcmExit, Launch, Ended, Exists, records, trouble
<1>7. QED
  BY <1>1, <1>2, <1>3, <1>4, <1>5, <1>6 DEF IInv

LEMMA AcmListInv == ASSUME IInv, AcmList PROVE IInv'
<1>1. TypeOK'
  <2>1. \/ Honest \/ Lies \/ (Fault /\ UNCHANGED misled)
        \/ (misled' = FALSE /\ UNCHANGED faults)
    BY DEF AcmList, AcmDies, Honest
  <2>2. faults' \in 0..MaxFaults /\ misled' \in BOOLEAN
    BY <2>1, TroubleType DEF IInv
  <2>3. QED
    BY <2>2, Names DEF IInv, TypeOK, AcmList, AcmDies, AcmExit, Listed, Ended,
       records, trouble
<1>2. Standing'
  BY DEF IInv, Standing, AcmList, AcmDies, AcmExit, Listed, Ended, Exists, Honest,
     Lies, Fault, records, trouble
<1>3. JobsTrue'
  BY Names DEF IInv, TypeOK, JobsTrue, AcmList, AcmDies, AcmExit, Listed, Ended,
     Exists, Honest, Lies, Fault, records, trouble
<1>4. JobsPlaced'
  BY Names DEF IInv, TypeOK, JobsPlaced, AcmList, AcmDies, AcmExit, Listed, Ended,
     Honest, Lies, Fault, records, trouble
<1>5. AcmOrder'
  BY Names DEF IInv, TypeOK, JobsTrue, AcmOrder, MainOrder, AcmList, AcmDies,
     AcmExit, Listed, Ended, Exists, Honest, Lies, Fault, records, trouble
<1>6. MainOrder'
  BY Names DEF IInv, TypeOK, JobsTrue, AcmOrder, MainOrder, AcmList, AcmDies,
     AcmExit, Listed, Ended, Exists, Honest, Lies, Fault, records, trouble
<1>7. QED
  BY <1>1, <1>2, <1>3, <1>4, <1>5, <1>6 DEF IInv

LEMMA AcmLbInv == ASSUME IInv, AcmLb PROVE IInv'
<1>1. TypeOK'
  BY Names DEF IInv, TypeOK, AcmLb, AcmDies, AcmExit, Launch, Ended, records,
     trouble
<1>2. Standing'
  BY DEF IInv, Standing, AcmLb, AcmDies, AcmExit, Launch, Ended, Exists, records,
     trouble
<1>3. JobsTrue'
  BY Names DEF IInv, TypeOK, JobsTrue, AcmLb, AcmDies, AcmExit, Launch, Ended,
     Exists, records, trouble
<1>4. JobsPlaced'
  BY Names DEF IInv, TypeOK, JobsPlaced, AcmLb, AcmDies, AcmExit, Launch, Ended,
     records, trouble
<1>5. AcmOrder'
  BY Names DEF IInv, TypeOK, JobsTrue, AcmOrder, MainOrder, AcmLb, AcmDies, AcmExit,
     Launch, Ended, Exists, records, trouble
<1>6. MainOrder'
  BY Names DEF IInv, TypeOK, JobsTrue, AcmOrder, MainOrder, AcmLb, AcmDies, AcmExit,
     Launch, Ended, Exists, records, trouble
<1>7. QED
  BY <1>1, <1>2, <1>3, <1>4, <1>5, <1>6 DEF IInv

LEMMA AcmServicesInv == ASSUME IInv, AcmServices PROVE IInv'
<1>1. TypeOK'
  BY Names DEF IInv, TypeOK, AcmServices, Launch, records, trouble
<1>2. Standing'
  BY DEF IInv, Standing, AcmServices, Launch, Exists, records, trouble
<1>3. JobsTrue'
  BY Names DEF IInv, TypeOK, JobsTrue, AcmServices, Launch, Exists, records, trouble
<1>4. JobsPlaced'
  BY Names DEF IInv, TypeOK, JobsPlaced, AcmServices, Launch, records, trouble
<1>5. AcmOrder'
  BY Names DEF IInv, TypeOK, JobsTrue, AcmOrder, MainOrder, AcmServices, Launch,
     Exists, records, trouble
<1>6. MainOrder'
  BY Names DEF IInv, TypeOK, JobsTrue, AcmOrder, MainOrder, AcmServices, Launch,
     Exists, records, trouble
<1>7. QED
  BY <1>1, <1>2, <1>3, <1>4, <1>5, <1>6 DEF IInv

LEMMA AcmNetworkInv == ASSUME IInv, AcmNetwork PROVE IInv'
<1>1. TypeOK'
  BY Names DEF IInv, TypeOK, AcmNetwork, AcmDies, AcmExit, Launch, Ended, records,
     trouble
<1>2. Standing'
  BY DEF IInv, Standing, AcmNetwork, AcmDies, AcmExit, Launch, Ended, Exists,
     records, trouble
<1>3. JobsTrue'
  BY Names DEF IInv, TypeOK, JobsTrue, AcmNetwork, AcmDies, AcmExit, Launch, Ended,
     Exists, records, trouble
<1>4. JobsPlaced'
  BY Names DEF IInv, TypeOK, JobsPlaced, AcmNetwork, AcmDies, AcmExit, Launch,
     Ended, records, trouble
<1>5. AcmOrder'
  BY Names DEF IInv, TypeOK, JobsTrue, AcmOrder, MainOrder, AcmNetwork, AcmDies,
     AcmExit, Launch, Ended, Exists, records, trouble
<1>6. MainOrder'
  BY Names DEF IInv, TypeOK, JobsTrue, AcmOrder, MainOrder, AcmNetwork, AcmDies,
     AcmExit, Launch, Ended, Exists, records, trouble
<1>7. QED
  BY <1>1, <1>2, <1>3, <1>4, <1>5, <1>6 DEF IInv

LEMMA AcmEndInv == ASSUME IInv, AcmEnd PROVE IInv'
<1>1. TypeOK'
  BY Names DEF IInv, TypeOK, AcmEnd, AcmDies, AcmExit, Ended, records, trouble
<1>2. Standing'
  BY DEF IInv, Standing, AcmEnd, AcmDies, AcmExit, Ended, Exists, records, trouble
<1>3. JobsTrue'
  BY Names DEF IInv, TypeOK, JobsTrue, AcmEnd, AcmDies, AcmExit, Ended, Exists,
     records, trouble
<1>4. JobsPlaced'
  BY Names DEF IInv, TypeOK, JobsPlaced, AcmEnd, AcmDies, AcmExit, Ended, records,
     trouble
<1>5. AcmOrder'
  BY Names DEF IInv, TypeOK, JobsTrue, AcmOrder, MainOrder, AcmEnd, AcmDies,
     AcmExit, Ended, Exists, records, trouble
<1>6. MainOrder'
  BY Names DEF IInv, TypeOK, JobsTrue, AcmOrder, MainOrder, AcmEnd, AcmDies,
     AcmExit, Ended, Exists, records, trouble
<1>7. QED
  BY <1>1, <1>2, <1>3, <1>4, <1>5, <1>6 DEF IInv

LEMMA DestroyInv == ASSUME IInv, Destroy PROVE IInv'
<1>1. TypeOK'
  <2>1. \/ Honest \/ Lies \/ (Fault /\ UNCHANGED misled)
        \/ (misled' = FALSE /\ UNCHANGED faults)
    BY DEF Destroy
  <2>2. faults' \in 0..MaxFaults /\ misled' \in BOOLEAN
    BY <2>1, TroubleType DEF IInv
  <2>3. QED
    BY <2>2, Names DEF IInv, TypeOK, Destroy, Quiet, Exists, records
<1>2. Standing'
  BY DEF IInv, Standing, Destroy, Quiet, Exists, Lies, Fault, records
<1>3. JobsTrue'
  BY Names DEF IInv, TypeOK, JobsTrue, Destroy, Quiet, Exists, Lies, Fault, records
<1>4. JobsPlaced'
  BY Names DEF IInv, TypeOK, JobsPlaced, Destroy, Quiet, Exists, Lies, Fault,
     records
<1>5. AcmOrder'
  BY Names DEF IInv, TypeOK, JobsTrue, AcmOrder, MainOrder, Destroy, Quiet, Exists,
     Lies, Fault, records
<1>6. MainOrder'
  BY Names DEF IInv, TypeOK, JobsTrue, AcmOrder, MainOrder, Destroy, Quiet, Exists,
     Lies, Fault, records
<1>7. QED
  BY <1>1, <1>2, <1>3, <1>4, <1>5, <1>6 DEF IInv

LEMMA ServicesInv == ASSUME IInv, Services PROVE IInv'
<1>1. TypeOK'
  BY Names DEF IInv, TypeOK, Services, Die, Out, Launch, Ended, records, trouble
<1>2. Standing'
  BY DEF IInv, Standing, Services, Die, Out, Launch, Ended, Exists, records, trouble
<1>3. JobsTrue'
  BY Names DEF IInv, TypeOK, JobsTrue, Services, Die, Out, Launch, Ended, Exists,
     records, trouble
<1>4. JobsPlaced'
  BY Names DEF IInv, TypeOK, JobsPlaced, Services, Die, Out, Launch, Ended, records,
     trouble
<1>5. AcmOrder'
  BY Names DEF IInv, TypeOK, JobsTrue, AcmOrder, MainOrder, Services, Die, Out,
     Launch, Ended, Exists, records, trouble
<1>6. MainOrder'
  BY Names DEF IInv, TypeOK, JobsTrue, AcmOrder, MainOrder, Services, Die, Out,
     Launch, Ended, Exists, records, trouble
<1>7. QED
  BY <1>1, <1>2, <1>3, <1>4, <1>5, <1>6 DEF IInv

LEMMA NetworkInv == ASSUME IInv, Network PROVE IInv'
<1>1. TypeOK'
  BY Names DEF IInv, TypeOK, Network, Die, Out, Launch, Ended, records, trouble
<1>2. Standing'
  BY DEF IInv, Standing, Network, Die, Out, Launch, Ended, Exists, records, trouble
<1>3. JobsTrue'
  BY Names DEF IInv, TypeOK, JobsTrue, Network, Die, Out, Launch, Ended, Exists,
     records, trouble
<1>4. JobsPlaced'
  BY Names DEF IInv, TypeOK, JobsPlaced, Network, Die, Out, Launch, Ended, records,
     trouble
<1>5. AcmOrder'
  BY Names DEF IInv, TypeOK, JobsTrue, AcmOrder, MainOrder, Network, Die, Out,
     Launch, Ended, Exists, records, trouble
<1>6. MainOrder'
  BY Names DEF IInv, TypeOK, JobsTrue, AcmOrder, MainOrder, Network, Die, Out,
     Launch, Ended, Exists, records, trouble
<1>7. QED
  BY <1>1, <1>2, <1>3, <1>4, <1>5, <1>6 DEF IInv

LEMMA EndInv == ASSUME IInv, End PROVE IInv'
<1>1. TypeOK'
  BY Names DEF IInv, TypeOK, End, Die, Out, Ended, records, trouble
<1>2. Standing'
  BY DEF IInv, Standing, End, Die, Out, Ended, Exists, records, trouble
<1>3. JobsTrue'
  BY Names DEF IInv, TypeOK, JobsTrue, End, Die, Out, Ended, Exists, records,
     trouble
<1>4. JobsPlaced'
  BY Names DEF IInv, TypeOK, JobsPlaced, End, Die, Out, Ended, records, trouble
<1>5. AcmOrder'
  BY Names DEF IInv, TypeOK, JobsTrue, AcmOrder, MainOrder, End, Die, Out, Ended,
     Exists, records, trouble
<1>6. MainOrder'
  BY Names DEF IInv, TypeOK, JobsTrue, AcmOrder, MainOrder, End, Die, Out, Ended,
     Exists, records, trouble
<1>7. QED
  BY <1>1, <1>2, <1>3, <1>4, <1>5, <1>6 DEF IInv

LEMMA HangupInv == ASSUME IInv, Hangup PROVE IInv'
<1>1. TypeOK'
  <2>1. \/ Honest \/ Lies \/ (Fault /\ UNCHANGED misled)
        \/ (misled' = FALSE /\ UNCHANGED faults)
    BY DEF Hangup, Out
  <2>2. faults' \in 0..MaxFaults /\ misled' \in BOOLEAN
    BY <2>1, TroubleType DEF IInv
  <2>3. QED
    BY <2>2, Names DEF IInv, TypeOK, Hangup, Out, Quiet, records
<1>2. Standing'
  BY DEF IInv, Standing, Hangup, Out, Quiet, Exists, Fault, records
<1>3. JobsTrue'
  BY Names DEF IInv, TypeOK, JobsTrue, Hangup, Out, Quiet, Exists, Fault, records
<1>4. JobsPlaced'
  BY Names DEF IInv, TypeOK, JobsPlaced, Hangup, Out, Quiet, Fault, records
<1>5. AcmOrder'
  BY Names DEF IInv, TypeOK, JobsTrue, AcmOrder, MainOrder, Hangup, Out, Quiet,
     Exists, Fault, records
<1>6. MainOrder'
  BY Names DEF IInv, TypeOK, JobsTrue, AcmOrder, MainOrder, Hangup, Out, Quiet,
     Exists, Fault, records
<1>7. QED
  BY <1>1, <1>2, <1>3, <1>4, <1>5, <1>6 DEF IInv

LEMMA CtrlCInv == ASSUME IInv, CtrlC PROVE IInv'
<1>1. TypeOK'
  <2>1. \/ Honest \/ Lies \/ (Fault /\ UNCHANGED misled)
        \/ (misled' = FALSE /\ UNCHANGED faults)
    BY DEF CtrlC
  <2>2. faults' \in 0..MaxFaults /\ misled' \in BOOLEAN
    BY <2>1, TroubleType DEF IInv
  <2>3. QED
    BY <2>2, Names DEF IInv, TypeOK, CtrlC, records
<1>2. Standing'
  BY DEF IInv, Standing, CtrlC, Exists, Fault, records
<1>3. JobsTrue'
  BY Names DEF IInv, TypeOK, JobsTrue, CtrlC, Exists, Fault, records
<1>4. JobsPlaced'
  BY Names DEF IInv, TypeOK, JobsPlaced, CtrlC, Fault, records
<1>5. AcmOrder'
  BY Names DEF IInv, TypeOK, JobsTrue, AcmOrder, MainOrder, CtrlC, Exists, Fault,
     records
<1>6. MainOrder'
  BY Names DEF IInv, TypeOK, JobsTrue, AcmOrder, MainOrder, CtrlC, Exists, Fault,
     records
<1>7. QED
  BY <1>1, <1>2, <1>3, <1>4, <1>5, <1>6 DEF IInv

-----------------------------------------------------------------------------
(* The theorems.                                                           *)

LEMMA Inductive == IInv /\ [Next]_vars => IInv'
<1> SUFFICES ASSUME IInv, [Next]_vars PROVE IInv'
  OBVIOUS
<1>1. CASE Script
  BY <1>1, AskInv, WaitInv, AcmInstancesInv, AcmListInv, AcmLbInv, AcmServicesInv,
     AcmNetworkInv, AcmEndInv, ServicesInv, NetworkInv, EndInv DEF Script, MainStep,
     AcmStep
<1>2. CASE \E s \in Stacks : Finish(s)
  BY <1>2, FinishInv
<1>3. CASE Destroy \/ DestroyAcm \/ Hangup \/ CtrlC
  BY <1>3, DestroyInv, DestroyAcmInv, HangupInv, CtrlCInv
<1>4. CASE UNCHANGED vars
  BY <1>4 DEF vars, scripts, records, trouble, IInv, TypeOK, Standing, JobsTrue,
     JobsPlaced, AcmOrder, MainOrder, Exists
<1>5. QED
  BY <1>1, <1>2, <1>3, <1>4 DEF Next

LEMMA Invariance == Spec => []IInv
<1>1. Init => IInv
  BY InitIInv
<1>2. IInv /\ [Next]_vars => IInv'
  BY Inductive
<1>3. QED
  BY <1>1, <1>2, PTL DEF Spec

\* The variables keep their types.
THEOREM TypeCorrect == Spec => []TypeOK
<1>1. IInv => TypeOK
  BY DEF IInv
<1>2. QED
  BY <1>1, Invariance, PTL

\* Whatever has failed or was interrupted before, neither script asks for the
\* deletion of a stack under one that still stands in it and that it can know of.
THEOREM OrderKept == Spec => UsersFirst
<1>1. IInv /\ [Next]_vars =>
        [\A s \in Stacks : Asks(s) /\ ~misled =>
           \A u \in Before(s) : ~Exists(u) \/ Overlooked(u)]_vars
  <2> SUFFICES ASSUME IInv, ~misled, NEW s \in Stacks, job[s] = "ask", NEW u \in Before(s)
               PROVE  ~Exists(u) \/ Overlooked(u)
    BY DEF Asks
  <2>1. CASE s = "services"
    BY <2>1 DEF IInv, JobsPlaced, MainOrder, Before, Users, Uses, Tnf, Acm
  <2>2. CASE s = "acm-services"
    BY <2>2 DEF IInv, JobsPlaced, AcmOrder, Before, Users, Uses, Tnf, Acm
  <2>3. CASE s = "network"
    <3>1. main = "network" /\ acm \in {"off", "done"}
      BY <2>3 DEF IInv, JobsPlaced, MainOrder
    <3>2. ~Exists("peering")
      BY <3>1 DEF IInv, AcmOrder, MainOrder
    <3>3. u \in TnfLbs => Overlooked(u)
      BY <3>1 DEF IInv, AcmOrder, Overlooked, Lbs
    <3>4. QED
      BY <2>3, <3>1, <3>2, <3>3 DEF IInv, MainOrder, Before, Users, Uses, Tnf, Acm
  <2>4. CASE s = "acm-network"
    <3>1. acm = "network"
      BY <2>4 DEF IInv, JobsPlaced
    <3>2. u \in AcmLbs => Overlooked(u)
      BY <3>1 DEF IInv, AcmOrder, Overlooked, Lbs
    <3>3. QED
      BY <2>4, <3>1, <3>2 DEF IInv, AcmOrder, Before, Users, Uses, Tnf, Acm
  <2>5. CASE s \notin {"services", "acm-services", "network", "acm-network"}
    BY <2>5 DEF Before, Users, Uses
  <2>6. QED
    BY <2>1, <2>2, <2>3, <2>4, <2>5
<1>2. QED
  BY <1>1, Invariance, PTL DEF Spec, UsersFirst

\* What the stages recorded outlives every stack they recorded, on both sites.
THEOREM RecordsLast == Spec => RecordsGoLast
<1>1. IInv /\ [Next]_vars =>
        [recorded' # recorded /\ ~misled => \A s \in Stacks : ~Exists(s)]_vars
  <2> SUFFICES ASSUME IInv, Next, recorded' # recorded, ~misled
               PROVE  \A s \in Stacks : ~Exists(s)
    OBVIOUS
  <2>1. End
    BY DEF Next, Script, MainStep, AcmStep, Services, Network, AcmInstances,
       AcmList, AcmLb, AcmServices, AcmNetwork, AcmEnd, AcmDies, Ask, Wait, Finish,
       Destroy, DestroyAcm, Hangup, CtrlC, Die, records
  <2>2. main = "network" /\ job["network"] = "done"
    BY <2>1 DEF End, Ended, Die, records
  <2>3. ~Exists("network")
    BY <2>2, Names DEF IInv, JobsTrue
  <2>4. ~Exists("acm-network")
    BY <2>2 DEF IInv, MainOrder, AcmOrder
  <2>5. QED
    BY <2>3, <2>4, Names DEF IInv, Standing, Uses, Stacks, Tnf, Acm, Lbs
<1>2. IInv /\ [Next]_vars =>
        [acmRecorded' # acmRecorded /\ ~misled =>
           \A s \in Acm \cup AcmLbs \cup {"peering"} : ~Exists(s)]_vars
  <2> SUFFICES ASSUME IInv, Next, acmRecorded' # acmRecorded, ~misled
               PROVE  \A s \in Acm \cup AcmLbs \cup {"peering"} : ~Exists(s)
    OBVIOUS
  <2>1. End \/ AcmEnd
    BY DEF Next, Script, MainStep, AcmStep, Services, Network, AcmInstances,
       AcmList, AcmLb, AcmServices, AcmNetwork, AcmDies, Ask, Wait, Finish, Destroy,
       DestroyAcm, Hangup, CtrlC, Die, records
  <2>2. ~Exists("acm-network")
    <3>1. CASE End
      BY <3>1 DEF End, Die, records, IInv, MainOrder, AcmOrder
    <3>2. CASE AcmEnd
      BY <3>2, Names DEF AcmEnd, AcmDies, records, IInv, JobsTrue
    <3>3. QED
      BY <2>1, <3>1, <3>2
  <2>3. QED
    BY <2>2, Names DEF IInv, Standing, Uses, Stacks, Acm, Lbs
<1>3. QED
  BY <1>1, <1>2, Invariance, PTL DEF Spec, RecordsGoLast

-----------------------------------------------------------------------------
(* The installation: what a run has established at each task, and that     *)
(* nodes run only what the install directory holds.                        *)

USE DEF Kubeconfig, Answers, Goto, bastion, stacks, machine, outside

\* Nodes boot with what is served, and only nodes of a stack do.
InstallNodes ==
    /\ ~compute => cluster = "none" /\ nodes = 0
    /\ cluster # "none" => nodes # 0

\* What the tasks before have left for a task to find.
InstallProgress ==
    /\ pc \in {"render", "manifests"} => ~compute /\ ~Kubeconfig
    /\ pc = "ignition" => ~compute /\ dir = "manifests"
    /\ pc = "publish" => ~compute /\ Kubeconfig
    /\ pc \in {"launchlb", "launchlbflush", "compute"}
          => ~compute /\ Kubeconfig /\ master = gen
    /\ pc \in {"save", "bootnode", "power", "bootwait", "unboot", "droplb",
              "droplbflush", "dropign", "installwait"}
          => compute

\* Where nothing claims to have been launched, what is in the install directory
\* is made in this run.
InstallCurrent ==
    ~launched =>
        /\ pc = "manifests" => dir = "absent"
        /\ pc \in {"ignition", "publish", "launchlb", "launchlbflush", "compute"}
              => manifests = config

InstallIInv ==
    /\ InstallTypeOK /\ CredentialsKept /\ FencesOnlyACluster
    /\ InstallNodes /\ InstallProgress /\ InstallCurrent

LEMMA InstallInitIInv == InstallInit => InstallIInv
<1> SUFFICES ASSUME InstallInit PROVE InstallIInv
  OBVIOUS
<1>1. /\ launched = FALSE /\ compute = FALSE /\ bootnode = FALSE
      /\ haproxycfg = FALSE /\ lb = FALSE
  BY DEF InstallInit
<1>2. /\ launched \in BOOLEAN /\ compute \in BOOLEAN /\ bootnode \in BOOLEAN
      /\ haproxycfg \in BOOLEAN /\ lb \in BOOLEAN
  BY <1>1, Zenon
<1>3. InstallTypeOK
  BY <1>2 DEF InstallInit, InstallTypeOK, Tasks
<1>4. /\ CredentialsKept /\ FencesOnlyACluster
      /\ InstallNodes /\ InstallProgress /\ InstallCurrent
  BY DEF InstallInit, CredentialsKept, FencesOnlyACluster, InstallNodes,
     InstallProgress, InstallCurrent
<1>5. QED
  BY <1>3, <1>4 DEF InstallIInv

-----------------------------------------------------------------------------
(* 10-tnf-install.yml, main.yml and render.yml.                            *)

LEMMA InstallMakeTnfInv == ASSUME InstallIInv, MakeTnf PROVE InstallIInv'
  BY DEF InstallIInv, InstallTypeOK, Tasks, CredentialsKept, FencesOnlyACluster,
     InstallNodes, InstallProgress, InstallCurrent, MakeTnf

\* Writing haproxy.cfg, wherever the role is included.
LEMMA InstallWriteLbInv ==
    ASSUME InstallIInv, NEW include_bootstrap \in BOOLEAN, NEW from, NEW flush, NEW to,
           WriteLb(from, flush, to, include_bootstrap),
           \/ from = "lb" /\ flush = "lbflush" /\ to = "probe"
           \/ from = "launchlb" /\ flush = "launchlbflush" /\ to = "compute"
           \/ from = "droplb" /\ flush = "droplbflush" /\ to = "dropign"
    PROVE  InstallIInv'
<1>1. pc' \in {flush, to} /\ pc = from
  BY Zenon DEF WriteLb
<1>2. haproxycfg' \in BOOLEAN
  BY Zenon DEF WriteLb
<1>3. UNCHANGED <<dir, manifests, gen, made, master, boot, lb, stacks, machine, outside>>
  BY DEF WriteLb
<1>4. QED
  BY <1>1, <1>2, <1>3 DEF InstallIInv, InstallTypeOK, Tasks, CredentialsKept,
     FencesOnlyACluster, InstallNodes, InstallProgress, InstallCurrent

\* The restart that was owed to it.
LEMMA InstallFlushLbInv ==
    ASSUME InstallIInv, NEW flush, NEW to, FlushLb(flush, to),
           \/ flush = "lbflush" /\ to = "probe"
           \/ flush = "launchlbflush" /\ to = "compute"
           \/ flush = "droplbflush" /\ to = "dropign"
    PROVE  InstallIInv'
  BY DEF InstallIInv, InstallTypeOK, Tasks, CredentialsKept, FencesOnlyACluster,
     InstallNodes, InstallProgress, InstallCurrent, FlushLb

LEMMA InstallConfigureLbInv == ASSUME InstallIInv, ConfigureLb PROVE InstallIInv'
<1>1. CASE WriteLb("lb", "lbflush", "probe", FALSE)
  BY <1>1, InstallWriteLbInv
<1>2. CASE FlushLb("lbflush", "probe")
  BY <1>2, InstallFlushLbInv
<1>3. QED
  BY <1>1, <1>2 DEF ConfigureLb

LEMMA InstallProbeInv == ASSUME InstallIInv, Probe PROVE InstallIInv'
  BY DEF InstallIInv, InstallTypeOK, Tasks, CredentialsKept, FencesOnlyACluster,
     InstallNodes, InstallProgress, InstallCurrent, Probe

LEMMA InstallRenderInv == ASSUME InstallIInv, Render PROVE InstallIInv'
  BY DEF InstallIInv, InstallTypeOK, Tasks, CredentialsKept, FencesOnlyACluster,
     InstallNodes, InstallProgress, InstallCurrent, Render

LEMMA InstallCreateManifestsInv == ASSUME InstallIInv, CreateManifests
  PROVE  InstallIInv'
  BY DEF InstallIInv, InstallTypeOK, Tasks, CredentialsKept, FencesOnlyACluster,
     InstallNodes, InstallProgress, InstallCurrent, CreateManifests

LEMMA InstallCreateIgnitionInv == ASSUME InstallIInv, CreateIgnition
  PROVE  InstallIInv'
  BY DEF InstallIInv, InstallTypeOK, Tasks, CredentialsKept, FencesOnlyACluster,
     InstallNodes, InstallProgress, InstallCurrent, CreateIgnition

LEMMA InstallPublishInv == ASSUME InstallIInv, Publish PROVE InstallIInv'
  BY DEF InstallIInv, InstallTypeOK, Tasks, CredentialsKept, FencesOnlyACluster,
     InstallNodes, InstallProgress, InstallCurrent, Publish

-----------------------------------------------------------------------------
(* launch.yml, bootstrap.yml, finish.yml, fencing.yml and health.yml.      *)

LEMMA InstallLaunchLbInv == ASSUME InstallIInv, LaunchLb PROVE InstallIInv'
<1>1. CASE WriteLb("launchlb", "launchlbflush", "compute", TRUE)
  BY <1>1, InstallWriteLbInv
<1>2. CASE FlushLb("launchlbflush", "compute")
  BY <1>2, InstallFlushLbInv
<1>3. QED
  BY <1>1, <1>2 DEF LaunchLb

LEMMA InstallLaunchComputeInv == ASSUME InstallIInv, LaunchCompute
  PROVE  InstallIInv'
  BY DEF InstallIInv, InstallTypeOK, Tasks, CredentialsKept, FencesOnlyACluster,
     InstallNodes, InstallProgress, InstallCurrent, LaunchCompute

LEMMA InstallSaveStateInv == ASSUME InstallIInv, SaveState PROVE InstallIInv'
  BY DEF InstallIInv, InstallTypeOK, Tasks, CredentialsKept, FencesOnlyACluster,
     InstallNodes, InstallProgress, InstallCurrent, SaveState

LEMMA InstallLaunchBootstrapInv == ASSUME InstallIInv, LaunchBootstrap
  PROVE  InstallIInv'
  BY DEF InstallIInv, InstallTypeOK, Tasks, CredentialsKept, FencesOnlyACluster,
     InstallNodes, InstallProgress, InstallCurrent, LaunchBootstrap

LEMMA InstallVerifyPowerInv == ASSUME InstallIInv, VerifyPower PROVE InstallIInv'
  BY DEF InstallIInv, InstallTypeOK, Tasks, CredentialsKept, FencesOnlyACluster,
     InstallNodes, InstallProgress, InstallCurrent, VerifyPower

LEMMA InstallWaitBootstrapInv == ASSUME InstallIInv, WaitBootstrap
  PROVE  InstallIInv'
  BY DEF InstallIInv, InstallTypeOK, Tasks, CredentialsKept, FencesOnlyACluster,
     InstallNodes, InstallProgress, InstallCurrent, WaitBootstrap

LEMMA InstallDestroyBootstrapInv == ASSUME InstallIInv, DestroyBootstrap
  PROVE  InstallIInv'
  BY DEF InstallIInv, InstallTypeOK, Tasks, CredentialsKept, FencesOnlyACluster,
     InstallNodes, InstallProgress, InstallCurrent, DestroyBootstrap

LEMMA InstallDropLbInv == ASSUME InstallIInv, DropLb PROVE InstallIInv'
<1>1. CASE WriteLb("droplb", "droplbflush", "dropign", FALSE)
  BY <1>1, InstallWriteLbInv
<1>2. CASE FlushLb("droplbflush", "dropign")
  BY <1>2, InstallFlushLbInv
<1>3. QED
  BY <1>1, <1>2 DEF DropLb

LEMMA InstallDropIgnitionInv == ASSUME InstallIInv, DropIgnition
  PROVE  InstallIInv'
  BY DEF InstallIInv, InstallTypeOK, Tasks, CredentialsKept, FencesOnlyACluster,
     InstallNodes, InstallProgress, InstallCurrent, DropIgnition

LEMMA InstallWaitInstallInv == ASSUME InstallIInv, WaitInstall PROVE InstallIInv'
  BY DEF InstallIInv, InstallTypeOK, Tasks, CredentialsKept, FencesOnlyACluster,
     InstallNodes, InstallProgress, InstallCurrent, WaitInstall

LEMMA InstallFencingInv == ASSUME InstallIInv, Fencing PROVE InstallIInv'
  BY DEF InstallIInv, InstallTypeOK, Tasks, CredentialsKept, FencesOnlyACluster,
     InstallNodes, InstallProgress, InstallCurrent, Fencing

LEMMA InstallHealthInv == ASSUME InstallIInv, Health PROVE InstallIInv'
  BY DEF InstallIInv, InstallTypeOK, Tasks, CredentialsKept, FencesOnlyACluster,
     InstallNodes, InstallProgress, InstallCurrent, Health

LEMMA InstallEndInv == ASSUME InstallIInv, EndRun PROVE InstallIInv'
  BY DEF InstallIInv, InstallTypeOK, Tasks, CredentialsKept, FencesOnlyACluster,
     InstallNodes, InstallProgress, InstallCurrent, EndRun

-----------------------------------------------------------------------------
(* destroy-cluster.sh.                                                     *)

LEMMA InstallMakeCleanInv == ASSUME InstallIInv, MakeClean PROVE InstallIInv'
  BY DEF InstallIInv, InstallTypeOK, Tasks, CredentialsKept, FencesOnlyACluster,
     InstallNodes, InstallProgress, InstallCurrent, MakeClean

LEMMA InstallCleanBootstrapInv == ASSUME InstallIInv, CleanBootstrap
  PROVE  InstallIInv'
  BY DEF InstallIInv, InstallTypeOK, Tasks, CredentialsKept, FencesOnlyACluster,
     InstallNodes, InstallProgress, InstallCurrent, CleanBootstrap

LEMMA InstallCleanComputeInv == ASSUME InstallIInv, CleanCompute
  PROVE  InstallIInv'
  BY DEF InstallIInv, InstallTypeOK, Tasks, CredentialsKept, FencesOnlyACluster,
     InstallNodes, InstallProgress, InstallCurrent, CleanCompute

LEMMA InstallCleanStateInv == ASSUME InstallIInv, CleanState PROVE InstallIInv'
  BY DEF InstallIInv, InstallTypeOK, Tasks, CredentialsKept, FencesOnlyACluster,
     InstallNodes, InstallProgress, InstallCurrent, CleanState

-----------------------------------------------------------------------------
(* Everything else.                                                        *)

LEMMA InstallDieInv == ASSUME InstallIInv, RunDies PROVE InstallIInv'
  BY DEF InstallIInv, InstallTypeOK, Tasks, CredentialsKept, FencesOnlyACluster,
     InstallNodes, InstallProgress, InstallCurrent, RunDies

LEMMA InstallEditInv == ASSUME InstallIInv, Edit PROVE InstallIInv'
  BY DEF InstallIInv, InstallTypeOK, Tasks, CredentialsKept, FencesOnlyACluster,
     InstallNodes, InstallProgress, InstallCurrent, Edit

LEMMA InstallWipeInv == ASSUME InstallIInv, Wipe PROVE InstallIInv'
  BY DEF InstallIInv, InstallTypeOK, Tasks, CredentialsKept, FencesOnlyACluster,
     InstallNodes, InstallProgress, InstallCurrent, Wipe

LEMMA InstallNodesIgniteInv == ASSUME InstallIInv, NodesIgnite PROVE InstallIInv'
  BY DEF InstallIInv, InstallTypeOK, Tasks, CredentialsKept, FencesOnlyACluster,
     InstallNodes, InstallProgress, InstallCurrent, NodesIgnite

LEMMA InstallBootstrapIgnitesInv == ASSUME InstallIInv, BootstrapIgnites
  PROVE  InstallIInv'
  BY DEF InstallIInv, InstallTypeOK, Tasks, CredentialsKept, FencesOnlyACluster,
     InstallNodes, InstallProgress, InstallCurrent, BootstrapIgnites

LEMMA InstallBootstrapInv == ASSUME InstallIInv, Bootstrap PROVE InstallIInv'
  BY DEF InstallIInv, InstallTypeOK, Tasks, CredentialsKept, FencesOnlyACluster,
     InstallNodes, InstallProgress, InstallCurrent, Bootstrap

LEMMA InstallCompleteInv == ASSUME InstallIInv, Complete PROVE InstallIInv'
  BY DEF InstallIInv, InstallTypeOK, Tasks, CredentialsKept, FencesOnlyACluster,
     InstallNodes, InstallProgress, InstallCurrent, Complete

LEMMA InstallNextIInv == InstallIInv /\ [InstallNext]_installVars => InstallIInv'
<1> SUFFICES ASSUME InstallIInv, [InstallNext]_installVars PROVE InstallIInv'
  OBVIOUS
<1>1. CASE Stage
  BY <1>1, InstallConfigureLbInv, InstallProbeInv, InstallRenderInv,
     InstallCreateManifestsInv, InstallCreateIgnitionInv, InstallPublishInv,
     InstallLaunchLbInv, InstallLaunchComputeInv, InstallSaveStateInv,
     InstallLaunchBootstrapInv, InstallVerifyPowerInv, InstallWaitBootstrapInv,
     InstallDestroyBootstrapInv, InstallDropLbInv, InstallDropIgnitionInv,
     InstallWaitInstallInv, InstallFencingInv, InstallHealthInv, InstallEndInv,
     InstallCleanBootstrapInv, InstallCleanComputeInv, InstallCleanStateInv DEF
     Stage
<1>2. CASE Machines
  BY <1>2, InstallNodesIgniteInv, InstallBootstrapIgnitesInv, InstallBootstrapInv,
     InstallCompleteInv DEF Machines
<1>3. CASE MakeTnf \/ MakeClean \/ RunDies \/ Edit \/ Wipe
  BY <1>3, InstallMakeTnfInv, InstallMakeCleanInv, InstallDieInv, InstallEditInv,
     InstallWipeInv
<1>4. CASE UNCHANGED installVars
  BY <1>4 DEF installVars, InstallIInv, InstallTypeOK, CredentialsKept,
     FencesOnlyACluster, InstallNodes, InstallProgress, InstallCurrent
<1>5. QED
  BY <1>1, <1>2, <1>3, <1>4 DEF InstallNext

LEMMA InstallInvariance == InstallSpec => []InstallIInv
<1>1. QED
  BY InstallInitIInv, InstallNextIInv, PTL DEF InstallSpec

-----------------------------------------------------------------------------
(* The theorems.                                                           *)

\* The marks that the commands leave stay within their types.
THEOREM InstallTypeCorrect == InstallSpec => []InstallTypeOK
<1>1. InstallIInv => InstallTypeOK
  BY DEF InstallIInv
<1>2. QED
  BY <1>1, InstallInvariance, PTL

\* However often commands die and are repeated, while the compute stack is there
\* the kubeconfig in the install directory is that of its nodes.
THEOREM CredentialsSafe == InstallSpec => []CredentialsKept
<1>1. InstallIInv => CredentialsKept
  BY DEF InstallIInv
<1>2. QED
  BY <1>1, InstallInvariance, PTL

\* No run tunes, tries or declares healthy a cluster that is not there.
THEOREM FencingFindsACluster == InstallSpec => []FencesOnlyACluster
<1>1. InstallIInv => FencesOnlyACluster
  BY DEF InstallIInv
<1>2. QED
  BY <1>1, InstallInvariance, PTL

\* Unless a stale state file says otherwise, nodes are launched with ignition of
\* the settings of the run that launches them.
THEOREM LaunchesCurrent == InstallSpec => IgnitionIsCurrent
<1>1. InstallIInv /\ [InstallNext]_installVars =>
        [~compute /\ compute' /\ ~launched => manifests = config]_installVars
  <2> SUFFICES ASSUME InstallIInv, InstallNext, ~compute, compute', ~launched
               PROVE  manifests = config
    OBVIOUS
  <2>1. LaunchCompute
    BY DEF InstallNext, Stage, Machines, MakeTnf, ConfigureLb, WriteLb, FlushLb,
       Probe, Render,
       CreateManifests, CreateIgnition, Publish, LaunchLb, SaveState,
       LaunchBootstrap, VerifyPower, WaitBootstrap, DestroyBootstrap, DropLb,
       DropIgnition, WaitInstall, Fencing, Health, EndRun, MakeClean,
       CleanBootstrap, CleanCompute, CleanState, RunDies, Edit, Wipe, NodesIgnite,
       BootstrapIgnites, Bootstrap, Complete, InstallIInv, InstallTypeOK
  <2>2. QED
    BY <2>1 DEF LaunchCompute, InstallIInv, InstallCurrent
<1>2. QED
  BY <1>1, InstallInvariance, PTL DEF InstallSpec, IgnitionIsCurrent

-----------------------------------------------------------------------------
(* The recovery ladder, for any set of nodes and any setting of the flags: *)
(* what the facts of the play mean at each of its tasks, namely which      *)
(* signals are known good, and that a peer recorded as unreachable is down *)
(* or has come back since.                                                 *)

\* What the checks have established when the play is at a task.
RecoverEvidence ==
    /\ task = "etcd" => seen = IF cheap THEN {"nodes"} ELSE {}
    /\ task = "pcs" => seen = {"nodes", "etcd"}
    /\ task = "healthy" => seen = Signals
    /\ task \in {"peer", "ladder"} => seen # Signals

\* The verdict of the ping stays true unless the peer has come back since.
RecoverVerdict ==
    /\ task = "survivor" => reachable
    /\ task = "peer" => down # {}
    /\ ~reachable => Peer \in returned \/ Peer \notin alive

RecoverIInv == RecoverTypeOK /\ RecoverEvidence /\ RecoverVerdict

USE DEF Signals, Locations, Verdicts

LEMMA RecoverInitIInv == RecoverInit => RecoverIInv
<1> SUFFICES ASSUME RecoverInit PROVE RecoverIInv
  OBVIOUS
<1>1. RecoverTypeOK
  <2>1. reachable = TRUE /\ cheap = FALSE
    BY DEF RecoverInit
  <2>2. reachable \in BOOLEAN /\ cheap \in BOOLEAN
    BY <2>1, Zenon
  <2>3. QED
    BY <2>2 DEF RecoverInit, RecoverTypeOK
<1>2. RecoverEvidence
  BY DEF RecoverInit, RecoverEvidence
<1>3. RecoverVerdict
  <2>1. reachable = TRUE /\ task = "survivor"
    BY DEF RecoverInit
  <2>2. QED
    BY <2>1, Zenon DEF RecoverVerdict
<1>4. QED
  BY <1>1, <1>2, <1>3 DEF RecoverIInv

-----------------------------------------------------------------------------
(* The tasks of the play.                                                  *)

LEMMA RecoverFindSurvivorInv == ASSUME RecoverIInv, FindSurvivor
  PROVE  RecoverIInv'
<1>1. CASE ReadyNodes = {} /\ task' = "failed" /\ UNCHANGED facts
  BY <1>1 DEF RecoverIInv, RecoverTypeOK, RecoverEvidence, RecoverVerdict,
     FindSurvivor, facts, rig, Peer
<1>2. CASE survivor' \in ReadyNodes /\ down' = Nodes \ ReadyNodes
           /\ task' = "nodes" /\ UNCHANGED reachable
  <2>1. ReadyNodes \subseteq Nodes
    BY DEF RecoverIInv, RecoverTypeOK, ReadyNodes
  <2>2. QED
    BY <1>2, <2>1 DEF RecoverIInv, RecoverTypeOK, RecoverEvidence, RecoverVerdict,
       FindSurvivor, rig
<1>3. QED
  BY <1>1, <1>2 DEF FindSurvivor

LEMMA RecoverCheckNodesInv == ASSUME RecoverIInv, CheckNodes PROVE RecoverIInv'
  BY DEF RecoverIInv, RecoverTypeOK, RecoverEvidence, RecoverVerdict, CheckNodes,
     facts, rig, Peer

LEMMA RecoverCheckEtcdInv == ASSUME RecoverIInv, CheckEtcd PROVE RecoverIInv'
  BY DEF RecoverIInv, RecoverTypeOK, RecoverEvidence, RecoverVerdict, CheckEtcd,
     Unhealthy, facts, rig, Peer

LEMMA RecoverCheckPcsInv == ASSUME RecoverIInv, CheckPcs PROVE RecoverIInv'
  BY DEF RecoverIInv, RecoverTypeOK, RecoverEvidence, RecoverVerdict, CheckPcs,
     Unhealthy, facts, rig, Peer

LEMMA RecoverPingPeerInv == ASSUME RecoverIInv, PingPeer PROVE RecoverIInv'
<1>1. RecoverTypeOK'
  <2>1. reachable' \in BOOLEAN
    <3>1. reachable' = (CanDebug => Peer \in alive)
      BY DEF PingPeer
    <3>2. QED
      BY <3>1, Zenon
  <2>2. QED
    BY <2>1 DEF RecoverIInv, RecoverTypeOK, PingPeer
<1>2. RecoverEvidence'
  BY DEF RecoverIInv, RecoverEvidence, PingPeer
<1>3. RecoverVerdict'
  <2>1. ~reachable' => Peer' \notin alive'
    <3>1. reachable' = (CanDebug => Peer \in alive) /\ Peer' = Peer
          /\ alive' = alive
      BY DEF PingPeer, Peer
    <3>2. QED
      BY <3>1, Zenon
  <2>2. task' = "ladder"
    BY DEF PingPeer
  <2>3. QED
    BY <2>1, <2>2 DEF RecoverVerdict
<1>4. QED
  BY <1>1, <1>2, <1>3 DEF RecoverIInv

LEMMA RecoverRunRungInv == ASSUME RecoverIInv, RunRung PROVE RecoverIInv'
<1>1. RecoverTypeOK'
  <2>1. rung' \in 0..5
    BY DEF RecoverIInv, RecoverTypeOK, RunRung
  <2>2. seen' \subseteq Signals
    BY DEF RecoverIInv, RecoverTypeOK, RunRung
  <2>3. QED
    BY <2>1, <2>2 DEF RecoverIInv, RecoverTypeOK, RunRung, facts, rig
<1>2. RecoverEvidence'
  BY DEF RecoverEvidence, RunRung
<1>3. RecoverVerdict'
  BY DEF RecoverIInv, RecoverVerdict, RunRung, facts, rig, Peer
<1>4. QED
  BY <1>1, <1>2, <1>3 DEF RecoverIInv

LEMMA RecoverSkipRungInv == ASSUME RecoverIInv, SkipRung PROVE RecoverIInv'
  BY DEF RecoverIInv, RecoverTypeOK, RecoverEvidence, RecoverVerdict, SkipRung,
     facts, rig, Peer

LEMMA RecoverGiveUpInv == ASSUME RecoverIInv, GiveUp PROVE RecoverIInv'
  BY DEF RecoverIInv, RecoverTypeOK, RecoverEvidence, RecoverVerdict, GiveUp, facts,
     rig, Peer

LEMMA RecoverRerunInv == ASSUME RecoverIInv, Rerun PROVE RecoverIInv'
<1>1. RecoverTypeOK'
  <2>1. reachable' = TRUE /\ cheap' = FALSE
    BY DEF Rerun
  <2>2. reachable' \in BOOLEAN /\ cheap' \in BOOLEAN
    BY <2>1, Zenon
  <2>3. QED
    BY <2>2 DEF RecoverIInv, RecoverTypeOK, Rerun, rig
<1>2. RecoverEvidence'
  BY DEF RecoverIInv, RecoverEvidence, Rerun, rig
<1>3. RecoverVerdict'
  BY DEF RecoverIInv, RecoverTypeOK, RecoverVerdict, Rerun, rig, Peer
<1>4. QED
  BY <1>1, <1>2, <1>3 DEF RecoverIInv

-----------------------------------------------------------------------------
(* The cluster's own steps.                                                *)

LEMMA RecoverNodeFailsInv == ASSUME RecoverIInv, NodeFails PROVE RecoverIInv'
  BY DEF RecoverIInv, RecoverTypeOK, RecoverEvidence, RecoverVerdict, NodeFails,
     play, facts, Peer

LEMMA RecoverNodeReturnsInv == ASSUME RecoverIInv, NodeReturns PROVE RecoverIInv'
  BY DEF RecoverIInv, RecoverTypeOK, RecoverEvidence, RecoverVerdict, NodeReturns,
     play, facts, Peer

LEMMA RecoverKubeletReportsInv == ASSUME RecoverIInv, KubeletReports
  PROVE  RecoverIInv'
  BY DEF RecoverIInv, RecoverTypeOK, RecoverEvidence, RecoverVerdict,
     KubeletReports, play, facts, Peer

LEMMA RecoverServicesChangeInv == ASSUME RecoverIInv, ServicesChange
  PROVE  RecoverIInv'
  BY DEF RecoverIInv, RecoverTypeOK, RecoverEvidence, RecoverVerdict,
     ServicesChange, play, facts, Peer

LEMMA RecoverNextIInv == RecoverIInv /\ [RecoverNext]_recoverVars => RecoverIInv'
<1> SUFFICES ASSUME RecoverIInv, [RecoverNext]_recoverVars PROVE RecoverIInv'
  OBVIOUS
<1>1. CASE Play
  BY <1>1, RecoverFindSurvivorInv, RecoverCheckNodesInv, RecoverCheckEtcdInv,
     RecoverCheckPcsInv, RecoverPingPeerInv, RecoverRunRungInv, RecoverSkipRungInv,
     RecoverGiveUpInv DEF Play
<1>2. CASE Rerun
  BY <1>2, RecoverRerunInv
<1>3. CASE \/ NodeFails \/ NodeReturns
           \/ KubeletReports \/ ServicesChange
  BY <1>3, RecoverNodeFailsInv, RecoverNodeReturnsInv, RecoverKubeletReportsInv,
     RecoverServicesChangeInv
<1>4. CASE UNCHANGED recoverVars
  BY <1>4 DEF recoverVars, rig, facts, RecoverIInv, RecoverTypeOK, RecoverEvidence,
     RecoverVerdict, Peer
<1>5. QED
  BY <1>1, <1>2, <1>3, <1>4 DEF RecoverNext

LEMMA RecoverInvariance == RecoverSpec => []RecoverIInv
<1>1. QED
  BY RecoverInitIInv, RecoverNextIInv, PTL DEF RecoverSpec

-----------------------------------------------------------------------------
(* The theorems.                                                           *)

\* The facts and the cluster stay within their types.
THEOREM RecoverTypeCorrect == RecoverSpec => []RecoverTypeOK
<1>1. RecoverIInv => RecoverTypeOK
  BY DEF RecoverIInv
<1>2. QED
  BY <1>1, RecoverInvariance, PTL

\* A play that ends well has seen all three signals good since its last
\* command, whichever of them check.yml skipped on the way.
THEOREM HealthyEvident == RecoverSpec => []HealthyIsEvidence
<1>1. RecoverIInv => HealthyIsEvidence
  BY DEF RecoverIInv, RecoverEvidence, HealthyIsEvidence
<1>2. QED
  BY <1>1, RecoverInvariance, PTL

\* No command of the ladder runs while all three signals are known good.
THEOREM OnlyFaultsRepaired == RecoverSpec => NoRepairWithoutFault
<1>1. RecoverIInv /\ [RecoverNext]_recoverVars =>
        [\A k \in Rungs : Runs(k) => seen # Signals]_recoverVars
  BY DEF RecoverIInv, RecoverEvidence, Runs
<1>2. QED
  BY <1>1, RecoverInvariance, PTL DEF RecoverSpec, NoRepairWithoutFault

\* Pacemaker is told that the peer is gone only by a play whose ping found it
\* gone: at rungs 3 and 4 the peer is down, or has come back since the ping.
THEOREM ToldOnlyUnlessBack == RecoverSpec => ToldGoneUnlessBack
<1>1. RecoverIInv /\ [RecoverNext]_recoverVars =>
        [Runs(Unblock) \/ Runs(Confirm) =>
            Peer \in returned \/ Peer \notin alive]_recoverVars
  <2> SUFFICES ASSUME RecoverIInv, RecoverNext,
                      Runs(Unblock) \/ Runs(Confirm)
               PROVE  Peer \in returned \/ Peer \notin alive
    OBVIOUS
  <2>1. RunRung
    BY DEF RecoverNext, Play, Runs, FindSurvivor, CheckNodes, CheckEtcd, CheckPcs,
       PingPeer, SkipRung, GiveUp, Rerun, NodeFails, NodeReturns, KubeletReports,
       ServicesChange, play
  <2>2. rung \in Nat /\ (rung' = Unblock \/ rung' = Confirm) /\ rung' = rung + 1
    BY <2>1 DEF RunRung, Runs, RecoverIInv, RecoverTypeOK
  <2>3. ~reachable
    BY <2>1, <2>2 DEF RunRung, Enabled, Unblock, Confirm
  <2>4. QED
    BY <2>3 DEF RecoverIInv, RecoverVerdict
<1>2. QED
  BY <1>1, RecoverInvariance, PTL DEF RecoverSpec, ToldGoneUnlessBack
=============================================================================
