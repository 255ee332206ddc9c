------------------------- MODULE RedfishShimProofs -------------------------
(***************************************************************************)
(* Theorems of RedfishShim, for every set of systems, instances and        *)
(* request threads, every tagging and every choice of pinned ids.          *)
(*                                                                         *)
(* TypeOK is not inductive: that Resolve reads a cache slot that exists    *)
(* rests on the request having been vetted, and that what it reads belongs *)
(* to the system on every thread having filled the cache with its own.     *)
(* The inductive invariant is the conjunction of the three.                *)
(***************************************************************************)
EXTENDS RedfishShim, TLAPS

IInv == TypeOK /\ BindingIsOwn /\ VettedBeforeEc2

LEMMA InitIInv == Init => IInv
  BY ConstantsAssumption
  DEF Init, IInv, TypeOK, BindingIsOwn, VettedBeforeEc2, InstanceStates,
      Locations, Ops, StopTypes, Answers

(***************************************************************************)
(* Receive vets the request and touches neither EC2 nor the cache.         *)
(***************************************************************************)
LEMMA ReceiveIInv ==
    ASSUME IInv, NEW t \in Threads, NEW o \in Ops, NEW s \in Systems \cup {Unknown},
           Receive(t, o, s)
    PROVE  IInv'
<1> USE ConstantsAssumption DEF IInv, TypeOK
<1>1. TypeOK'
  BY DEF Receive, Reply, Goto, Locations, Answers
<1>2. BindingIsOwn'
  BY DEF Receive, Reply, Goto, BindingIsOwn, VettedBeforeEc2, Owns
<1>3. VettedBeforeEc2'
  BY DEF Receive, Reply, Goto, VettedBeforeEc2
<1> QED
  BY <1>1, <1>2, <1>3

(***************************************************************************)
(* Resolving: each of the three steps hands on an instance of the system.  *)
(***************************************************************************)
LEMMA ResolveIInv ==
    ASSUME IInv, NEW t \in Threads, Resolve(t) PROVE IInv'
<1> USE ConstantsAssumption DEF IInv, TypeOK
<1> DEFINE s == target[t]
<1>1. s \in Systems
  BY DEF Resolve, VettedBeforeEc2
<1>2. CASE Pinned[s] # NoInstance /\ Resolved(t, "resolve", "act", Pinned[s])
  <2>1. TypeOK'
    BY <1>1, <1>2 DEF Resolve, Resolved, Goto, thread, Locations
  <2>2. BindingIsOwn'
    BY <1>1, <1>2 DEF Resolve, Resolved, Goto, thread, BindingIsOwn, Owns
  <2>3. VettedBeforeEc2'
    BY <1>1, <1>2 DEF Resolve, Resolved, Goto, thread, VettedBeforeEc2
  <2> QED
    BY <2>1, <2>2, <2>3
<1>3. CASE /\ Pinned[s] = NoInstance
           /\ cache[s] # NoInstance
           /\ Resolved(t, "resolve", "act", cache[s])
  <2>1. TypeOK'
    BY <1>1, <1>3 DEF Resolve, Resolved, Goto, thread, Locations
  <2>2. BindingIsOwn'
    BY <1>1, <1>3 DEF Resolve, Resolved, Goto, thread, BindingIsOwn, Owns
  <2>3. VettedBeforeEc2'
    BY <1>1, <1>3 DEF Resolve, Resolved, Goto, thread, VettedBeforeEc2
  <2> QED
    BY <2>1, <2>2, <2>3
<1>4. CASE /\ Pinned[s] = NoInstance
           /\ Goto(t, "resolve", "lookup")
           /\ UNCHANGED inst
  <2>1. TypeOK'
    BY <1>1, <1>4 DEF Resolve, Goto, thread, Locations
  <2>2. BindingIsOwn'
    BY <1>1, <1>4 DEF Resolve, Goto, thread, BindingIsOwn, Owns
  <2>3. VettedBeforeEc2'
    BY <1>1, <1>4 DEF Resolve, Goto, thread, VettedBeforeEc2
  <2> QED
    BY <2>1, <2>2, <2>3
<1> QED
  BY <1>2, <1>3, <1>4 DEF Resolve

LEMMA LookupIInv ==
    ASSUME IInv, NEW t \in Threads, Lookup(t) PROVE IInv'
<1> USE ConstantsAssumption DEF IInv, TypeOK
<1>1. ASSUME NEW i \in Tagged(target[t]), Resolved(t, "lookup", "store", i),
             UNCHANGED answer
      PROVE  IInv'
  <2>1. i \in Instances /\ NameTag[i] = target[t]
    BY <1>1 DEF Tagged
  <2>2. TypeOK'
    BY <1>1, <2>1 DEF Lookup, Resolved, Goto, thread, Locations
  <2>3. BindingIsOwn'
    BY <1>1, <2>1 DEF Lookup, Resolved, Goto, thread, BindingIsOwn, VettedBeforeEc2, Owns
  <2>4. VettedBeforeEc2'
    BY <1>1, <2>1 DEF Lookup, Resolved, Goto, thread, VettedBeforeEc2
  <2> QED
    BY <2>2, <2>3, <2>4
<1>2. CASE Reply(t, "lookup", "500") /\ UNCHANGED inst
  <2>1. TypeOK'
    BY <1>2 DEF Lookup, Reply, Goto, thread, Locations, Answers
  <2>2. BindingIsOwn'
    BY <1>2 DEF Lookup, Reply, Goto, thread, BindingIsOwn, Owns
  <2>3. VettedBeforeEc2'
    BY <1>2 DEF Lookup, Reply, Goto, thread, VettedBeforeEc2
  <2> QED
    BY <2>1, <2>2, <2>3
<1> QED
  BY <1>1, <1>2 DEF Lookup

LEMMA StoreIInv ==
    ASSUME IInv, NEW t \in Threads, Store(t) PROVE IInv'
<1> USE ConstantsAssumption DEF IInv, TypeOK
<1>1. target[t] \in Systems /\ inst[t] \in Instances /\ NameTag[inst[t]] = target[t]
  BY DEF Store, Goto, VettedBeforeEc2, BindingIsOwn, Owns
<1>2. TypeOK'
  BY <1>1 DEF Store, Goto, thread, Locations
<1>3. BindingIsOwn'
  BY <1>1 DEF Store, Goto, thread, BindingIsOwn, Owns
<1>4. VettedBeforeEc2'
  BY <1>1 DEF Store, Goto, thread, VettedBeforeEc2
<1> QED
  BY <1>2, <1>3, <1>4

(***************************************************************************)
(* A step that ends the request with an answer and, besides, changes at    *)
(* most EC2's states: Describe, Start, Stop and Ec2Error.                  *)
(***************************************************************************)
LEMMA AnswerIInv ==
    ASSUME IInv, NEW t \in Threads, NEW from \in Locations, NEW a \in Answers \ {"none"},
           Reply(t, from, a), ec2' \in [Instances -> InstanceStates],
           UNCHANGED <<cache, op, target, inst>>
    PROVE  IInv'
<1> USE ConstantsAssumption DEF IInv, TypeOK
<1>1. TypeOK'
  BY DEF Reply, Goto, Locations
<1>2. BindingIsOwn'
  BY DEF BindingIsOwn, Owns
<1>3. VettedBeforeEc2'
  BY DEF Reply, Goto, VettedBeforeEc2
<1> QED
  BY <1>1, <1>2, <1>3

LEMMA CallIInv ==
    ASSUME IInv, NEW t \in Threads, Describe(t) \/ Start(t) \/ Stop(t) \/ Ec2Error(t)
    PROVE  IInv'
<1>1. CASE Describe(t)
  <2>1. PICK a \in Answers \ {"none"} : Reply(t, "act", a)
    BY <1>1 DEF Describe, PowerState, Answers
  <2> QED
    BY <1>1, <2>1, AnswerIInv DEF Describe, thread, Locations, IInv, TypeOK
<1>2. CASE Start(t)
  <2>1. PICK a \in Answers \ {"none"} : Reply(t, "act", a)
    BY <1>2 DEF Start, Answers
  <2>2. ec2' \in [Instances -> InstanceStates]
    BY <1>2 DEF Start, InstanceStates, IInv, TypeOK
  <2> QED
    BY <1>2, <2>1, <2>2, AnswerIInv DEF Start, thread, Locations
<1>3. CASE Stop(t)
  <2>1. PICK a \in Answers \ {"none"} : Reply(t, "act", a)
    BY <1>3 DEF Stop, Answers
  <2>2. ec2' \in [Instances -> InstanceStates]
    BY <1>3 DEF Stop, InstanceStates, IInv, TypeOK
  <2> QED
    BY <1>3, <2>1, <2>2, AnswerIInv DEF Stop, thread, Locations
<1>4. CASE Ec2Error(t)
  <2>1. PICK from \in Locations : Reply(t, from, "500")
    BY <1>4 DEF Ec2Error, Locations
  <2> QED
    BY <1>4, <2>1, AnswerIInv DEF Ec2Error, thread, Answers, IInv, TypeOK
<1> QED
  BY <1>1, <1>2, <1>3, <1>4

(***************************************************************************)
(* The end of a request, the end of the process, and EC2 by itself.        *)
(***************************************************************************)
LEMMA RespondIInv ==
    ASSUME IInv, NEW t \in Threads, Respond(t) PROVE IInv'
<1> USE ConstantsAssumption DEF IInv, TypeOK
<1>1. TypeOK'
  BY DEF Respond, Goto, Locations, Ops, Answers
<1>2. BindingIsOwn'
  BY DEF Respond, Goto, BindingIsOwn, Owns
<1>3. VettedBeforeEc2'
  BY DEF Respond, Goto, VettedBeforeEc2
<1> QED
  BY <1>1, <1>2, <1>3

LEMMA RestartIInv ==
    ASSUME IInv, Restart PROVE IInv'
  BY ConstantsAssumption
  DEF IInv, TypeOK, BindingIsOwn, VettedBeforeEc2, Restart, Locations, Ops, Answers

LEMMA Ec2StepIInv ==
    ASSUME IInv, NEW i \in Instances, Ec2Step(i) PROVE IInv'
<1>1. ec2' \in [Instances -> InstanceStates] /\ UNCHANGED <<cache, pc, thread, inst, answer>>
  BY DEF IInv, TypeOK, Ec2Step, Launch, Boot, GuestShutdown, Halt, Terminate, Reap,
         Forget, Move, InstanceStates
<1> QED
  BY <1>1 DEF IInv, TypeOK, BindingIsOwn, VettedBeforeEc2, Owns, thread

(***************************************************************************)
(* Every request that reaches EC2 was vetted and is bound to an instance   *)
(* of the system it names, whatever the threads and the cache do.          *)
(***************************************************************************)
THEOREM Invariance == Spec => []IInv
<1>1. IInv /\ [Next]_vars => IInv'
  <2> SUFFICES ASSUME IInv, [Next]_vars PROVE IInv'
    OBVIOUS
  <2>1. CASE UNCHANGED vars
    BY <2>1 DEF vars, IInv, TypeOK, BindingIsOwn, VettedBeforeEc2, Owns
  <2> QED
    BY <2>1, ReceiveIInv, ResolveIInv, LookupIInv, StoreIInv, CallIInv, RespondIInv,
       RestartIInv, Ec2StepIInv
    DEF Next, Serve
<1> QED
  BY InitIInv, <1>1, PTL DEF Spec

(***************************************************************************)
(* The variables stay in their types.                                      *)
(***************************************************************************)
THEOREM TypeCorrect == Spec => []TypeOK
  BY Invariance, PTL DEF IInv

(***************************************************************************)
(* The cache and the threads never bind a system to another's instance.    *)
(***************************************************************************)
THEOREM BindingCorrect == Spec => []BindingIsOwn
  BY Invariance, PTL DEF IInv

(***************************************************************************)
(* No request comes to an EC2 call but for a configured system, with an    *)
(* instance and a reset type that were vetted before.                      *)
(***************************************************************************)
THEOREM VettedCorrect == Spec => []VettedBeforeEc2
  BY Invariance, PTL DEF IInv
(***************************************************************************)
(* Steps that move a thread change EC2 only as Start or Stop does, and     *)
(* only the instance the thread is bound to.                               *)
(***************************************************************************)
LEMMA ThreadStepIsLocal ==
    ASSUME IInv, Next, NEW t \in Threads, pc[t] # pc'[t],
           NEW i \in Instances, ec2[i] # ec2'[i]
    PROVE  /\ i = inst[t]
           /\ Start(t) \/ Stop(t)
<1> USE DEF IInv, TypeOK
<1>1. ASSUME NEW u \in Threads, Serve(u) PROVE i = inst[u] /\ (Start(u) \/ Stop(u))
  <2>1. ASSUME Start(u) \/ Stop(u) PROVE i = inst[u]
    BY <2>1 DEF Start, Stop
  <2> QED
    BY <1>1, <2>1 DEF Serve, Resolve, Lookup, Store, Describe, Ec2Error, Respond
<1>2. ASSUME NEW u \in Threads, Start(u) \/ Stop(u) PROVE u = t
  BY <1>2 DEF Start, Stop, Reply, Goto
<1>3. ASSUME NEW j \in Instances, Ec2Step(j) PROVE FALSE
  BY <1>3 DEF Ec2Step, Launch, Boot, GuestShutdown, Halt, Terminate, Reap, Forget, Move
<1> QED
  BY <1>1, <1>2, <1>3 DEF Next, Receive, Restart

(***************************************************************************)
(* No request about one node changes the power of another.                 *)
(***************************************************************************)
THEOREM CrossFireFree == Spec => NoCrossFire
<1>1. ASSUME IInv, [Next]_vars, NEW t \in Threads, NEW i \in Instances,
             pc[t] # pc'[t], ec2[i] # ec2'[i]
      PROVE  Owns(target[t], i)
  <2>1. Next
    BY <1>1 DEF vars
  <2>2. i = inst[t]
    BY <1>1, <2>1, ThreadStepIsLocal
  <2> QED
    BY <1>1, <2>2, ConstantsAssumption DEF IInv, BindingIsOwn
<1>2. IInv /\ [Next]_vars =>
        [\A t \in Threads, i \in Instances :
            pc[t] # pc'[t] /\ ec2[i] # ec2'[i] => Owns(target[t], i)]_vars
  BY <1>1
<1> QED
  BY <1>2, Invariance, PTL DEF Spec, NoCrossFire

(***************************************************************************)
(* As long as no instance is ever replaced, a GET says "Off" only in a     *)
(* step taken while no instance of the node can write.                     *)
(***************************************************************************)
THEOREM OffIsTruthful ==
    ASSUME OneInstanceEach PROVE Spec => OffMeansDown
<1>1. ASSUME IInv, [Next]_vars, NEW t \in Threads, answer[t] # "Off", answer'[t] = "Off"
      PROVE  Down(target[t])
  <2>1. Describe(t)
    BY <1>1 DEF IInv, TypeOK, Next, vars, Serve, Receive, Resolve, Resolved, Lookup, Store,
      Describe, Start, Stop, Ec2Error, Respond, Restart, Reply, Ec2Step, Launch, Boot,
      GuestShutdown, Halt, Terminate, Reap, Forget, Move
  <2>2. inst[t] \in Instances /\ target[t] \in Systems /\ Owns(target[t], inst[t])
    BY <1>1, <2>1, ConstantsAssumption
    DEF Describe, Reply, Goto, IInv, VettedBeforeEc2, BindingIsOwn
  <2>3. ec2[inst[t]] \in POWERED_OFF_STATES
    BY <1>1, <2>1 DEF Describe, PowerState, Reply, IInv, TypeOK
  <2> QED
    BY <2>2, <2>3, OneInstanceEach DEF Down, POWERED_OFF_STATES, Writable, OneInstanceEach
<1>2. IInv /\ [Next]_vars =>
        [\A t \in Threads :
            answer[t] # "Off" /\ answer'[t] = "Off" => Down(target[t])]_vars
  BY <1>1
<1> QED
  BY <1>2, Invariance, PTL DEF Spec, OffMeansDown
(***************************************************************************)
(* The refinement.  A step of the shim is a step of the oracle or leaves   *)
(* the oracle alone; one lemma per group of actions.                       *)
(***************************************************************************)
LEMMA OwnedDown ==
    ASSUME OneInstanceEach, NEW s \in Systems, NEW i \in Instances, Owns(s, i)
    PROVE  /\ NameTag[i] = s
           /\ Down(s) <=> ec2[i] \notin Writable
           /\ Down(s)' <=> ec2'[i] \notin Writable
  BY DEF OneInstanceEach, Down

LEMMA OracleInit == Init => Oracle!Init
<1> SUFFICES ASSUME Init PROVE Oracle!Init
  OBVIOUS
<1>1. upBar = {}
  BY ConstantsAssumption DEF Init, upBar, Down, Writable
<1>2. askedBar = [t \in Threads |-> Unknown]
  BY DEF Init, askedBar, Turned
<1>3. kindBar = [t \in Threads |-> "query"]
  BY DEF Init, kindBar, Turned
<1>4. saidBar = [t \in Threads |-> "none"]
  BY DEF Init, saidBar
<1> QED
  BY <1>1, <1>2, <1>3, <1>4 DEF Oracle!Init

LEMMA OracleReceive ==
    ASSUME IInv, NEW t \in Threads, NEW o \in Ops, NEW s \in Systems \cup {Unknown},
           Receive(t, o, s)
    PROVE  Oracle!Ask(t) \/ UNCHANGED Oracle!vars
<1> USE ConstantsAssumption DEF IInv, TypeOK
<1>0. pc[t] = "idle" /\ answer[t] = "none"
  BY DEF Receive, VettedBeforeEc2
<1>1. UNCHANGED upBar
  BY DEF Receive, upBar, Down
<1>2. CASE s \in Systems /\ o # "Unsupported"
  <2> DEFINE k == IF o = "Get" THEN "query" ELSE "switch"
  <2>1. askedBar' = [askedBar EXCEPT ![t] = s]
    BY <1>0, <1>2 DEF Receive, Goto, Reply, askedBar, Turned
  <2>2. kindBar' = [kindBar EXCEPT ![t] = k]
    BY <1>0, <1>2 DEF Receive, Goto, Reply, kindBar, Turned
  <2>3. UNCHANGED saidBar
    BY <1>0, <1>2 DEF Receive, Goto, Reply, saidBar
  <2>4. askedBar[t] = Unknown
    BY <1>0 DEF askedBar, Turned
  <2> QED
    BY <1>1, <1>2, <2>1, <2>2, <2>3, <2>4 DEF Oracle!Ask
<1>3. CASE ~(s \in Systems /\ o # "Unsupported")
  <2>1. PICK a \in {"400", "404"} : Reply(t, "idle", a)
    BY <1>3 DEF Receive
  <2>2. UNCHANGED askedBar
    BY <1>0, <2>1 DEF Receive, Goto, Reply, askedBar, Turned
  <2>3. UNCHANGED kindBar
    BY <1>0, <2>1 DEF Receive, Goto, Reply, kindBar, Turned
  <2>4. UNCHANGED saidBar
    BY <1>0, <2>1 DEF Receive, Goto, Reply, saidBar
  <2> QED
    BY <1>1, <2>2, <2>3, <2>4 DEF Oracle!vars
<1> QED
  BY <1>2, <1>3

LEMMA OracleResolving ==
    ASSUME IInv, NEW t \in Threads,
           Resolve(t) \/ Store(t) \/ (Lookup(t) /\ UNCHANGED answer)
    PROVE  UNCHANGED Oracle!vars
<1> USE DEF IInv, TypeOK
<1>1. /\ UNCHANGED <<ec2, op, target, answer>>
      /\ \A u \in Threads : pc[u] = "idle" <=> pc'[u] = "idle"
  BY DEF Resolve, Store, Lookup, Resolved, Reply, Goto, thread
<1>2. UNCHANGED <<upBar, askedBar, kindBar, saidBar>>
  BY <1>1 DEF upBar, Down, askedBar, kindBar, saidBar, Turned
<1> QED
  BY <1>2 DEF Oracle!vars
\* A thread that answers was at work on a vetted request, and only its answer
\* changes for the oracle.
LEMMA OracleAnswered ==
    ASSUME IInv, NEW t \in Threads, NEW from \in {"lookup", "act"},
           NEW a \in {"On", "Off", "200", "500"},
           Reply(t, from, a), UNCHANGED <<op, target>>
    PROVE  /\ Oracle!Pending(t)
           /\ askedBar[t] = target[t]
           /\ target[t] \in Systems
           /\ kindBar[t] = IF op[t] = "Get" THEN "query" ELSE "switch"
           /\ Oracle!Say(t, IF a = "500" THEN "error" ELSE IF a = "200" THEN "accepted" ELSE a)
<1> USE ConstantsAssumption DEF IInv, TypeOK
<1>1. answer[t] = "none" /\ target[t] \in Systems /\ pc[t] = from
  BY DEF Reply, Goto, VettedBeforeEc2
<1>2. askedBar[t] = target[t] /\ saidBar[t] = "none"
  BY <1>1 DEF askedBar, saidBar, Turned
<1>3. kindBar[t] = IF op[t] = "Get" THEN "query" ELSE "switch"
  BY <1>1 DEF kindBar, Turned
<1>4. UNCHANGED <<askedBar, kindBar>>
  BY <1>1 DEF Reply, Goto, askedBar, kindBar, Turned
<1>5. saidBar' = [saidBar EXCEPT ![t] = IF a = "500" THEN "error"
                                        ELSE IF a = "200" THEN "accepted" ELSE a]
  BY <1>1 DEF Reply, saidBar
<1> QED
  BY <1>1, <1>2, <1>3, <1>4, <1>5 DEF Oracle!Pending, Oracle!Say

\* An error may be the answer to a query and to a switch.
LEMMA OracleError ==
    ASSUME IInv, NEW t \in Threads, NEW from \in {"lookup", "act"},
           Reply(t, from, "500"), UNCHANGED <<ec2, op, target>>
    PROVE  Oracle!AnswerQuery(t) \/ Oracle!AnswerSwitch(t)
<1>1. UNCHANGED upBar
  BY DEF upBar, Down
<1>2. /\ Oracle!Pending(t)
      /\ kindBar[t] = IF op[t] = "Get" THEN "query" ELSE "switch"
      /\ Oracle!Say(t, "error")
  BY OracleAnswered
<1> QED
  BY <1>1, <1>2 DEF Oracle!AnswerQuery, Oracle!AnswerSwitch

LEMMA OracleDescribe ==
    ASSUME IInv, OneInstanceEach, NEW t \in Threads, Describe(t)
    PROVE  Oracle!AnswerQuery(t) \/ Oracle!AnswerSwitch(t)
<1> USE ConstantsAssumption DEF IInv, TypeOK
<1> DEFINE s == target[t]
           i == inst[t]
<1>1. UNCHANGED <<ec2, op, target>> /\ op[t] = "Get" /\ UNCHANGED upBar
  BY DEF Describe, thread, upBar, Down
<1>2. s \in Systems /\ i \in Instances /\ Owns(s, i)
  BY DEF Describe, VettedBeforeEc2, BindingIsOwn
<1>3. CASE Reply(t, "act", "500")
  BY <1>1, <1>3, OracleError
<1>4. CASE Reply(t, "act", "On")
  <2>1. Oracle!Pending(t) /\ kindBar[t] = "query" /\ Oracle!Say(t, "On")
    BY <1>1, <1>4, OracleAnswered
  <2> QED
    BY <1>1, <2>1 DEF Oracle!AnswerQuery
<1>5. CASE Reply(t, "act", "Off")
  <2>1. /\ Oracle!Pending(t) /\ kindBar[t] = "query" /\ Oracle!Say(t, "Off")
        /\ askedBar[t] = s
    BY <1>1, <1>5, OracleAnswered
  <2>2. ec2[i] \in POWERED_OFF_STATES
    BY <1>2, <1>5 DEF Describe, PowerState, Reply
  <2>3. s \notin upBar
    BY <1>2, <2>2, OwnedDown DEF upBar, POWERED_OFF_STATES, Writable
  <2> QED
    BY <1>1, <2>1, <2>3 DEF Oracle!AnswerQuery
<1> QED
  BY <1>3, <1>4, <1>5 DEF Describe, PowerState

\* A start may bring its own machine up; a stop cuts nothing at once.
LEMMA OracleSwitch ==
    ASSUME IInv, OneInstanceEach, NEW t \in Threads, Start(t) \/ Stop(t)
    PROVE  Oracle!AnswerQuery(t) \/ Oracle!AnswerSwitch(t)
<1> USE ConstantsAssumption DEF IInv, TypeOK
<1> DEFINE s == target[t]
           i == inst[t]
<1>1. UNCHANGED <<op, target>> /\ op[t] # "Get"
  BY DEF Start, Stop, thread, StopTypes
<1>2. s \in Systems /\ i \in Instances /\ Owns(s, i)
  BY DEF Start, Stop, VettedBeforeEc2, BindingIsOwn
<1>3. CASE Reply(t, "act", "500") /\ UNCHANGED ec2
  BY <1>1, <1>3, OracleError
<1>4. CASE Reply(t, "act", "200")
  <2>1. /\ Oracle!Pending(t) /\ kindBar[t] = "switch" /\ Oracle!Say(t, "accepted")
        /\ askedBar[t] = s
    BY <1>1, <1>4, OracleAnswered
  <2>2. CASE UNCHANGED ec2
    <3>1. UNCHANGED upBar
      BY <2>2 DEF upBar, Down
    <3> QED
      BY <2>1, <3>1 DEF Oracle!AnswerSwitch
  <2>3. CASE ec2[i] = "running" /\ ec2' = [ec2 EXCEPT ![i] = "stopping"]
    <3>1. UNCHANGED upBar
      BY <1>2, <2>3 DEF upBar, Down, Writable
    <3> QED
      BY <2>1, <3>1 DEF Oracle!AnswerSwitch
  <2>4. CASE ec2[i] = "stopped" /\ ec2' = [ec2 EXCEPT ![i] = "pending"]
    <3>1. NameTag[i] = s
      BY <1>2, OwnedDown
    <3>2. ASSUME NEW r \in Systems PROVE Down(r)' <=> r # s /\ Down(r)
      BY <1>2, <2>4, <3>1 DEF Down, Writable
    <3>3. upBar' = upBar \cup {s}
      BY <1>2, <3>2 DEF upBar
    <3> QED
      BY <2>1, <3>3 DEF Oracle!AnswerSwitch
  <2> QED
    BY <1>4, <2>2, <2>3, <2>4 DEF Start, Stop
<1> QED
  BY <1>3, <1>4 DEF Start, Stop
LEMMA OracleRespond ==
    ASSUME IInv, NEW t \in Threads, Respond(t)
    PROVE  Oracle!Finish(t) \/ UNCHANGED Oracle!vars
<1> USE ConstantsAssumption DEF IInv, TypeOK
<1>1. UNCHANGED upBar
  BY DEF Respond, upBar, Down
<1>2. askedBar' = [askedBar EXCEPT ![t] = Unknown]
  BY DEF Respond, Goto, askedBar, Turned
<1>3. kindBar' = [kindBar EXCEPT ![t] = "query"]
  BY DEF Respond, Goto, kindBar, Turned
<1>4. saidBar' = [saidBar EXCEPT ![t] = "none"]
  BY DEF Respond, saidBar
<1>5. CASE saidBar[t] # "none"
  BY <1>1, <1>2, <1>3, <1>4, <1>5 DEF Oracle!Finish
<1>6. CASE saidBar[t] = "none"
  <2>1. answer[t] \in {"400", "404"}
    BY <1>6 DEF Respond, Goto, VettedBeforeEc2, saidBar, Answers
  <2>2. askedBar[t] = Unknown /\ kindBar[t] = "query"
    BY <2>1 DEF askedBar, kindBar, Turned
  <2>3. UNCHANGED askedBar
    BY <1>2, <2>2 DEF askedBar
  <2>4. UNCHANGED kindBar
    BY <1>3, <2>2 DEF kindBar
  <2>5. UNCHANGED saidBar
    BY <1>4, <1>6 DEF saidBar
  <2> QED
    BY <1>1, <2>3, <2>4, <2>5 DEF Oracle!vars
<1> QED
  BY <1>5, <1>6

LEMMA OracleRestart ==
    ASSUME IInv, Restart PROVE Oracle!Lose
<1>1. UNCHANGED upBar
  BY DEF Restart, upBar, Down
<1>2. askedBar' = [t \in Threads |-> Unknown]
  BY DEF Restart, askedBar, Turned
<1>3. kindBar' = [t \in Threads |-> "query"]
  BY DEF Restart, kindBar, Turned
<1>4. saidBar' = [t \in Threads |-> "none"]
  BY DEF Restart, saidBar
<1> QED
  BY <1>1, <1>2, <1>3, <1>4 DEF Oracle!Lose

\* EC2 by itself moves one instance, so at most one machine changes power.
LEMMA OracleEc2Step ==
    ASSUME IInv, OneInstanceEach, NEW i \in Instances, Ec2Step(i)
    PROVE  \E s \in Systems : Oracle!PowerChange(s)
<1> USE ConstantsAssumption DEF IInv, TypeOK
<1> DEFINE s == NameTag[i]
<1>1. /\ UNCHANGED <<pc, op, target, answer>>
      /\ \A j \in Instances : j # i => ec2'[j] = ec2[j]
  BY DEF Ec2Step, Launch, Boot, GuestShutdown, Halt, Terminate, Reap, Forget, Move, thread
<1>2. UNCHANGED <<askedBar, kindBar, saidBar>>
  BY <1>1 DEF askedBar, kindBar, saidBar, Turned
<1>3. s \in Systems
  OBVIOUS
<1>4. ASSUME NEW r \in Systems, r # s PROVE Down(r)' <=> Down(r)
  BY <1>1, <1>4 DEF Down
<1>5. upBar' \in {upBar \cup {s}, upBar \ {s}}
  BY <1>3, <1>4 DEF upBar
<1> QED
  BY <1>2, <1>3, <1>5 DEF Oracle!PowerChange

LEMMA OracleLookup ==
    ASSUME IInv, NEW t \in Threads, Lookup(t)
    PROVE  Oracle!AnswerQuery(t) \/ Oracle!AnswerSwitch(t) \/ UNCHANGED Oracle!vars
<1>1. CASE UNCHANGED answer
  BY <1>1, OracleResolving
<1>2. CASE Reply(t, "lookup", "500")
  BY <1>2, OracleError DEF Lookup, thread
<1> QED
  BY <1>1, <1>2 DEF Lookup

(***************************************************************************)
(* As long as no instance is ever replaced, the shim is the power oracle   *)
(* Pacemaker needs: every behaviour of RedfishShim is one of PowerOracle.  *)
(***************************************************************************)
THEOREM Refinement ==
    ASSUME OneInstanceEach PROVE Spec => ImplementsOracle
<1>1. IInv /\ [Next]_vars => [Oracle!Next]_(Oracle!vars)
  <2> SUFFICES ASSUME IInv, [Next]_vars PROVE Oracle!Next \/ UNCHANGED Oracle!vars
    OBVIOUS
  <2>1. ASSUME NEW t \in Threads, NEW o \in Ops, NEW s \in Systems \cup {Unknown},
               Receive(t, o, s)
        PROVE  Oracle!Next \/ UNCHANGED Oracle!vars
    BY <2>1, OracleReceive DEF Oracle!Next
  <2>2. ASSUME NEW t \in Threads, Serve(t)
        PROVE  Oracle!Next \/ UNCHANGED Oracle!vars
    <3>1. CASE Resolve(t) \/ Store(t)
      BY <3>1, OracleResolving
    <3>2. CASE Lookup(t)
      BY <3>2, OracleLookup DEF Oracle!Next
    <3>3. CASE Describe(t)
      BY <3>3, OracleDescribe DEF Oracle!Next
    <3>4. CASE Start(t) \/ Stop(t)
      BY <3>4, OracleSwitch DEF Oracle!Next
    <3>5. CASE Ec2Error(t)
      BY <3>5, OracleError DEF Ec2Error, thread, Oracle!Next
    <3>6. CASE Respond(t)
      BY <3>6, OracleRespond DEF Oracle!Next
    <3> QED
      BY <2>2, <3>1, <3>2, <3>3, <3>4, <3>5, <3>6 DEF Serve
  <2>3. ASSUME NEW i \in Instances, Ec2Step(i)
        PROVE  Oracle!Next \/ UNCHANGED Oracle!vars
    BY <2>3, OracleEc2Step DEF Oracle!Next
  <2>4. CASE Restart
    BY <2>4, OracleRestart DEF Oracle!Next
  <2>5. CASE UNCHANGED vars
    <3>1. UNCHANGED <<upBar, askedBar, kindBar, saidBar>>
      BY <2>5 DEF vars, upBar, Down, askedBar, kindBar, saidBar, Turned
    <3> QED
      BY <3>1 DEF Oracle!vars
  <2> QED
    BY <2>1, <2>2, <2>3, <2>4, <2>5 DEF Next
<1> QED
  BY <1>1, Invariance, OracleInit, PTL DEF Spec, Oracle!Spec, ImplementsOracle
=============================================================================
