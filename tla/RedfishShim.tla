---------------------------- MODULE RedfishShim ----------------------------
(***************************************************************************)
(* tools/redfish-ec2/redfish_ec2.py: the Redfish endpoint the fence agent  *)
(* talks to, answered by EC2.  ThreadingHTTPServer gives every request a   *)
(* thread; the threads share Ec2Power's cache of resolved instance ids,    *)
(* which is locked for each access but not between the miss and the fill.  *)
(* A thread is therefore cut at every lock acquisition and every EC2 call. *)
(***************************************************************************)
EXTENDS FiniteSets

CONSTANTS
    Systems,        \* logical ids in the configuration ("master-0", ...)
    Unknown,        \* a logical id that is not in the configuration
    Instances,      \* EC2 instance ids, including ones not launched yet
    Threads,        \* request threads of ThreadingHTTPServer
    NameTag,        \* the system whose Name tag an instance is launched with
    Pinned,         \* the configured instance_id of a system, or NoInstance
    NoInstance

ASSUME ConstantsAssumption ==
    /\ Unknown \notin Systems
    /\ NoInstance \notin Instances
    /\ NameTag \in [Instances -> Systems]
    /\ Pinned \in [Systems -> Instances \cup {NoInstance}]

VARIABLES
    ec2,            \* EC2's state of every instance
    cache,          \* Ec2Power._cache
    pc,             \* where the thread is
    op,             \* "Get", or the ResetType of a POST
    target,         \* the system id in the URL
    inst,           \* the instance id the thread resolved
    answer          \* the PowerState or the status the thread sends

vars == <<ec2, cache, pc, op, target, inst, answer>>

thread == <<op, target>>

-----------------------------------------------------------------------------
(* EC2's instance life cycle.  "absent" is an id not launched yet and       *)
(* "gone" one that DescribeInstances has forgotten.                        *)

InstanceStates == {"absent", "pending", "running", "stopping", "stopped",
                   "shutting-down", "terminated", "gone"}

\* Mutant: an instance on its way down already counts as off.
EarlyOffStates == {"stopping", "stopped", "terminated"}

POWERED_OFF_STATES == {"stopped", "terminated"}

\* The machine can still write to shared state.
Writable == {"pending", "running", "stopping", "shutting-down"}

\* The states Ec2Power._resolve filters its Name-tag lookup to.
LookupStates == {"pending", "running", "stopping", "stopped"}

\* "ForceRestart" stands for PowerCycle and GracefulRestart too: one branch
\* handles the three.
StopTypes    == {"ForceOff", "GracefulShutdown", "ForceRestart"}
Ops          == {"Get", "On", "Unsupported"} \cup StopTypes
Answers      == {"none", "On", "Off", "200", "400", "404", "500"}
Locations    == {"idle", "resolve", "lookup", "store", "act", "reply"}

TypeOK ==
    /\ ec2    \in [Instances -> InstanceStates]
    /\ cache  \in [Systems -> Instances \cup {NoInstance}]
    /\ pc     \in [Threads -> Locations]
    /\ op     \in [Threads -> Ops]
    /\ target \in [Threads -> Systems \cup {Unknown}]
    /\ inst   \in [Threads -> Instances \cup {NoInstance}]
    /\ answer \in [Threads -> Answers]

Init ==
    /\ ec2    = [i \in Instances |-> "absent"]
    /\ cache  = [s \in Systems |-> NoInstance]
    /\ pc     = [t \in Threads |-> "idle"]
    /\ op     = [t \in Threads |-> "Get"]
    /\ target = [t \in Threads |-> Unknown]
    /\ inst   = [t \in Threads |-> NoInstance]
    /\ answer = [t \in Threads |-> "none"]

-----------------------------------------------------------------------------
(* The request handlers.                                                   *)

Goto(t, from, to) ==
    /\ pc[t] = from
    /\ pc' = [pc EXCEPT ![t] = to]

Reply(t, from, a) ==
    /\ Goto(t, from, "reply")
    /\ answer' = [answer EXCEPT ![t] = a]

\* The checks a handler makes before it touches EC2: an unknown system is a
\* 404, an unsupported ResetType of a known one a 400.
Receive(t, o, s) ==
    /\ pc[t] = "idle"
    /\ op' = [op EXCEPT ![t] = o]
    /\ target' = [target EXCEPT ![t] = s]
    /\ \/ /\ s \notin Systems
          /\ Reply(t, "idle", "404")
       \/ /\ s \in Systems
          /\ o = "Unsupported"
          /\ Reply(t, "idle", "400")
       \/ /\ s \in Systems
          /\ o # "Unsupported"
          /\ Goto(t, "idle", "resolve")
          /\ UNCHANGED answer
    /\ UNCHANGED <<ec2, cache, inst>>

Resolved(t, from, to, i) ==
    /\ Goto(t, from, to)
    /\ inst' = [inst EXCEPT ![t] = i]

\* A pinned instance_id, or the cache read under the lock.
Resolve(t) ==
    LET s == target[t] IN
    /\ pc[t] = "resolve"
    /\ \/ Pinned[s] # NoInstance /\ Resolved(t, "resolve", "act", Pinned[s])
       \/ /\ Pinned[s] = NoInstance
          /\ cache[s] # NoInstance
          /\ Resolved(t, "resolve", "act", cache[s])
       \/ /\ Pinned[s] = NoInstance
          /\ cache[s] = NoInstance
          /\ Goto(t, "resolve", "lookup")
          /\ UNCHANGED inst
    /\ UNCHANGED <<ec2, cache, thread, answer>>

\* Mutant: the lookup filters by state and forgets the Name tag.
AnyLive(s) == {i \in Instances : ec2[i] \in LookupStates}

\* What describe_instances returns for the Name tag of s.
Tagged(s) == {i \in Instances : NameTag[i] = s /\ ec2[i] \in LookupStates}

\* The Name-tag lookup, made outside the lock: exactly one instance, or a
\* LookupError that the handler turns into a 500.
Lookup(t) ==
    LET found == Tagged(target[t]) IN
    /\ pc[t] = "lookup"
    /\ \/ \E i \in found : found = {i} /\ Resolved(t, "lookup", "store", i)
                                       /\ UNCHANGED answer
       \/ /\ \A i \in found : found # {i}
          /\ Reply(t, "lookup", "500")
          /\ UNCHANGED inst
    /\ UNCHANGED <<ec2, cache, thread>>

\* The fill, under the lock again: it does not look at what is there by now.
Store(t) ==
    /\ Goto(t, "store", "act")
    /\ cache' = [cache EXCEPT ![target[t]] = inst[t]]
    /\ UNCHANGED <<ec2, thread, inst, answer>>

PowerState(st) == IF st \in POWERED_OFF_STATES THEN "Off" ELSE "On"

\* state(): describe by id.  Only a forgotten (or never launched) id is an error.
Describe(t) ==
    /\ pc[t] = "act"
    /\ op[t] = "Get"
    /\ Reply(t, "act", IF ec2[inst[t]] \in {"absent", "gone"}
                       THEN "500" ELSE PowerState(ec2[inst[t]]))
    /\ UNCHANGED <<ec2, cache, thread, inst>>

\* start(): EC2 refuses an instance that is on its way down or terminated.
Start(t) ==
    LET i == inst[t] IN
    /\ pc[t] = "act"
    /\ op[t] = "On"
    /\ \/ /\ ec2[i] = "stopped"
          /\ ec2' = [ec2 EXCEPT ![i] = "pending"]
          /\ Reply(t, "act", "200")
       \/ /\ ec2[i] \in {"pending", "running"}
          /\ Reply(t, "act", "200")
          /\ UNCHANGED ec2
       \/ /\ ec2[i] \notin {"stopped", "pending", "running"}
          /\ Reply(t, "act", "500")
          /\ UNCHANGED ec2
    /\ UNCHANGED <<cache, thread, inst>>

\* stop(): a restart type is a stop too; EC2 only begins to stop the machine.
Stop(t) ==
    LET i == inst[t] IN
    /\ pc[t] = "act"
    /\ op[t] \in StopTypes
    /\ \/ /\ ec2[i] = "running"
          /\ ec2' = [ec2 EXCEPT ![i] = "stopping"]
          /\ Reply(t, "act", "200")
       \/ /\ ec2[i] \in {"stopping", "stopped"}
          /\ Reply(t, "act", "200")
          /\ UNCHANGED ec2
       \/ /\ ec2[i] \notin {"running", "stopping", "stopped"}
          /\ Reply(t, "act", "500")
          /\ UNCHANGED ec2
    /\ UNCHANGED <<cache, thread, inst>>

\* Mutant: a power state that could not be read is guessed.
Ec2ErrorGuessed(t) ==
    /\ Reply(t, "lookup", "Off") \/ Reply(t, "act", "Off")
    /\ UNCHANGED <<ec2, cache, thread, inst>>

\* Either EC2 call raises ClientError.
Ec2Error(t) ==
    /\ Reply(t, "lookup", "500") \/ Reply(t, "act", "500")
    /\ UNCHANGED <<ec2, cache, thread, inst>>

\* The client reads the response; the thread ends.
Respond(t) ==
    /\ Goto(t, "reply", "idle")
    /\ op' = [op EXCEPT ![t] = "Get"]
    /\ target' = [target EXCEPT ![t] = Unknown]
    /\ inst' = [inst EXCEPT ![t] = NoInstance]
    /\ answer' = [answer EXCEPT ![t] = "none"]
    /\ UNCHANGED <<ec2, cache>>

\* systemd restarts a shim that died (Restart=always): cache and threads are lost.
Restart ==
    /\ cache' = [s \in Systems |-> NoInstance]
    /\ pc' = [t \in Threads |-> "idle"]
    /\ op' = [t \in Threads |-> "Get"]
    /\ target' = [t \in Threads |-> Unknown]
    /\ inst' = [t \in Threads |-> NoInstance]
    /\ answer' = [t \in Threads |-> "none"]
    /\ UNCHANGED ec2

-----------------------------------------------------------------------------
(* EC2 by itself, the guest and the operator.                              *)

Move(i, from, to) ==
    /\ ec2[i] \in from
    /\ ec2' = [ec2 EXCEPT ![i] = to]
    /\ UNCHANGED <<cache, pc, thread, inst, answer>>

Launch(i)        == Move(i, {"absent"}, "pending")
Boot(i)          == Move(i, {"pending"}, "running")
GuestShutdown(i) == Move(i, {"running"}, "stopping")
Halt(i)          == Move(i, {"stopping"}, "stopped")
Terminate(i)     == Move(i, LookupStates, "shutting-down")
Reap(i)          == Move(i, {"shutting-down"}, "terminated")
Forget(i)        == Move(i, {"terminated"}, "gone")

Serve(t) ==
    \/ Resolve(t) \/ Lookup(t) \/ Store(t)
    \/ Describe(t) \/ Start(t) \/ Stop(t) \/ Ec2Error(t)
    \/ Respond(t)

Ec2Step(i) ==
    \/ Launch(i) \/ Boot(i) \/ GuestShutdown(i) \/ Halt(i)
    \/ Terminate(i) \/ Reap(i) \/ Forget(i)

Next ==
    \/ \E t \in Threads, o \in Ops, s \in Systems \cup {Unknown} : Receive(t, o, s)
    \/ \E t \in Threads : Serve(t)
    \/ \E i \in Instances : Ec2Step(i)
    \/ Restart

Spec == Init /\ [][Next]_vars
-----------------------------------------------------------------------------
(* Properties.                                                             *)

\* Instance i is one that requests about system s are meant for.
Owns(s, i) == IF Pinned[s] # NoInstance THEN i = Pinned[s] ELSE NameTag[i] = s

\* Every id the shim keeps, in the cache or in a thread, is an instance of the
\* system it is kept for, whichever thread looked it up: _resolve, lines 101-139.
BindingIsOwn ==
    /\ \A s \in Systems : cache[s] # NoInstance => NameTag[cache[s]] = s
    /\ \A t \in Threads : inst[t] # NoInstance => Owns(target[t], inst[t])

\* Only a supported request about a configured system reaches EC2, and it gets
\* there with an instance: the 404 and the 400 come first and a failed lookup
\* ends the request; none ends without an answer (_handle_reset and _handle_system_get, lines 359-431).
VettedBeforeEc2 ==
    \A t \in Threads :
        /\ pc[t] = "idle" => inst[t] = NoInstance /\ answer[t] = "none"
        /\ pc[t] = "reply" => answer[t] # "none"
        /\ pc[t] \in {"resolve", "lookup", "store", "act"} =>
              target[t] \in Systems /\ op[t] # "Unsupported" /\ answer[t] = "none"
        /\ pc[t] \in {"store", "act"} => inst[t] \in Instances
        /\ pc[t] \in {"lookup", "store"} => Pinned[target[t]] = NoInstance

\* A request about one node never changes the power of another: "a stray fence
\* request" reaches only the machine it names (start and stop, lines 154-164).
NoCrossFire ==
    [][\A t \in Threads, i \in Instances :
          pc[t] # pc'[t] /\ ec2[i] # ec2'[i] => Owns(target[t], i)]_vars

\* Nothing tagged with the system can write.
Down(s) == \A i \in Instances : NameTag[i] = s => ec2[i] \notin Writable

\* The step that makes a GET answer "Off" happens while no instance of the
\* system can write: reporting "Off" early would be a split brain (header,
\* lines 27-31).
OffMeansDown ==
    [][\A t \in Threads :
          answer[t] # "Off" /\ answer'[t] = "Off" => Down(target[t])]_vars

\* "A replaced instance keeps working" (header, lines 22-25): a request that
\* finds exactly one live instance under the system's Name tag, running, is not
\* bound to another instance that reads as powered off.
ReplacedKeepsWorking ==
    [][\A t \in Threads, i \in Instances :
          /\ pc[t] = "resolve" /\ pc'[t] = "act"
          /\ Tagged(target[t]) = {i} /\ ec2[i] = "running"
          => PowerState(ec2[inst'[t]]) # "Off"]_vars

\* Every system has one instance for good: nothing is ever replaced, and a
\* pinned id is the one the Name tag names.
OneInstanceEach ==
    \A s \in Systems, i \in Instances :
        Owns(s, i) => {j \in Instances : NameTag[j] = s} = {i}

\* The shim is a trustworthy power oracle: what Pacemaker relies on.
\* A request EC2 has nothing to do with is not one to the oracle.
Turned(t) == pc[t] = "idle" \/ answer[t] \in {"400", "404"}

upBar    == {s \in Systems : ~Down(s)}
askedBar == [t \in Threads |-> IF Turned(t) THEN Unknown ELSE target[t]]
kindBar  == [t \in Threads |-> IF Turned(t) \/ op[t] = "Get" THEN "query" ELSE "switch"]
saidBar  == [t \in Threads |-> IF answer[t] = "500" THEN "error"
                                ELSE IF answer[t] = "200" THEN "accepted"
                                ELSE IF answer[t] \in {"On", "Off"} THEN answer[t]
                                ELSE "none"]

Oracle == INSTANCE PowerOracle WITH
    Machines <- Systems, Nobody <- Unknown, Clients <- Threads,
    up <- upBar, asked <- askedBar, kind <- kindBar, said <- saidBar

ImplementsOracle == Oracle!Spec
=============================================================================
