----------------------------- MODULE TnfRecover -----------------------------
(***************************************************************************)
(* deploy/openshift-clusters/roles/tnf-recover: the recovery ladder.  The  *)
(* play reads the cluster through the API (which may not answer), pings    *)
(* the missing peer once, and then runs up to five rungs on the surviving  *)
(* node, re-checking the cluster after each.  Tasks take minutes, so the   *)
(* cluster goes on changing between any two of them.                       *)
(***************************************************************************)
EXTENDS Naturals, FiniteSets

CONSTANTS
    Nodes,          \* control_plane_nodes
    NoNode,
    AllowConfirm,   \* tnf_recover_allow_fence_confirm
    AllowRestore    \* tnf_recover_allow_etcd_restore

ASSUME RecoverAssumption ==
    /\ NoNode \notin Nodes
    /\ IsFiniteSet(Nodes)
    /\ AllowConfirm \in BOOLEAN
    /\ AllowRestore \in BOOLEAN

VARIABLES
    alive,          \* the nodes that run and answer a ping
    ready,          \* the nodes the API lists as Ready
    apiUp,          \* oc gets an answer
    etcdOk,         \* the etcd operator is Available and not Degraded
    pcsOk,          \* pcs status: quorum, every node online
    task,             \* the task the play is at
    survivor,       \* tnf_survivor
    down,           \* tnf_down_nodes
    reachable,      \* tnf_peer_reachable, TRUE by default
    rung,           \* the last rung of the ladder that was considered
    cheap,          \* rc_cheap_ok so far
    seen,           \* the signals found good since the last command that ran
    returned        \* the nodes that have come back since the last ping (history)

rig     == <<alive, ready, apiUp, etcdOk, pcsOk, returned>>
facts   == <<survivor, down, reachable>>
recoverVars == <<rig, task, facts, rung, cheap, seen>>

Rungs     == 1..5
Unblock   == 3      \* pcs quorum unblock
Confirm   == 4      \* pcs stonith confirm
Restore   == 5      \* etcd from /var/lib/etcd-backup
Signals   == {"nodes", "etcd", "pcs"}
Locations == {"survivor", "nodes", "etcd", "pcs", "peer", "ladder", "healthy", "failed"}
Verdicts  == {"healthy", "failed"}

RecoverTypeOK ==
    /\ alive \subseteq Nodes
    /\ ready \subseteq Nodes
    /\ apiUp \in BOOLEAN /\ etcdOk \in BOOLEAN /\ pcsOk \in BOOLEAN
    /\ task \in Locations
    /\ survivor \in Nodes \cup {NoNode}
    /\ down \subseteq Nodes
    /\ reachable \in BOOLEAN
    /\ rung \in 0..5
    /\ cheap \in BOOLEAN
    /\ seen \subseteq Signals
    /\ returned \subseteq Nodes

RecoverInit ==
    /\ alive \in SUBSET Nodes
    /\ ready \in SUBSET Nodes
    /\ apiUp \in BOOLEAN /\ etcdOk \in BOOLEAN /\ pcsOk \in BOOLEAN
    /\ task = "survivor"
    /\ survivor = NoNode
    /\ down = {}
    /\ reachable = TRUE
    /\ rung = 0
    /\ cheap = FALSE
    /\ seen = {}
    /\ returned = {}

-----------------------------------------------------------------------------
(* What the tasks can find out.                                            *)

ReadyNodes == IF apiUp THEN ready ELSE {}

\* oc debug node/<survivor>: a pod on the survivor.
CanDebug == apiUp /\ survivor \in alive

\* tnf_down_nodes | first
Peer == CHOOSE n \in down : TRUE

FindSurvivor ==
    /\ task = "survivor"
    /\ \/ /\ ReadyNodes = {}
          /\ task' = "failed"
          /\ UNCHANGED facts
       \/ /\ survivor' \in ReadyNodes
          /\ down' = Nodes \ ReadyNodes
          /\ task' = "nodes"
          /\ UNCHANGED reachable
    /\ UNCHANGED <<rig, rung, cheap, seen>>

\* check.yml has found the cluster unhealthy.  With no node down there is nobody to
\* ping, and rung 4's command takes the first of an empty list: whether that fails
\* the play or is only undefined where it is used depends on Ansible's release.
Unhealthy ==
    \/ rung > 0 /\ task' = "ladder"
    \/ rung = 0 /\ down # {} /\ task' = "peer"
    \/ rung = 0 /\ down = {} /\ task' \in {"ladder", "failed"}

CheckNodes ==
    /\ task = "nodes"
    /\ cheap' = (Cardinality(ReadyNodes) = Cardinality(Nodes))
    /\ seen' = IF cheap' THEN {"nodes"} ELSE {}
    /\ task' = "etcd"
    /\ UNCHANGED <<rig, facts, rung>>

\* Mutant: the etcd operator's answer alone decides whether to go on.
CheckEtcdAlone ==
    /\ task = "etcd"
    /\ cheap' = (apiUp /\ etcdOk)
    /\ seen' = IF apiUp /\ etcdOk THEN seen \cup {"etcd"} ELSE seen
    /\ IF cheap' THEN task' = "pcs" ELSE Unhealthy
    /\ UNCHANGED <<rig, facts, rung>>

\* The pcs check is made only when the two cheap ones passed.
CheckEtcd ==
    /\ task = "etcd"
    /\ cheap' = (cheap /\ apiUp /\ etcdOk)
    /\ seen' = IF apiUp /\ etcdOk THEN seen \cup {"etcd"} ELSE seen
    /\ IF cheap' THEN task' = "pcs" ELSE Unhealthy
    /\ UNCHANGED <<rig, facts, rung>>

\* Mutant: the ladder goes on whatever pcs says.
CheckPcsIgnored ==
    /\ task = "pcs"
    /\ seen' = IF CanDebug /\ pcsOk THEN seen \cup {"pcs"} ELSE seen
    /\ Unhealthy
    /\ UNCHANGED <<rig, facts, rung, cheap>>

CheckPcs ==
    /\ task = "pcs"
    /\ IF CanDebug /\ pcsOk
       THEN task' = "healthy" /\ seen' = seen \cup {"pcs"}
       ELSE Unhealthy /\ UNCHANGED seen
    /\ UNCHANGED <<rig, facts, rung, cheap>>

\* Mutant: a ping that could not be made counts as no answer.
PingPeerOptimistic ==
    /\ task = "peer"
    /\ reachable' = (CanDebug /\ Peer \in alive)
    /\ task' = "ladder"
    /\ returned' = {}
    /\ UNCHANGED <<alive, ready, apiUp, etcdOk, pcsOk, survivor, down, rung, cheap, seen>>

\* The ping from the survivor; a ping that could not be made counts as an answer.
PingPeer ==
    /\ task = "peer"
    /\ reachable' = (CanDebug => Peer \in alive)
    /\ task' = "ladder"
    /\ returned' = {}
    /\ UNCHANGED <<alive, ready, apiUp, etcdOk, pcsOk, survivor, down, rung, cheap, seen>>

-----------------------------------------------------------------------------
(* The ladder.                                                             *)

\* step.when, for an unhealthy cluster.
Enabled(k) ==
    /\ k = Unblock => down # {} /\ ~reachable
    /\ k = Confirm => AllowConfirm /\ down # {} /\ ~reachable
    /\ k = Restore => AllowRestore

\* Mutant: a rung is tried until it works.
RunRungAgain ==
    /\ task = "ladder"
    /\ rung < 5
    /\ Enabled(rung + 1)
    /\ rung' = IF CanDebug THEN rung + 1 ELSE rung
    /\ seen' = IF CanDebug THEN {} ELSE seen
    /\ task' = "nodes"
    /\ UNCHANGED <<rig, facts, cheap>>

\* The command runs on the survivor if a debug pod starts there; an error is
\* not fatal.  What it does to the cluster shows up as a step of the cluster.
RunRung ==
    /\ task = "ladder"
    /\ rung < 5
    /\ Enabled(rung + 1)
    /\ rung' = rung + 1
    /\ seen' = IF CanDebug THEN {} ELSE seen
    /\ task' = "nodes"
    /\ UNCHANGED <<rig, facts, cheap>>

SkipRung ==
    /\ task = "ladder"
    /\ rung < 5
    /\ ~Enabled(rung + 1)
    /\ rung' = rung + 1
    /\ UNCHANGED <<rig, task, facts, cheap, seen>>

\* The final assertion.
GiveUp ==
    /\ task = "ladder"
    /\ rung = 5
    /\ task' = "failed"
    /\ UNCHANGED <<rig, facts, rung, cheap, seen>>

\* The operator runs the play again.
Rerun ==
    /\ task \in Verdicts
    /\ task' = "survivor"
    /\ survivor' = NoNode
    /\ down' = {}
    /\ reachable' = TRUE
    /\ rung' = 0
    /\ cheap' = FALSE
    /\ seen' = {}
    /\ UNCHANGED rig

Play ==
    \/ FindSurvivor \/ CheckNodes \/ CheckEtcd \/ CheckPcs
    \/ PingPeer \/ RunRung \/ SkipRung \/ GiveUp

-----------------------------------------------------------------------------
(* The cluster meanwhile.                                                  *)

play == <<task, facts, rung, cheap, seen>>

NodeFails ==
    /\ \E n \in alive : alive' = alive \ {n}
    /\ UNCHANGED <<ready, apiUp, etcdOk, pcsOk, returned, play>>

NodeReturns ==
    /\ \E n \in Nodes \ alive : alive' = alive \cup {n} /\ returned' = returned \cup {n}
    /\ UNCHANGED <<ready, apiUp, etcdOk, pcsOk, play>>

\* The API's view of the nodes trails behind the nodes.
KubeletReports ==
    /\ ready' \in SUBSET Nodes
    /\ UNCHANGED <<alive, apiUp, etcdOk, pcsOk, returned, play>>

ServicesChange ==
    /\ apiUp' \in BOOLEAN /\ etcdOk' \in BOOLEAN /\ pcsOk' \in BOOLEAN
    /\ UNCHANGED <<alive, ready, returned, play>>

RecoverNext ==
    \/ Play \/ Rerun
    \/ NodeFails \/ NodeReturns \/ KubeletReports \/ ServicesChange

\* Every task of the play has a timeout, so the play goes on; nothing is
\* assumed of the cluster or of the operator.
RecoverSpec == RecoverInit /\ [][RecoverNext]_recoverVars /\ WF_recoverVars(Play)

-----------------------------------------------------------------------------
(* Properties.                                                             *)

\* A step that runs rung k on the survivor.
Runs(k) == task = "ladder" /\ task' = "nodes" /\ rung' = k /\ CanDebug

\* Pacemaker is told that the peer is gone (rungs 3 and 4) only if the peer did not
\* answer when it was asked; it is still gone unless it has come back since.
\* defaults/main.yml, lines 16-20, promises more -- "the role refuses it anyway
\* while the peer still answers" -- and the ping is not repeated before a rung.
ToldGoneUnlessBack ==
    [][Runs(Unblock) \/ Runs(Confirm) => Peer \in returned \/ Peer \notin alive]_recoverVars

\* The ladder is climbed on the strength of a failed check only: every command
\* was preceded, since the previous one, by a signal that was not good.
NoRepairWithoutFault ==
    [][\A k \in Rungs : Runs(k) => seen # Signals]_recoverVars

\* A play that ends well has seen all three signals good since its last command,
\* in spite of the short cuts check.yml takes.
HealthyIsEvidence == task = "healthy" => seen = Signals

\* Every play ends: the ladder has a top and each check returns.
PlayEnds == task = "survivor" ~> task \in Verdicts
=============================================================================
