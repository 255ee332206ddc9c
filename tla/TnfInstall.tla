----------------------------- MODULE TnfInstall -----------------------------
(***************************************************************************)
(* `make tnf` (10-tnf-install.yml and the tnf-install role) and `make      *)
(* clean` (destroy-cluster.sh).  A run leaves its marks in four places:    *)
(* the install directory and the ignition server on the bastion, haproxy,  *)
(* the CloudFormation stacks, and the state files on the control host.  A  *)
(* run may die after any task and is run again; what the next run does     *)
(* depends on the marks it finds.  There is one operator: two commands     *)
(* never run at once.                                                      *)
(***************************************************************************)
EXTENDS Naturals

CONSTANTS
    MaxIgnitions,   \* bound: how often ignition is created
    MaxConfigs      \* bound: how many versions of the settings there are

ASSUME InstallAssumption ==
    /\ MaxIgnitions \in Nat \ {0}
    /\ MaxConfigs \in Nat \ {0}

VARIABLES
    calm,       \* no command ever dies (a setting of the environment, for good)
    pc,         \* the task the running command is at
    config,     \* the version of the operator's settings
    dir,        \* how far the install directory has got
    manifests,  \* the settings its manifests were made from
    gen,        \* which ignition (and auth/kubeconfig) it holds, 0 for none
    made,       \* how many ignitions have been made
    master,     \* which master.ign is served, 0 for none
    boot,       \* which bootstrap.ign is served, 0 for none
    haproxycfg, \* haproxy.cfg has the bootstrap node among its backends
    lb,         \* haproxy, as it runs, has
    launched,   \* master0_instance_id on the control host
    compute,    \* the compute stack is there, and with it both nodes
    bootnode,   \* the bootstrap stack is there
    cluster,    \* how far the nodes have got
    nodes,      \* the ignition they booted with, 0 for none
    bootgen     \* the ignition the bootstrap node booted with

bastion == <<dir, manifests, gen, made, master, boot, haproxycfg, lb>>
stacks  == <<launched, compute, bootnode>>
machine == <<cluster, nodes, bootgen>>
outside == <<calm, config>>
installVars == <<pc, bastion, stacks, machine, outside>>

Tasks == {"idle", "lb", "lbflush", "probe", "render", "manifests", "ignition", "publish", "launchlb",
          "launchlbflush", "compute", "save", "bootnode", "power", "bootwait", "unboot",
          "droplb", "droplbflush", "dropign", "installwait", "fencing", "health", "done", "refused",
          "clean", "cleancompute", "cleanstate"}

InstallTypeOK ==
    /\ calm \in BOOLEAN
    /\ pc \in Tasks
    /\ config \in Nat
    /\ dir \in {"absent", "manifests", "ignition"}
    /\ manifests \in Nat
    /\ gen \in Nat /\ made \in Nat
    /\ master \in Nat /\ boot \in Nat
    /\ haproxycfg \in BOOLEAN /\ lb \in BOOLEAN
    /\ launched \in BOOLEAN /\ compute \in BOOLEAN /\ bootnode \in BOOLEAN
    /\ cluster \in {"none", "booting", "bootstrapped", "available"}
    /\ nodes \in Nat /\ bootgen \in Nat

\* `make infra` has run; nothing has been installed.
InstallInit ==
    /\ calm \in BOOLEAN
    /\ pc = "idle" /\ config = 1
    /\ dir = "absent" /\ manifests = 0 /\ gen = 0 /\ made = 0
    /\ master = 0 /\ boot = 0 /\ haproxycfg = FALSE /\ lb = FALSE
    /\ launched = FALSE /\ compute = FALSE /\ bootnode = FALSE
    /\ cluster = "none" /\ nodes = 0 /\ bootgen = 0

Kubeconfig == dir = "ignition"

\* The kubeconfig in the directory opens the cluster that runs.
Answers == Kubeconfig /\ cluster = "available" /\ nodes = gen

Goto(from, to) == pc = from /\ pc' = to

-----------------------------------------------------------------------------
(* 10-tnf-install.yml and main.yml.                                        *)

MakeTnf ==
    /\ Goto("idle", "lb")
    /\ Kubeconfig \/ made < MaxIgnitions
    /\ UNCHANGED <<bastion, stacks, machine, outside>>

\* The loadbalancer role writes haproxy.cfg, and if that changed it, restarts haproxy
\* when it flushes its handlers at the end.  A run that dies in between has lost the
\* restart: the next one finds the file as it should be.
WriteLb(from, flush, to, include_bootstrap) ==
    /\ pc = from
    /\ haproxycfg' = include_bootstrap
    /\ pc' = IF haproxycfg' # haproxycfg THEN flush ELSE to
    /\ UNCHANGED <<dir, manifests, gen, made, master, boot, lb, stacks, machine, outside>>

FlushLb(flush, to) ==
    /\ Goto(flush, to)
    /\ lb' = haproxycfg
    /\ UNCHANGED <<dir, manifests, gen, made, master, boot, haproxycfg, stacks, machine,
                   outside>>

\* The role as the play includes it: include_bootstrap is not set.
ConfigureLb == WriteLb("lb", "lbflush", "probe", FALSE) \/ FlushLb("lbflush", "probe")

\* Mutant: the kubeconfig alone decides.
ProbeFile ==
    /\ pc = "probe"
    /\ pc' = IF Kubeconfig THEN "fencing" ELSE "render"
    /\ UNCHANGED <<bastion, stacks, machine, outside>>

\* Mutant: a cluster that does not answer is taken for none.
ProbeReinstalls ==
    /\ pc = "probe"
    /\ \/ pc' = "render"
       \/ Answers /\ pc' = "fencing"
    /\ UNCHANGED <<bastion, stacks, machine, outside>>

\* Installed only if the cluster answers, and it may not while it could; a
\* kubeconfig and no answer end the run.
Probe ==
    /\ pc = "probe"
    /\ \/ ~Kubeconfig /\ pc' = "render"
       \/ Answers /\ pc' = "fencing"
       \/ Kubeconfig /\ (calm => ~Answers) /\ pc' = "refused"
    /\ UNCHANGED <<bastion, stacks, machine, outside>>

-----------------------------------------------------------------------------
(* render.yml.                                                             *)

\* Mutant: what an earlier attempt left is built upon.
RenderKeeping ==
    /\ Goto("render", "manifests")
    /\ UNCHANGED <<bastion, stacks, machine, outside>>

\* An attempt that never launched leaves nothing behind.  install-config.yaml
\* itself is rendered anew in either case.
Render ==
    /\ Goto("render", "manifests")
    /\ IF launched THEN UNCHANGED <<dir, gen>> ELSE dir' = "absent" /\ gen' = 0
    /\ UNCHANGED <<manifests, made, master, boot, haproxycfg, lb, stacks, machine, outside>>

\* `creates:` makes nothing where manifests are.
CreateManifests ==
    /\ Goto("manifests", "ignition")
    /\ IF dir = "absent" THEN dir' = "manifests" /\ manifests' = config
       ELSE UNCHANGED <<dir, manifests>>
    /\ UNCHANGED <<gen, made, master, boot, haproxycfg, lb, stacks, machine, outside>>

CreateIgnition ==
    /\ Goto("ignition", "publish")
    /\ IF dir = "manifests" THEN dir' = "ignition" /\ made' = made + 1 /\ gen' = made'
       ELSE UNCHANGED <<dir, made, gen>>
    /\ UNCHANGED <<manifests, master, boot, haproxycfg, lb, stacks, machine, outside>>

Publish ==
    /\ Goto("publish", "launchlb")
    /\ master' = gen /\ boot' = gen
    /\ UNCHANGED <<dir, manifests, gen, made, haproxycfg, lb, stacks, machine, outside>>

-----------------------------------------------------------------------------
(* launch.yml.                                                             *)

\* Mutant: haproxy is left as the play configured it.
LaunchLbPlain ==
    /\ Goto("launchlb", "compute")
    /\ UNCHANGED <<bastion, stacks, machine, outside>>

LaunchLb ==
    \/ WriteLb("launchlb", "launchlbflush", "compute", TRUE)
    \/ FlushLb("launchlbflush", "compute")

\* create-compute.sh: the stack, and then the state file.
LaunchCompute ==
    /\ Goto("compute", "save")
    /\ compute' = TRUE
    /\ UNCHANGED <<bastion, launched, bootnode, machine, outside>>

SaveState ==
    /\ Goto("save", "bootnode")
    /\ launched' = TRUE
    /\ UNCHANGED <<bastion, compute, bootnode, machine, outside>>

LaunchBootstrap ==
    /\ Goto("bootnode", "power")
    /\ bootnode' = TRUE
    /\ UNCHANGED <<bastion, launched, compute, machine, outside>>

VerifyPower ==
    /\ Goto("power", "bootwait")
    /\ UNCHANGED <<bastion, stacks, machine, outside>>

-----------------------------------------------------------------------------
(* bootstrap.yml, finish.yml, fencing.yml, health.yml.                     *)

WaitBootstrap ==
    /\ Goto("bootwait", "unboot")
    /\ cluster \in {"bootstrapped", "available"}
    /\ UNCHANGED <<bastion, stacks, machine, outside>>

DestroyBootstrap ==
    /\ Goto("unboot", "droplb")
    /\ bootnode' = FALSE /\ bootgen' = 0
    /\ UNCHANGED <<bastion, launched, compute, cluster, nodes, outside>>

DropLb ==
    \/ WriteLb("droplb", "droplbflush", "dropign", FALSE)
    \/ FlushLb("droplbflush", "dropign")

DropIgnition ==
    /\ Goto("dropign", "installwait")
    /\ boot' = 0
    /\ UNCHANGED <<dir, manifests, gen, made, master, haproxycfg, lb, stacks, machine,
                   outside>>

WaitInstall ==
    /\ Goto("installwait", "fencing")
    /\ cluster = "available"
    /\ UNCHANGED <<bastion, stacks, machine, outside>>

\* The stonith devices are tuned and tried.
Fencing ==
    /\ Goto("fencing", "health")
    /\ UNCHANGED <<bastion, stacks, machine, outside>>

Health ==
    /\ Goto("health", "done")
    /\ UNCHANGED <<bastion, stacks, machine, outside>>

EndRun ==
    /\ pc \in {"done", "refused"}
    /\ pc' = "idle"
    /\ UNCHANGED <<bastion, stacks, machine, outside>>

-----------------------------------------------------------------------------
(* destroy-cluster.sh.                                                     *)

MakeClean ==
    /\ Goto("idle", "clean")
    /\ UNCHANGED <<bastion, stacks, machine, outside>>

CleanBootstrap ==
    /\ Goto("clean", "cleancompute")
    /\ bootnode' = FALSE /\ bootgen' = 0
    /\ UNCHANGED <<bastion, launched, compute, cluster, nodes, outside>>

CleanCompute ==
    /\ Goto("cleancompute", "cleanstate")
    /\ compute' = FALSE
    /\ cluster' = "none" /\ nodes' = 0
    /\ UNCHANGED <<bastion, launched, bootnode, bootgen, outside>>

CleanState ==
    /\ Goto("cleanstate", "idle")
    /\ launched' = FALSE
    /\ UNCHANGED <<bastion, compute, bootnode, machine, outside>>

-----------------------------------------------------------------------------
(* Everything else.                                                        *)

\* The command fails, times out or is interrupted.
RunDies ==
    /\ ~calm
    /\ pc # "idle"
    /\ pc' = "idle"
    /\ UNCHANGED <<bastion, stacks, machine, outside>>

\* The operator changes the settings between commands.
Edit ==
    /\ pc = "idle"
    /\ config < MaxConfigs
    /\ config' = config + 1
    /\ UNCHANGED <<pc, bastion, stacks, machine, calm>>

\* The operator removes the install directory of a cluster that is gone.
Wipe ==
    /\ pc = "idle"
    /\ ~compute
    /\ dir' = "absent" /\ gen' = 0
    /\ UNCHANGED <<pc, manifests, made, master, boot, haproxycfg, lb, stacks, machine,
                   outside>>

\* The machines fetch their ignition when they first boot.
NodesIgnite ==
    /\ compute /\ cluster = "none" /\ master # 0
    /\ cluster' = "booting" /\ nodes' = master
    /\ UNCHANGED <<pc, bastion, stacks, bootgen, outside>>

BootstrapIgnites ==
    /\ bootnode /\ bootgen = 0 /\ boot # 0
    /\ bootgen' = boot
    /\ UNCHANGED <<pc, bastion, stacks, cluster, nodes, outside>>

\* The nodes reach the bootstrap node's API through haproxy.
Bootstrap ==
    /\ cluster = "booting" /\ bootnode /\ lb /\ bootgen = nodes
    /\ cluster' = "bootstrapped"
    /\ UNCHANGED <<pc, bastion, stacks, nodes, bootgen, outside>>

Complete ==
    /\ cluster = "bootstrapped"
    /\ cluster' = "available"
    /\ UNCHANGED <<pc, bastion, stacks, nodes, bootgen, outside>>

Stage ==
    \/ ConfigureLb \/ Probe
    \/ Render \/ CreateManifests \/ CreateIgnition \/ Publish
    \/ LaunchLb \/ LaunchCompute \/ SaveState \/ LaunchBootstrap \/ VerifyPower
    \/ WaitBootstrap \/ DestroyBootstrap \/ DropLb \/ DropIgnition
    \/ WaitInstall \/ Fencing \/ Health \/ EndRun
    \/ CleanBootstrap \/ CleanCompute \/ CleanState

Machines == NodesIgnite \/ BootstrapIgnites \/ Bootstrap \/ Complete

InstallNext == Stage \/ Machines \/ MakeTnf \/ MakeClean \/ RunDies \/ Edit \/ Wipe

\* A command goes on with its next task and the machines with their boot.  The
\* operator need not run anything.
Fairness ==
    /\ WF_installVars(Stage)
    /\ WF_installVars(NodesIgnite) /\ WF_installVars(BootstrapIgnites)
    /\ WF_installVars(Bootstrap) /\ WF_installVars(Complete)

InstallSpec == InstallInit /\ [][InstallNext]_installVars /\ Fairness

-----------------------------------------------------------------------------
(* Properties.                                                             *)

\* Nothing "destroys the credentials for a cluster that is still running"
\* (main.yml, lines 37-41): while the compute stack is there the install
\* directory holds the kubeconfig of what its nodes booted or will boot with.
CredentialsKept ==
    compute => Kubeconfig /\ master = gen /\ nodes \in {0, gen}

\* No run "fences a cluster that does not exist" (main.yml, lines 2-5): fencing
\* and health are looked at only of a cluster that the kubeconfig opens.
FencesOnlyACluster == pc \in {"fencing", "health", "done"} => compute /\ Answers

\* "Ignition has to match the install-config it came from" (render.yml, lines
\* 4-8): nodes are launched with ignition made from the settings of the run,
\* unless a state file claims that they have been launched before.
IgnitionIsCurrent ==
    [][~compute /\ compute' /\ ~launched => manifests = config]_installVars

\* What a run needs of the runs before it does not keep it from finishing: an
\* install that starts, in an environment where no command dies, is completed.
InstallFinishes == calm /\ pc = "render" ~> pc = "done"
=============================================================================
