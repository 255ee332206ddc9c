# Verification of tnf-toolbox-gp

tnf-toolbox-gp builds a two-node OpenShift cluster with fencing (TNF) on AWS, a
single-node hub (ACM) beside it, and a visual-inspection application on the
GPUs. Most of the repository is declarative (manifests, templates, Ansible
tasks that apply one and wait). What is left is the part in which an order of
events can go wrong, and this directory models that part in TLA+, checks it
with TLC and proves the main results with TLAPS.

Paths below are relative to the repository root; `tnf-install` and the like
are roles under `deploy/openshift-clusters/roles/`.

## The system

| Component | State it keeps | Operations | Talks to | What is hard | What makes it correct | Module |
|---|---|---|---|---|---|---|
| Redfish shim, power requests (`tools/redfish-ec2/redfish_ec2.py`) | a cache of instance ids, one thread per request | GET of a system, reset actions | Pacemaker's fence agents; EC2 | threads share a cache that is unlocked between miss and fill; EC2 moves on between two calls; the shim crashes | a request reaches its own node only; "Off" is never early | `RedfishShim`, `PowerOracle` |
| Redfish shim, sessions and HTTP | the table of session tokens, what lies unread on a connection | login, logout, authentication, routing | the fence agents | threads share the table; a body may be left unread on a kept-alive connection; restarts | a token is good from its login to its logout; good credentials get through | `RedfishSessions` |
| `redfish-shim` role, start of the shim | script, configuration, key, certificate, a pending handler | 10 tasks; start, crash, restart | systemd, the shim | a run dies anywhere and loses its handler; the process starts while files are replaced | the checks test what was installed; the shim comes back | `ShimDeploy` |
| `tnf-recover` | facts of one play | check, ping the peer, five rungs | the API, Pacemaker on the survivor | the cluster changes between any two tasks; checks are cut short | repairs only what is broken; tells Pacemaker a peer is gone only if it was | `TnfRecover` |
| `tnf-install`, `loadbalancer`, `make clean` | install directory, ignition server, haproxy, state files | 20 tasks | CloudFormation, the nodes | a run dies anywhere and is repeated over what it left | never loses a running cluster's credentials, never fences nothing, matches ignition and settings | `TnfInstall` |
| stack operations (`deploy/common.sh`) | none (a script) | create_or_update_stack, delete_stack | CloudFormation | asynchronous operations, API errors that read as absence, retries, interrupts | never deletes a working stack, never reports a broken one as good | `StackOps` |
| teardown (`destroy.sh`, `destroy-acm.sh`) | state directories | delete the stacks of two sites | `delete_stack`, each other in the background | parallel parts, failures, Ctrl-C, repetition | users of a stack go before it; records go last; repeating leads to the end | `Teardown` |
| analyzer, watchers (`app/analyzer/analyzer.py`) | `STATE`, two locks, metrics | read, score, judge, ask the VLM, publish; answer a scrape | cameras, GPU, VLM, Prometheus, dashboard | one thread per camera, one device, a call of a minute, metrics read without a lock | what is shown is of one frame; every frame counted once; a scrape adds up | `CameraWatch`, `LatestResult` |
| analyzer, detectors and startup (`detector.py`, `analyzer.py`) | weights on a volume, readiness flags | fit, save, load, start the watchers | kubelet, the cameras' names | the pod is killed anywhere | Ready means a model for every line; fitted once | `DetectorStore` |
| analyzer, GPU accounting (`gpu.py`) | pending charges, last frames, rates | charge, poll, roll up, answer the page | watchers, NVML, Prometheus, the page | a rollup between any two steps of a charge; a scorer raises; NVML fails | no second or frame lost, doubled or charged twice; all of it published; page and gauges agree | `GpuAccounting` |
| dashboard (`app/dashboard/app.py`) | the cards of a page, requests under way | ask for state, pictures and runtime; pass on | the analyzer | answers overlap, fail and come in any order; the analyzer restarts | what a card shows belongs together and catches up | `Dashboard` |
| camera simulator (`app/camera-sim`) | frames and manifest in the repository | curate, name the streams, publish | the data set, the images' builds, the analyzer | a curation is interrupted and run again; the split of the cameras is written twice | manifest and frames match the arguments; published streams are watched | `CurateVisa`, `CameraFleet`, `Exhibit` |
| architecture picture (`hack/render-architecture.py`) | one file, picture and XML in one | validate, render, check | maintainers | boxes are moved by hand | a picture that passes says what is true of the clusters | `Diagram` |
| `gpu-passthrough` | none | apply a MachineConfig, wait for the rollout | the MachineConfig operator | rendered configs lag, nodes reboot in turn | goes on only when every node runs the config | planned |
| `sno-cluster` and `create-acm-*.sh` | as `tnf-install` | as `tnf-install`, one node | as `tnf-install` | as `tnf-install` | as `tnf-install` | planned |
| `hcp-guest`, `vcp-cluster` | none | create guests, approve agents | the hub | agents register in any order | every agent approved once, with its own role | candidates |
| operators on the hosts, `acm`, `gitops`, `siteconfig`, `observability`, app deployment | none | apply and wait | the operators | the protocol is theirs | | not modelled |
| doctor, status, inventory, templates, Makefiles, tests in hack | none | read, render, dispatch | | | | not modelled |

`PROJECT.json` lists every component with its source files and, for each one
that has no module, the reason.

How the parts depend on each other: `make infra`, `make tnf`, `make clean` and
`make destroy` are the operator's commands, each a script or play that calls
`create_or_update_stack` and `delete_stack`. A cluster that `make tnf` has
built fences its nodes through the shim, which runs on the bastion. When
fencing leaves one node behind, the operator runs `16-tnf-recover.yml`. The
application runs on guests of the cluster and shares nothing with the above
but the nodes. Inside it the cameras publish streams under names that the
analyzer works out for itself, the watchers charge their device time to the
accounting, and the dashboard reads the analyzer's state over HTTP.

## Modules

One module per component, with an `MC` module and one `.cfg` per run; seven
proof modules, some of them for several components, hold the theorems (see
Proofs; those of `Diagram` are in itself). A proof module EXTENDS the
components it speaks about, so components that share one have specifications
of different names (`Spec`, `DeploySpec`, `InstallSpec`, `RecoverSpec`,
`PageSpec`) and variables of different names. Definitions carry the names of
the functions, tasks and scripts they model, and `PROJECT.json` maps each to
its lines. Definitions marked "Mutant:" are versions of the definition below them
with a plausible bug; nothing uses them, and each shows that some property
would notice that bug.

**RedfishShim** cuts a request thread where another thread or EC2 can come in
between: at each acquisition of the cache's lock and each EC2 call. `Receive`
is the handler up to the configuration lookup (404, 400), `Resolve` the pinned
id or the cache read, `Lookup` the Name-tag query outside the lock, `Store` the
fill, then `Describe`, `Start` or `Stop`, each with EC2's own refusals, and
`Ec2Error` a ClientError at any call. `Restart` is systemd's restart of a shim
that died: cache and threads are gone. EC2's life cycle, the guest's shutdown
and an operator who terminates and launches instances run beside it.

**PowerOracle** is what Pacemaker needs of a fence device, in five actions: a
query says "Off" only at an instant at which the machine cannot write; "On"
and errors may be said at any time; a switch touches no other machine; crashes
lose requests. RedfishShim implements it (`ImplementsOracle`): a machine is up
while some instance with its Name tag is pending, running or stopping; a thread
that has only refused a request (400, 404) has not asked the oracle.

**RedfishSessions** is the rest of the shim: authentication, the session table,
routing, and the connections. A thread is cut where it takes the lock of
`SessionStore` and where the client reads the answer, so that a token can be
checked before, and used after, another thread's logout. `left` is a body that
nobody read and that lies in front of the connection's next request (`garbled`).
`Crash` and `Restart` lose table and connections. `late` and `over` are
history: the request's token had been given back when it came in.

**ShimDeploy** installs that shim: the role's tasks in their order, the handler
that is owed from a change to the flush and lost when the run dies between
them (`lost`), and the three checks at the end. Beside it systemd starts the
process for ever: `Config.load`, `ensure_certificate` with its two writes,
`make_server` (`Listen`), from whatever files are there at that step, and dies
at any of them (`ProcessDies`). Key and certificate are known by who made them.

**TnfRecover** has one action per task of the recovery play and a cluster that
changes arbitrarily between them: nodes fail and return, readiness trails,
the API, etcd and Pacemaker go up and down. A rung's effect on the cluster is
one of those changes, so nothing is assumed of the commands. `seen` and
`returned` are history variables: the signals found good since the last
command, and the nodes that came back since the ping.

**TnfInstall** keeps what a run leaves behind: how far the install directory
has got, which ignition is in it and which is served, haproxy's configuration and
what the running haproxy has of it, the two stacks, and the state file that says
the nodes were launched. An ignition is its number. The loadbalancer role is
included three times (`ConfigureLb`, `LaunchLb`, `DropLb`), each time a write of
the file (`WriteLb`) and, if that changed it, the restart at the flush
(`FlushLb`), which a run that dies in between has lost.
`RunDies` stops a command after any task; `Wipe` is the operator
removing the directory of a cluster that is gone.

**StackOps** follows `create_or_update_stack` command by command against one
stack, in any finished state at the start. `flaky` and `slow` are settings of
the environment (describe calls may fail; an operation may outlast the settle
timeout); they are chosen in the initial state and never change, so that the
liveness property does not lean on an error happening. `doomed` is why a
creation will fail. `misled` records that a failing call was read as an answer.

**Teardown** has both scripts, run together or alone, over the stacks of both
sites and any set of guest load balancers. `job` is one delete_stack call per
stack. CloudFormation finishes a deletion in its own time and refuses while a
stack of `Users` still stands in it. `Hangup` kills everything; `CtrlC` kills
`destroy.sh` only, because bash's background jobs ignore SIGINT and the
parallel parts go on. `Init` is any environment that the stages, in their
order (`Stages`), can have left behind.

**CameraWatch** has a watcher per camera with the device lock; a frame is its
number and a score is the frame it is the score of, so that "belongs together"
can be said without arithmetic. The judgement is a step for each statement that
others can see (`SetScore`, `Forecast`, `Count`, `Defect`), because `/metrics`
takes no lock: a scrape (`Scrape`, `Collect`) follows one camera through
the registry, one metric after the other, while the watchers go on. Scoring and
forecast may raise, and nothing catches that. The VLM's cooldown may have ended
by any frame.

**Streams** declares the cameras and their frames, for the three modules that
follow a frame: watcher, promise and page.

**LatestResult** is what the analyzer promises readers of `/api/state`: for each
camera the latest outcome, one frame's in one piece, a later one of a later
frame. `CameraWatch` implements it (`PublishesForward`, proved) and `Dashboard`
is built on it, so that the page is checked against the promise and not
against the watcher's many steps.

**Dashboard** has the page and the server that passes its requests on. The page
asks for the state every second whether or not the last answer has come; each
request is a record in `out`, answered (`PassOn`) and applied (`Apply`) in any
order, or given up. A card's picture is fetched by a request of its own, and is
the analyzer's (`jpeg`): that of the frame whose score it shows, or an older one
if frames since could not be encoded (`encoded` is what could). The analyzer goes
down and comes up elsewhere, with nothing to show.

**ProductLines, CurateVisa, CameraFleet, DetectorStore, Exhibit**: the line from
the data set to the screen. `CurateVisa` is the curation, interrupted between
any two of its steps (remove, pick, write, manifest); a frame is its
directory, its number and the number of the picture it was made of, and a
command line is chosen from `Calls`, each of which names a category once. `RoundedDown` names the picks for which
the floating-point product falls below the whole number. `CameraFleet` is how
`entrypoint.sh` names and splits the streams. `DetectorStore` is the start of
the analyzer's pod, line by line, over kills at any step; a save is two steps
when it may tear. `CATEGORIES`, too, names a line once. The Deployment is Recreate with one replica, so there is one
pod at a time. `Exhibit` composes them with `BuildImage`: curation and builds
happen while no pod runs, which loses nothing, because a pod that runs reads
neither `frames/` nor the registry.

**GpuAccounting** has the device (one scorer at a time, `INFER_LOCK`), with and
without a card, the charge in its steps (counter, then pending), a scorer that
raises inside the measured block (charged or not: with a card the events recorded
in `finally` may raise after it), and the timer: the poll of NVML, which may
fail, then the rollup in its steps (swap under the lock, then gauge and page
rate per camera, outside it). Rates are kept as numerator and denominator.
`Nth`, `P50` and `P95` are the percentiles over the last frames: the entry of a
given rank in the sorted window is said without sorting, as the time that more
than `rank` entries do not exceed and at most `rank` are below (`AtRank`). What
the cameras were charged together is counted as a set of (camera, tick) pairs
(`TicksCharged`), not as a sum.

**Diagram** is the layout of the architecture's picture as data, `validate()`,
the arrows' anchors, the labels' plates, and the edits, writes and checks of
the one file. It has no run: its theorems speak about the committed layout,
which is a constant, and about every layout that `validate()` lets through.

The parts that build and recover clusters share CloudFormation's statuses and
the nodes, but no variable of the code: they meet through AWS and the operator.
Two interfaces inside the repository have a contract of their own: fence agent
to shim (`PowerOracle`) and page to analyzer (`LatestResult`); a model of the
fencing configuration on top of the first is planned.

## Runs

Eleven runs pass; one ends in a counterexample and shows where the code and what
it says of itself disagree (next section). `tlc -config <cfg> <module>` repeats
any of them. Deadlock is checked everywhere but in `watch_two` and `gpu_rolls`,
where the stream and the time are bounded and the model ends.

| Run | Instance | Distinct states | What it shows |
|---|---|---|---|
| `shim_two_nodes` | 2 nodes with 1 instance each, one of them pinned, 2 threads (symmetric) | 189270 | no request moves another node; "Off" is said only of a machine that cannot write; the shim implements `PowerOracle` |
| `sessions_two` | 2 connections, 2 tokens | 322931 | the table holds exactly the open sessions; a request that comes after its token's end is refused; good credentials get through whatever lies unread on the connection |
| `shim_deployed` | 4 versions: two that share a password, one with another, one incomplete | 853104 | the checks test what the run installed; a shim that was installed comes back; repeated runs get to the end |
| `recover_returning` | 2 nodes, both destructive flags set | 188160 | a good end rests on all three signals; no command while all are known good; Pacemaker is told only of a peer that was gone and has not come back; each play ends |
| `install_reruns` | 5 ignitions, 3 versions of the settings | 21168 | credentials belong to the nodes, only a cluster is fenced, nodes start with ignition of the run's settings, an install that nothing kills finishes |
| `stack_flaky` | 3 attempts | 6665 | a working stack is never deleted, success is true, each run ends; an unmisled run asks for nothing in the middle of an operation, updates no failed creation and creates only where none is |
| `teardown_repeated` | one load balancer in each VPC, 1 fault | 173974 | what stands in a stack goes first, records go last, repeated runs leave nothing the scripts can know of |
| `watch_two` | 2 cameras, 2 frames of one and 1 of the other, scorer and forecast may raise, a scrape at any moment | 356989 | what is shown is of one frame, every frame is counted once and published, the gauge is the last forecast, a scrape adds up, the watchers implement `LatestResult` |
| `exhibit_line` | 2 lines, 3 cameras, 3 command lines, failing fits, tearing saves | 543960 | frames and manifest are what the arguments ask for, whatever was interrupted; Ready means every model, whole; each is fitted once, and from something; every published stream is watched; a failed start says so |
| `gpu_rolls` | 2 cameras, 4 ticks, 3 frames remembered | 428836 | no device second or frame is lost or doubled, cameras together get at most the time passed, page, gauge and percentiles agree, every frame recorded is in a rate published on both |
| `page` | 1 camera, 2 frames, 2 requests under way | 156240 | what stands on a card belongs together, a card goes back only with an overlapping answer, and it catches up |
| `shim_replaced` | 1 node, 2 instances, 1 thread | - | a counterexample: the cache keeps a terminated instance |

Some properties are conjunctions of named parts, which are read and broken one
by one (each part has a mutant that violates it): `MetricsAreTrue`
(`EveryFrameCounted`, `GaugeIsLastForecast`, `ScrapeAddsUp`), `FramesAreExact`
(`ManifestIsExact`, `SpreadAcrossTheList`), `ModelsAreEarned` (`FittedOnce`,
`NoModelFromNothing`), `PageIsRight` (`PageAgreesWithGauge`,
`RateHasPercentiles`, `PercentilesCover`), `CardsAreTrue` (`RedIsDefective`,
`PictureNotOlder`), `PageCatchesUp` (`CardCatchesUp`, `RuntimeCatchesUp`),
`RunsWhatWasInstalled` (`ChecksTestCurrent`, `DoneTakesThePassword`) and
`AsksOfSettledStack` (`UpdatesSettled`, `CreatesAnew`). The type invariants are
proved: as a theorem of their own (`TypeCorrect`) or, for `ShimDeploy`,
`Exhibit`, `GpuAccounting` and `Dashboard`, as a conjunct of the inductive
invariant; of these four TLC checks them as a conjunct of the property named.

### Bounds, and why they are enough

* *Two nodes, two threads, two connections.* The cluster has two control-plane
  nodes by definition. Threads interact only through the cache, one slot at a
  time, and through the session table, one token at a time: two show every
  order of miss and fill, of login and logout. One node is pinned so that both
  ways of resolving meet. The theorems cover any number.
* *Frames, ticks, ignitions, settings.* Two frames let one frame be shown while
  the next is judged, reported on and published; four ticks leave room for a
  charge before, between and after two rollups, and three frames remembered let
  a window lose its oldest; five ignitions and three settings allow a first
  install, one that finds its remains, one after a clean and one after a change
  of mind. `MaxIgnitions` stands in the guard of `MakeTnf`, not in that of the
  task, so that no run is cut in the middle.
* *Lines, cameras, command lines.* Three cameras on two lines do not divide
  evenly, so that the line that gets the extra one matters; the three command
  lines have one over both lines, one that asks for more of one of them, with a
  pick that is rounded down, and one that fails half-way.
* *Requests under way = 2.* Two overlapping answers are enough for one to be
  applied after a later one; one camera, because cards share nothing but the
  answer, which is read in one piece (`LatestResult`).
* *Attempts = 3* gives a retry a predecessor and a successor. The default is 1,
  and scripts that launch metal set 3; the proofs hold for any value.
* *MaxFaults = 1* bounds in one counter the calls that fail, the deletions that
  fail and the interruptions of a behaviour. Two faults have also been checked
  once (about 1.1 million states). The proofs do not depend on it.

### Fairness

* `CameraWatch`: what runs on the processor continues, scoring ends, and the
  VLM's call has a timeout of 60 seconds (weak fairness of each). `TakeDevice`
  has strong fairness: `threading.Lock` promises no order, but a lock that is
  free for most of each frame period is eventually had. Streams may stay lost.
* `RedfishSessions`: a thread goes on with the request it has (weak, for each
  connection); nobody is obliged to send one. `GoodGetsThrough` says itself what
  it needs of the client: that it goes on sending.
* `ShimDeploy`: systemd goes on starting the process (`Restart=always`) and a
  play goes on with its tasks (weak). That crashes, deaths of runs and changes
  of mind come to an end is a premise of the two properties (`Calm`).
* `Dashboard`: the timers go off and the oldest request ends in one way or
  another (weak); a request that is made again and again gets through now and
  then (strong, for the newest request and for the runtime).
* `GpuAccounting`: the clock and the timer's thread (weak). `Exhibit`: startup's
  thread, because training has a fixed number of epochs (weak). Nothing is
  assumed of cameras, maintainers or the kubelet.
* `StackOps`, `TnfInstall`, `TnfRecover`: a script or play goes on with its next
  task (weak fairness), because each has a timeout or a fixed amount of work.
  CloudFormation ends what it began; machines boot. Nothing is assumed of the
  operator, except in `InstallFinishes`, which is about environments in which
  no command dies (`calm`).
* `Teardown`: scripts go on and each deletion ends (weak); the operator runs
  `make destroy` again as long as he can (strong, `Destroy`), because
  `Finishes` says that *repeated* runs lead to the end. He starts a run when
  nothing of an earlier one is left (`Quiet`).

## Where the code and its words disagree

Shown by a run: `redfish_ec2.py:106` caches an id for the life of the process.
After a node's instance is replaced under the same Name tag, requests still go
to the terminated one, which reads as Off while the new one runs
(`shim_replaced`; the header, line 24, promises that "a replaced instance keeps
working").

Met while modelling, described by the models, and not the subject of a run:

* `destroy-cluster.sh` leaves the install directory on the bastion, so the next
  `make tnf` finds a kubeconfig that nobody answers and refuses
  (`tnf-install/tasks/main.yml:44-52`; the script ends, line 21, with "rebuild
  with: make tnf", and the refusal advises `make clean`). Killed between the
  stacks and line 16, it leaves state files that speak of nodes that are gone.
* `10-tnf-install.yml:26` configures haproxy without the bootstrap node before
  it looks whether an install is under way, so running `make tnf` again during
  the bootstrap takes that node out of service (`haproxy.cfg.j2:45`).
* A run that dies after bootstrap-complete leaves bootstrap.ign served and the
  bootstrap node running: the next run finds a cluster that answers and skips
  those tasks (`bootstrap.yml:32-36`).
* `detector.py:149` saves in place and line 69 takes any file for a cached
  model: a file torn by a kill fails every later start (line 17: "Later starts
  load in seconds").
* A run of the `redfish-shim` role that dies between a change and the flush
  (`tasks/main.yml:112`) loses the restart it owed; the next run finds nothing
  changed. Its checks may then pass on the old process (`lost`).
* A login with its credentials in the body, as Redfish has it, gets 401: the
  body of a session's POST is never read (`redfish_ec2.py:288-300`).
* A scorer that raises ends its camera's watcher for good while `/healthz`
  goes on saying ok (`analyzer.py:209`).
* The analyzer's Containerfile has the two lines of parts by name (lines 29-30),
  where `analyzer.py:50-52` says both sides agree by construction; the targets
  of `app/Makefile` build in directories that the Containerfiles' COPY does not
  expect.
* The page takes the key of an `{"error": ...}` answer for a camera
  (`app.py:137`); the model leaves that card out.
* After a frame that cannot be encoded the analyzer shows its score beside the
  picture of an older one (`analyzer.py:236,242`); `PictureNotOlder` says how far.
* The gauges and counters of a frame are set one after the other and read without
  a lock (`analyzer.py:211-228`, 247): a scrape can see a frame's score and not yet
  its verdict. If the forecast raises, that frame is never counted.
* The recovery play pings the peer once; a peer that returns during the
  minutes before rung 3 or 4 is not noticed (`tnf-recover/defaults/main.yml:19`
  says the role refuses "while the peer still answers"). `ToldGoneUnlessBack`
  states what does hold.
* With both nodes Ready and etcd or Pacemaker unhealthy, the ladder's template
  takes the `first` of an empty list (`tnf-recover/tasks/main.yml:84`); whether
  that fails the play depends on the Ansible release. The model lets it fail or
  go on to rungs 1, 2 and 5.
* The etcd restore of rung 5 is gated by its flag alone, where
  `docs/resilience.md:164` says both destructive steps also need a live check.
* `stack_status` reads an API error as "does not exist" (`common.sh:68`): a run
  so misled can ask for an update of a stack whose creation failed, or create
  where something is. `StackOps` has `misled` for this.
* The parameter file with the BMC password stays on the disk when a run is
  interrupted (`common.sh:258`; `params` in `StackOps`).
* A stack in DELETE_FAILED or UPDATE_ROLLBACK_FAILED is asked to update
  (`common.sh:182-199`), which CloudFormation refuses. That includes what is left
  of a failed creation whose deletion failed: the retry then ends with the very
  message that lines 179-182 are there to avoid.
* A run that dies between writing haproxy.cfg and the flush
  (`loadbalancer/tasks/main.yml:31,66`) loses the restart, and the next finds the
  file unchanged; it is made up for when the role is included the other way round.
* A stack in REVIEW_IN_PROGRESS is not among the statuses that are waited for.
* `destroy-acm.sh:33` lists load balancers in some statuses only; one in
  DELETE_FAILED, DELETE_IN_PROGRESS or UPDATE_ROLLBACK_COMPLETE is not found and
  blocks its network for good ("hidden" in `Teardown`, `Overlooked`).
* `destroy.sh` runs `destroy-acm.sh` only if a peering or an ACM network exists;
  in an environment without an ACM site, guest load balancers in the TNF VPC
  stay and block the network, though `README.md:494` says `make destroy`
  "removes everything" (`AllKnown` excludes this case from `Finishes`).
* A run of `destroy.sh` whose describe calls fail can remove the recorded state
  with stacks left standing (`RecordsGoLast` is about runs not misled).
* Two comments (`destroy.sh:108`, `destroy-acm.sh:39`) say the services stack
  owns the security groups; the templates have them in the network stack. The
  order is kept all the same, and `UsersFirst` checks it.
* A forecast gauge outlives its trend, a quiet camera keeps its last GPU share,
  and the counter of VLM reports counts failed questions too (`analyzer.py:216`,
  `gpu.py:156`, `analyzer.py:75`).

## Proofs

`tlapm` checks each module below; all theorems hold for every value of the
constants, under the named assumptions of the component's module.

| Module | Component | Theorems | Argument |
|---|---|---|---|
| `RedfishShimProofs` | `RedfishShim` | `TypeCorrect`, `BindingCorrect`, `VettedCorrect`, `CrossFireFree`, `OffIsTruthful`, `Refinement` | The type invariant is not inductive: that a thread reads a cache slot that exists rests on vetting, and that the slot is its system's on every thread having filled it with its own. Invariant: types, bindings and vetting together. A step that changes an instance's power is then a `Start` or `Stop` of the thread bound to it. |
| `RedfishServiceProofs` | `RedfishSessions` | `TypeCorrect`, `NoSessionLost`, `LateTokensRefused` | That the table is exactly the open sessions needs that names in requests and answers are of tokens that were minted (`NamesAreMinted`) and that what came in late is over for good (`LateIsOver`): a token is minted once, so it cannot come back. |
| | `ShimDeploy` | `WhatRunsIsInstalled` | What each task can rely on from the ones before (`DeployInstalled`); a process that runs something else than what is installed has a restart owed to it or lost with a run (`DeployRestartOwed`); a restart after the end takes what the run installed and so the same password (`DeployPassword`), although the operator may have changed his mind since. |
| `ClusterProofs` | `TnfRecover` | `RecoverTypeCorrect`, `HealthyEvident`, `OnlyFaultsRepaired`, `ToldOnlyUnlessBack` | `RecoverEvidence` ties the signals seen to the task the play is at, `RecoverVerdict` says that a peer recorded as unreachable is down or came back since. |
| | `TnfInstall` | `InstallTypeCorrect`, `CredentialsSafe`, `FencingFindsACluster`, `LaunchesCurrent` | What each task can rely on from the ones before (`InstallProgress`), that nodes run only what the directory holds (`InstallNodes`), and that without a state file the manifests are of this run (`InstallCurrent`). |
| | `Teardown` | `TypeCorrect`, `OrderKept`, `RecordsLast` | No stack stands without what it sits in (`Standing`), a call that succeeded saw the end of its stack (`JobsTrue`), and where each script is says what is gone (`AcmOrder`, `MainOrder`), all unless misled. |
| `StackOpsProofs` | `StackOps` | `TypeCorrect`, `WorkingSpared`, `OkTrue`, `AskedOfSettled` (from `UpdatedIsSettled` and `CreatesOnNothing`) | A status CloudFormation has finished with does not change by itself, so what a run heard of it stays true (`Heard`, `Ready`); what a retry deletes is the failed attempt (`Attempt`). `WorkingSpared` needs no assumption that the API told the truth. |
| `InspectionProofs` | `CameraWatch` | `TypeCorrect`, `ShownIsOneFrame`, `FramesCounted`, `GaugeKeepsForecast`, `MetricsTrue`, `DeviceForScoring`, `ImplementsLatestResult` | Where the watcher is says how far gauge, counts and entry are apart (`FramesInHand`, `Counters`, `FailsCounted`), and a report is about a defective frame (`Reports`). That a scrape adds up needs what it has collected to be behind what the counters have come to (`SeenBehind`): counters only grow, and they are collected after the gauge. Counting uses the cardinality of the set of defective frames. The refinement maps a publication to `Publish`, whose frame is later because of `FramesInHand`, and every other step to a stutter. |
| | `Dashboard` | `CardsTrue`, `BackOnlyOverlapped` | What the analyzer shows, what an answer under way carries and what a card shows is each of a frame shown by then, with that frame's verdict (`EntriesTrue`, `AnswersTrue`, `CardsShown`), and the analyzer's picture is never older than its last encoded frame, nor a card's than those of its score (`PicturesTrue`), for any number of requests under way. `BackOnlyOverlapped` rests on one conjunct: as long as no later request was answered before it, an answer is no older than the card. That is kept when an answer is applied, because those still under way are then marked (`TakenQueue`, `QueueKept`). |
| `GpuAccountingProofs` | `GpuAccounting` | `Invariance`, `RolledOnce`, `ChargedInTime`, `PageStaysRight` | A second is pending, swapped out or published (`EverySecondRolledOnce`, inductive with `Turn` and `Rolling`). The ticks charged are at most those before the frame on the device began, until it is charged (`TicksInTime`): one scorer at a time, so a charge adds no more than has passed since; the set of ticks gains exactly the seconds of the charge (`TicksAdded`). The percentiles are right because the sorted window's entry of a rank exists (`RankExists`, the least time that enough frames do not exceed) and covers what it says (`NthCovers`), for any length of the window. |
| `ExhibitProofs` | `DetectorStore`, `CameraFleet` | `ModelsBehindReady`, `StreamsAddUp`, `EarnedModels` | The pod's part of the invariant: a line is fitted where the volume has nothing, and saved where good frames are (`Fitting`); the lines before the one being done have their detector (`Progress`). `StreamsAddUp` is about `divmod`: that the analyzer's shares, dealt out line by line, are the streams that the simulator publishes and are `CAMERAS` together. It is proved with a one-to-one map from 1..`CAMERAS` to the plan, camera *k* to line *k* mod lines (`PlanCounts`). |
| | `CurateVisa`, `BuildImage` | `FramesStayExact` (with `Invariance` of the whole line) | The maintainer's part: the directories done have exactly their picks on the disk and in the rows, the one being written its first few, those to come no row (`Running`), and the manifest is what was last written and not yet disturbed. That the picks are spread over the whole list is arithmetic: a step of *i·n/count* rounded down never stands still (`PlaceSteps`) and ends in the last stretch (`PlaceLast`), with the rounded-down products of the floating-point division included. |
| `Diagram` | itself | `ValidatedSaysWhatIsTrue`, `CommittedIsValid`, `ArrowsTouchTheirBoxes`, `LabelsAreClear`, `FileIsTrueAlways` | Being inside is transitive, so the pairs that `validate()` compares settle which cluster a box is drawn in. The committed layout is computed with. An arrow's anchor is on the border of its box wherever the box is (`AnchorOnBorder`); pins are checked one by one. |

Every safety and action property of a passing run is the subject of one of these
theorems. Each inductive invariant was checked by TLC on the run's instance
before or beside its proof. Two theorems of the shim, `OffIsTruthful` and
`Refinement`, assume `OneInstanceEach`: no instance is replaced and a pinned id
is the one the Name tag names. Run `shim_replaced` shows why they need it.

Where a theorem would have needed induction over data, the model has a
definition without recursion and the proof an argument without induction: the
percentile as the entry of a rank, the time charged as a set of ticks, the plan
of the cameras as the image of an interval. Sums and sorted sequences are
defined by recursion, whose unfolding the provers cannot carry through.

Only model-checked: liveness under fairness (`PlayEnds`, `RunEnds`,
`InstallFinishes`, `Finishes`, `EveryFramePublished`, `FailureIsSaid`,
`GoodGetsThrough`, `ComesBack`, `RoleSucceeds`, `ChargesBecomeRates`,
`PageCatchesUp`), which the provers cannot handle.

Only proved: `Diagram`, and `BindingCorrect`, `VettedCorrect` and
`DeviceForScoring`, whose invariants no run lists because what they are for is
checked by `NoCrossFire` and `MetricsAreTrue`.

## What is abstracted, and what is left out

* Scores and the forecast's arithmetic, training and calibration; the values NVML
  reads; the page's layout and the figures that come with a score. A picture is
  the frame it is of, in `Dashboard`; `CameraWatch` has none.
* In a scrape, the forecast's gauge and the counter of reports, and all cameras
  but the one that is followed.
* How `CATEGORIES` is split: `entrypoint.sh:35` neither strips spaces nor drops
  empty names, `analyzer.py:59` does both. `CameraFleet` and `DetectorStore` take
  the list as given, and the repository sets `CATEGORIES` nowhere.
* A key and a certificate of different makers that a dead run of the role has left:
  `ComesBack` and `RoleSucceeds` assume there is none in the end (`Calm`).
* The text of requests and responses of the shim and its TLS; of its
  configuration, only whether it is complete and whose password it has.
* An empty set of lines: the images always have the two that are committed. A
  setting or a command line that names a category twice: the repository sets
  `CATEGORIES` nowhere and calls the curation with its default categories.
* The encoding of a line's video (`build-line-video.sh`); the colours, fonts,
  texts and legend of the picture.
* `hack/test-templates.py`, half of the repository's code in the covered
  languages: it renders the templates and compares them with what is expected,
  without state of its own. It was read for what it says of the code.
* What recovery commands do to the cluster: any change may follow them.
* The five signals of `health.yml` and the fence tests of `fencing.yml` are one
  task each in `TnfInstall`.
* In `TnfInstall`, CloudFormation answers at once: failures of a stack are in
  `StackOps`, and here a command that dies.
* Two operators at once. Every model has one.
* The clean-up of Route53 zones and records, which is best effort and which
  nothing waits for.
* Everything `PROJECT.json` lists as not modelled: declarative parts, waits for
  operators of other projects, and read-only tools.

## Plan

Done: the fencing path (shim, oracle, sessions, deployment, recovery), the life
cycle of an environment (stacks, install, clean, teardown), the application
(watchers, startup, accounting, dashboard, cameras) and the picture. What is
left, in this order:

1. `TnfFencing`: Pacemaker's fence agent (off, poll until Off, on) with the
   timeouts of `fencing.yml` over `PowerOracle`, for the race in which both
   nodes fence each other and for the reboot that outlasts a timeout
   (`docs/resilience.md:255-277`). It EXTENDS nothing of the shim: the proved
   refinement makes the oracle enough. Property: at most one side survives a
   fence, and a takeover begins only after an Off.
2. `McpRollout`: `gpu-passthrough` and `wait-mcp.yml` against a MachineConfig
   operator that renders late and reboots the nodes in turn. Property: the role
   goes on only when every node runs a config with the IOMMU arguments.
3. `SnoInstall`: `sno-cluster`, with what it shares with `TnfInstall` taken out
   into a module that both instantiate.
4. `VcpAgents`: approval of agents that register in any order, each with the
   role of its machine.

An abstract specification worth stating after these two: a *stack* that appears
and disappears at an operation's end, implemented by `StackOps` and used by
`Teardown` and `TnfInstall`.

Theorems to come: at-most-one-survivor for `TnfFencing`, and the refinement of
the abstract stack. Bounds for the new runs: two nodes, one reboot per node,
three agents.
