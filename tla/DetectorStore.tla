---------------------------- MODULE DetectorStore ----------------------------
(***************************************************************************)
(* app/analyzer/detector.py and the start of analyzer.py: the analyzer's   *)
(* pod works out which lines there are, gets a fitted model for each, one  *)
(* after the other, from the volume or by fitting one and saving it there, *)
(* and starts a watcher for every stream it expects.  The pod may be       *)
(* killed between any two steps; the volume stays.  The Deployment is      *)
(* Recreate with one replica, so there is one pod at a time, and the       *)
(* readiness probe never restarts it.                                      *)
(***************************************************************************)
EXTENDS ProductLines

CONSTANTS
    Configured,     \* what CATEGORIES may say; the empty list: nothing
    CAMERAS,        \* the streams of all lines together
    FitMayFail,     \* training or its download may raise
    SaveMayTear     \* the pod may die, or the disk fill, inside torch.save

\* CATEGORIES names a line once: DETECTORS has one detector for each.
ASSUME ConstantsAssumption ==
    /\ \A c \in Configured : c \in Seq(Categories) /\ Distinct(c)
    /\ CAMERAS \in Nat \ {0}
    /\ FitMayFail \in BOOLEAN
    /\ SaveMayTear \in BOOLEAN

VARIABLES
    train,      \* /train of the image, by category: whether it has good frames
    weights,    \* <category>-efficientad.pt on the volume
    pod,        \* the analyzer's process
    lines,      \* its CATEGORIES
    task,       \* what startup's thread is doing
    turn,       \* the place in lines it does it for
    loaded,     \* the categories whose detector has a model
    error,      \* STARTUP_ERROR is set
    ready,      \* READY is set
    watchers    \* the streams that have a watcher, <<category, number>>

process  == <<pod, lines, task, turn, loaded, error, ready, watchers>>
analyzer == <<train, weights, process>>

Tasks == {"ensure", "fit", "save", "load", "watch", "serve", "ended"}

AnalyzerTypeOK ==
    /\ train \in [Categories -> BOOLEAN]
    /\ weights \in [Categories -> {"absent", "partial", "whole"}]
    /\ pod \in {"down", "up"}
    /\ lines \in {Names} \cup Configured
    /\ task \in Tasks
    /\ turn \in 1..Len(lines)
    /\ loaded \subseteq Categories
    /\ error \in BOOLEAN
    /\ ready \in BOOLEAN
    /\ watchers \subseteq Categories \X (Nat \ {0})

-----------------------------------------------------------------------------
(* The lines and their streams.                                            *)

\* CATEGORIES if it is set, else every directory of /train: the image has one for
\* each of Names, with or without frames.
discover_categories(configured) == IF configured # <<>> THEN configured ELSE Names

\* Mutant: the remainder is dropped.
CameraPlanEven(categories) ==
    LET base == CAMERAS \div Len(categories)
    IN  {<<categories[k], i>> : k \in 1..Len(categories), i \in 1..base}

\* The budget divided across the lines, the remainder to the earlier ones.
CameraPlan(categories) ==
    LET base  == CAMERAS \div Len(categories)
        extra == CAMERAS % Len(categories)
    IN  UNION {{categories[k]} \X (1..(base + IF k <= extra THEN 1 ELSE 0))
                  : k \in 1..Len(categories)}

\* A new detector has no model.
Unloaded == {}

\* A fresh process, on the GPU or without one.
Fresh ==
    /\ pod' = "up"
    /\ \E configured \in Configured : lines' = discover_categories(configured)
    /\ task' = "ensure"
    /\ turn' = 1
    /\ loaded' = Unloaded
    /\ error' = FALSE
    /\ ready' = FALSE
    /\ watchers' = {}

AnalyzerInit ==
    /\ train = [c \in Categories |-> TRUE]
    /\ weights = [c \in Categories |-> "absent"]
    /\ pod = "down"
    /\ lines = Names
    /\ task = "ended"
    /\ turn = 1
    /\ loaded = {}
    /\ error = FALSE
    /\ ready = FALSE
    /\ watchers = {}

-----------------------------------------------------------------------------
(* startup's thread.                                                       *)

Does(t) == pod = "up" /\ task = t

current == lines[turn]

\* Mutant: the thread dies silently.
FailsSilently ==
    /\ UNCHANGED error
    /\ task' = "ended"
    /\ UNCHANGED <<pod, lines, turn, loaded, ready, watchers>>

\* An exception: it is recorded for /healthz, the thread ends, the process stays.
Fails ==
    /\ error' = TRUE
    /\ task' = "ended"
    /\ UNCHANGED <<pod, lines, turn, loaded, ready, watchers>>

\* Mutant: the cache is not looked at.
EnsureFits ==
    /\ Does("ensure")
    /\ task' = "fit"
    /\ UNCHANGED <<train, weights, pod, lines, turn, loaded, error, ready, watchers>>

Ensure ==
    /\ Does("ensure")
    /\ task' = IF weights[current] # "absent" THEN "load" ELSE "fit"
    /\ UNCHANGED <<train, weights, pod, lines, turn, loaded, error, ready, watchers>>

\* Mutant: no score, no complaint.
CalibratesAnyway(c) == TRUE

\* Without a good frame there is nothing to take a percentile of.
Calibrates(c) == train[c]

\* Training and calibration.
Fit ==
    /\ Does("fit")
    /\ \/ /\ Calibrates(current)
          /\ task' = "save"
          /\ UNCHANGED <<pod, lines, turn, loaded, error, ready, watchers>>
       \/ (FitMayFail \/ ~Calibrates(current)) /\ Fails
    /\ UNCHANGED <<train, weights>>

\* torch.save writes the file in place: at first it is there and not whole.
OpenFile ==
    /\ Does("save")
    /\ weights[current] # "partial"
    /\ SaveMayTear
    /\ weights' = [weights EXCEPT ![current] = "partial"]
    /\ UNCHANGED <<train, process>>

SaveFails ==
    /\ Does("save")
    /\ weights[current] = "partial"
    /\ Fails
    /\ UNCHANGED <<train, weights>>

Save ==
    /\ Does("save")
    /\ weights' = [weights EXCEPT ![current] = "whole"]
    /\ task' = "load"
    /\ UNCHANGED <<train, pod, lines, turn, loaded, error, ready, watchers>>

\* The next category, or all of them have their detector.
Loaded ==
    /\ loaded' = loaded \cup {current}
    /\ IF turn = Len(lines) THEN ready' = TRUE /\ task' = "watch" /\ UNCHANGED turn
       ELSE turn' = turn + 1 /\ task' = "ensure" /\ UNCHANGED ready
    /\ UNCHANGED <<pod, lines, error, watchers>>

\* Mutant: a file that cannot be read is skipped.
LoadTolerant ==
    /\ Does("load")
    /\ Loaded
    /\ UNCHANGED <<train, weights>>

\* A file that is not whole cannot be loaded.
Load ==
    /\ Does("load")
    /\ IF weights[current] = "whole" THEN Loaded ELSE Fails
    /\ UNCHANGED <<train, weights>>

\* A thread for every stream of the plan, after READY is set.
StartWatchers ==
    /\ Does("watch")
    /\ watchers' = CameraPlan(lines)
    /\ task' = "serve"
    /\ UNCHANGED <<train, weights, pod, lines, turn, loaded, error, ready>>

Startup == Ensure \/ Fit \/ OpenFile \/ Save \/ SaveFails \/ Load \/ StartWatchers

-----------------------------------------------------------------------------
(* The pod.                                                                *)

Schedule ==
    /\ pod = "down"
    /\ Fresh
    /\ UNCHANGED <<train, weights>>

\* Eviction, a node failure, a rollout.
Kill ==
    /\ pod = "up"
    /\ pod' = "down"
    /\ lines' = Names
    /\ task' = "ended"
    /\ turn' = 1
    /\ loaded' = {}
    /\ error' = FALSE
    /\ ready' = FALSE
    /\ watchers' = {}
    /\ UNCHANGED <<train, weights>>

-----------------------------------------------------------------------------
(* Properties.                                                             *)

\* /healthz
Healthz == IF error THEN 500 ELSE IF ready THEN 200 ELSE 503

\* The pod is Ready, and a stream watched, only with a model for every line, each
\* from a whole file: "a camera can never be scored by the wrong one" (analyzer.py,
\* line 110).
ReadyWithEveryModel ==
    /\ pod = "up" /\ Healthz = 200 => \A i \in 1..Len(lines) : lines[i] \in loaded
    /\ \A w \in watchers : w[1] \in loaded
    /\ \A c \in loaded : weights[c] = "whole"

\* "The fit happens once for the life of the volume" (40-analyzer.yaml, lines
\* 89-90): a saved model is never fitted again nor spoiled, however often the
\* pod is killed and started.
FittedOnce ==
    [][\A c \in Categories : weights[c] = "whole" =>
          weights'[c] = "whole" /\ ~(task' = "fit" /\ current' = c)]_analyzer

\* A start that failed can be told from a start that is slow (analyzer.py, lines
\* 321-325): 503 does not last.
FailureIsSaid == (pod = "up" /\ Healthz = 503) ~> (pod = "down" \/ Healthz # 503)
=============================================================================
