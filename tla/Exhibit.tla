------------------------------- MODULE Exhibit -------------------------------
(***************************************************************************)
(* The inspection line from the data set to the screen: frames are curated *)
(* and committed (CurateVisa), the images are built from them, the cameras *)
(* publish their videos (CameraFleet) and the analyzer fits a model to     *)
(* each line and watches the streams it works out to be there              *)
(* (DetectorStore).                                                        *)
(*                                                                         *)
(* A maintainer curates and builds while no analyzer runs: a pod reads     *)
(* neither frames/ nor a registry once it has been started, so nothing     *)
(* could be seen of a finer interleaving.                                  *)
(***************************************************************************)
EXTENDS CurateVisa, DetectorStore

Cameras == INSTANCE CameraFleet WITH Videos <- Names

vars == <<curating, analyzer>>

Init == CurationInit /\ AnalyzerInit

\* The analyzer's image is given the good frames there are, whichever run left
\* them, interrupted or not.
BuildImage ==
    /\ pod = "down"
    /\ step = "idle"
    /\ train' = [c \in Categories |-> InDir(<<c, "normal">>) # {}]
    /\ UNCHANGED <<curating, weights, process>>

Next ==
    \/ pod = "down" /\ Curate /\ UNCHANGED analyzer
    \/ BuildImage
    \/ step = "idle" /\ (Startup \/ Schedule \/ Kill) /\ UNCHANGED curating

\* startup's thread goes on by itself: training has a fixed number of epochs.
Spec == Init /\ [][Next]_vars /\ WF_vars(Startup /\ UNCHANGED curating)

-----------------------------------------------------------------------------
(* Properties.                                                             *)

TypeOK ==
    /\ AnalyzerTypeOK
    /\ \A f \in frames \cup manifest \cup rows :
          /\ f \in (Categories \X Labels) \X Nat \X Nat
          /\ f[3] < Sources[f[1][2]]
    /\ step \in {"idle", "pick", "clear", "write", "manifest"}
    /\ call \in Calls \cup {NoCall}
    /\ last \in Calls \cup {NoCall}

\* The streams "still add up to what was asked for" (entrypoint.sh, line 51), and
\* where the cameras and the analyzer agree on the lines each of them works out the
\* same streams: all that are published are watched, each for its own line.
EveryStreamWatched ==
    pod = "up" /\ task = "serve" => \A configured \in Configured :
        /\ Cardinality(Cameras!Published(configured)) = CAMERAS
        /\ Cameras!Lines(configured) = lines => Cameras!Published(configured) = watchers

\* An image built after a run was interrupted may have a line without a good frame:
\* nothing is ever saved as the model of such a line, to be loaded by later starts.
NoModelFromNothing ==
    [][\A c \in Categories : weights[c] = "absent" /\ weights'[c] # "absent" => train[c]]_vars

\* What is under frames/ and in the manifest after a run: pictures of the data set,
\* exactly those the arguments ask for, spread over the whole of it (main and
\* evenly_spaced of curate-visa.py).
FramesAreExact == TypeOK /\ ManifestIsExact /\ SpreadAcrossTheList

\* Every model on the volume comes of good frames and is fitted once
\* (EfficientAdDetector.ensure, _fit and _calibrate).
ModelsAreEarned == FittedOnce /\ NoModelFromNothing
=============================================================================
