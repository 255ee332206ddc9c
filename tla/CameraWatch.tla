----------------------------- MODULE CameraWatch -----------------------------
(***************************************************************************)
(* app/analyzer/analyzer.py: one watcher thread per camera.  A watcher     *)
(* reads a frame, scores it on the one device under INFER_LOCK, judges it, *)
(* may ask the VLM about it (a call of up to a minute) and publishes the   *)
(* outcome under LOCK.  Readers of /api/state see what was published.      *)
(* Prometheus scrapes /metrics without a lock: it comes between any two    *)
(* statements of a watcher, and watchers go on while it collects.          *)
(*                                                                         *)
(* A frame is its number in its camera's stream.  A score, a forecast or a *)
(* report is the number of the frame it is of; the pictures are the matter *)
(* of Dashboard.  Delivers bounds the streams.                             *)
(***************************************************************************)
EXTENDS Streams, FiniteSets

CONSTANTS
    Delivers,       \* by camera, how many frames its stream delivers
    NoCamera,       \* nobody holds INFER_LOCK
    Raises          \* whether scoring (a CUDA error) and the forecast (polyfit) may raise

ASSUME ConstantsAssumption ==
    /\ Delivers \in [Cameras -> Frames]
    /\ NoCamera \notin Cameras
    /\ Raises \in BOOLEAN

None == 0
MaybeFrame == Frames \cup {None}

VARIABLES
    pc,         \* where each watcher is
    frame,      \* the frame in hand, the last one read
    bad,        \* the frames whose score reached the limit
    rising,     \* the frames whose forecast was a number
    report,     \* entry["report"]: whether the entry in hand has one
    inferLock,  \* INFER_LOCK
    state,      \* STATE, by camera
    metrics,    \* the watchers' counters and gauges, by camera
    scraped,    \* a camera followed through a scrape of /metrics
    family,     \* the metric that the scrape collects next
    seen        \* what it has collected of that camera so far

watchers == <<pc, frame, bad, rising, report, inferLock, state, metrics>>
scrape   == <<scraped, family, seen>>
vars     == <<watchers, scrape>>

Places == {"off", "open", "read", "queue", "score", "gauge", "forecast", "count", "defect",
           "ask", "publish", "dead"}
Entry  == [score : MaybeFrame, eta : MaybeFrame, verdict : {"none", "PASS", "FAIL"},
           report : MaybeFrame]
Metric == [score : MaybeFrame, eta : MaybeFrame, pass : 0..MaxFrames, fail : 0..MaxFrames,
           defects : 0..MaxFrames, reports : 0..MaxFrames]

NewEntry  == [score |-> None, eta |-> None, verdict |-> "none", report |-> None]
NewMetric == [score |-> None, eta |-> None, pass |-> 0, fail |-> 0, defects |-> 0,
              reports |-> 0]

\* Mutant: the counter of the failed frames is registered before that of the defects.
AfterFailFirst == [score |-> "fail", fail |-> "defects", defects |-> "pass", pass |-> "done"]

\* The order in which the metrics are registered, and so collected; the forecast's
\* gauge and the counter of reports, in between, are left out.
After == [score |-> "defects", defects |-> "pass", pass |-> "fail", fail |-> "done"]

Families == DOMAIN After
Sample   == [Families -> 0..MaxFrames]

NoSample == [f \in Families |-> 0]

TypeOK ==
    /\ pc \in [Cameras -> Places]
    /\ frame \in [Cameras -> MaybeFrame]
    /\ bad \in [Cameras -> SUBSET Frames]
    /\ rising \in [Cameras -> SUBSET Frames]
    /\ report \in [Cameras -> BOOLEAN]
    /\ inferLock \in Cameras \cup {NoCamera}
    /\ state \in [Cameras -> Entry]
    /\ metrics \in [Cameras -> Metric]
    /\ scraped \in Cameras \cup {NoCamera}
    /\ family \in Families \cup {"done"}
    /\ family = "done" <=> scraped = NoCamera
    /\ seen \in Sample

Init ==
    /\ pc = [c \in Cameras |-> "off"]
    /\ frame = [c \in Cameras |-> None]
    /\ bad = [c \in Cameras |-> {}]
    /\ rising = [c \in Cameras |-> {}]
    /\ report = [c \in Cameras |-> FALSE]
    /\ inferLock = NoCamera
    /\ state = [c \in Cameras |-> NewEntry]
    /\ metrics = [c \in Cameras |-> NewMetric]
    /\ scraped = NoCamera
    /\ family = "done"
    /\ seen = NoSample

\* What score() may find of a part: a map whose 99.9th percentile reaches the
\* limit, or not.
Scores == BOOLEAN

\* Whether the recent scores are enough, and rise enough, for a forecast.
Forecasts == BOOLEAN

Goto(c, place) == pc' = [pc EXCEPT ![c] = place]

-----------------------------------------------------------------------------
(* The watcher.                                                            *)

Start(c) ==
    /\ pc[c] = "off"
    /\ Goto(c, "open")
    /\ state' = [state EXCEPT ![c] = NewEntry]
    /\ UNCHANGED <<frame, bad, rising, report, inferLock, metrics, scrape>>

\* Mutant: every connection registers the camera.
OpenAnew(c) ==
    /\ pc[c] = "open"
    /\ Goto(c, "read")
    /\ state' = [state EXCEPT ![c] = NewEntry]
    /\ UNCHANGED <<frame, bad, rising, report, inferLock, metrics, scrape>>

\* The stream opens; while it does not, the watcher sleeps and tries again.
Open(c) ==
    /\ pc[c] = "open"
    /\ Goto(c, "read")
    /\ UNCHANGED <<frame, bad, rising, report, inferLock, state, metrics, scrape>>

Read(c) ==
    /\ pc[c] = "read"
    /\ frame[c] < Delivers[c]
    /\ frame' = [frame EXCEPT ![c] = @ + 1]
    /\ Goto(c, "queue")
    /\ UNCHANGED <<bad, rising, report, inferLock, state, metrics, scrape>>

StreamLost(c) ==
    /\ pc[c] = "read"
    /\ Goto(c, "open")
    /\ UNCHANGED <<frame, bad, rising, report, inferLock, state, metrics, scrape>>

TakeDevice(c) ==
    /\ pc[c] = "queue"
    /\ inferLock = NoCamera
    /\ inferLock' = c
    /\ Goto(c, "score")
    /\ UNCHANGED <<frame, bad, rising, report, state, metrics, scrape>>

\* Mutant: the device is kept until the frame is judged, the VLM asked.
ScoreKeepingDevice(c) ==
    /\ pc[c] = "score"
    /\ UNCHANGED inferLock
    /\ \E failed \in Scores :
          bad' = [bad EXCEPT ![c] = IF failed THEN @ \cup {frame[c]} ELSE @]
    /\ Goto(c, "gauge")
    /\ UNCHANGED <<frame, rising, report, state, metrics, scrape>>

Score(c) ==
    /\ pc[c] = "score"
    /\ inferLock' = NoCamera
    /\ \E failed \in Scores :
          bad' = [bad EXCEPT ![c] = IF failed THEN @ \cup {frame[c]} ELSE @]
    /\ Goto(c, "gauge")
    /\ UNCHANGED <<frame, rising, report, state, metrics, scrape>>

\* The scorer raises: the lock is released, and nothing catches the exception.
Raise(c) ==
    /\ Raises
    /\ pc[c] = "score"
    /\ inferLock' = NoCamera
    /\ Goto(c, "dead")
    /\ UNCHANGED <<frame, bad, rising, report, state, metrics, scrape>>

\* The judgement, one step for each statement that others can see.
SetScore(c) ==
    /\ pc[c] = "gauge"
    /\ metrics' = [metrics EXCEPT ![c].score = frame[c]]
    /\ Goto(c, "forecast")
    /\ UNCHANGED <<frame, bad, rising, report, inferLock, state, scrape>>

\* Mutant: the gauge keeps the first forecast.
FirstForecast(c) ==
    /\ pc[c] = "forecast"
    /\ \E number \in Forecasts :
          /\ rising' = [rising EXCEPT ![c] = IF number THEN @ \cup {frame[c]} ELSE @]
          /\ metrics' = [metrics EXCEPT ![c].eta =
                             IF number /\ @ = None THEN frame[c] ELSE @]
    /\ Goto(c, "count")
    /\ UNCHANGED <<frame, bad, report, inferLock, state, scrape>>

\* The forecast is a number only if the trend rises.
Forecast(c) ==
    /\ pc[c] = "forecast"
    /\ \E number \in Forecasts :
          /\ rising' = [rising EXCEPT ![c] = IF number THEN @ \cup {frame[c]} ELSE @]
          /\ metrics' = [metrics EXCEPT ![c].eta = IF number THEN frame[c] ELSE @]
    /\ Goto(c, "count")
    /\ UNCHANGED <<frame, bad, report, inferLock, state, scrape>>

\* The fit does not converge, or the limit is no number: the frame has been
\* scored and is never counted.
ForecastRaises(c) ==
    /\ Raises
    /\ pc[c] = "forecast"
    /\ Goto(c, "dead")
    /\ UNCHANGED <<frame, bad, rising, report, inferLock, state, metrics, scrape>>

\* Mutant: every frame is counted as good before it is judged.
CountAllGood(c) ==
    /\ pc[c] = "count"
    /\ metrics' = [metrics EXCEPT ![c] = [@ EXCEPT
                      !.pass = @ + 1, !.fail = IF frame[c] \in bad[c] THEN @ + 1 ELSE @]]
    /\ Goto(c, IF frame[c] \in bad[c] THEN "defect" ELSE "publish")
    /\ UNCHANGED <<frame, bad, rising, report, inferLock, state, scrape>>

Count(c) ==
    /\ pc[c] = "count"
    /\ metrics' = IF frame[c] \in bad[c] THEN [metrics EXCEPT ![c].fail = @ + 1]
                                         ELSE [metrics EXCEPT ![c].pass = @ + 1]
    /\ Goto(c, IF frame[c] \in bad[c] THEN "defect" ELSE "publish")
    /\ UNCHANGED <<frame, bad, rising, report, inferLock, state, scrape>>

\* A failed frame goes to the VLM unless VLM_COOLDOWN seconds have not passed since
\* the last question; any time may have passed between two frames.
Defect(c) ==
    /\ pc[c] = "defect"
    /\ metrics' = [metrics EXCEPT ![c].defects = @ + 1]
    /\ \E cooledDown \in BOOLEAN : Goto(c, IF cooledDown THEN "ask" ELSE "publish")
    /\ UNCHANGED <<frame, bad, rising, report, inferLock, state, scrape>>

Judge(c) ==
    SetScore(c) \/ Forecast(c) \/ ForecastRaises(c) \/ Count(c) \/ Defect(c)

\* ask_vlm returns what the VLM wrote, or a sentence about the error, or None
\* when the frame could not be encoded.  The counter counts all three.
Ask(c) ==
    /\ pc[c] = "ask"
    /\ \E outcome \in {"answer", "unavailable", "None"} :
          report' = [report EXCEPT ![c] = outcome # "None"]
    /\ metrics' = [metrics EXCEPT ![c].reports = @ + 1]
    /\ Goto(c, "publish")
    /\ UNCHANGED <<frame, bad, rising, inferLock, state, scrape>>

\* Mutant: the verdict sticks once a part has failed.
PublishSticky(c) ==
    /\ pc[c] = "publish"
    /\ state' = [state EXCEPT ![c] =
            [score   |-> frame[c],
             eta     |-> IF frame[c] \in rising[c] THEN frame[c] ELSE None,
             verdict |-> IF bad[c] # {} THEN "FAIL" ELSE "PASS",
             report  |-> IF report[c] THEN frame[c] ELSE @.report]]
    /\ report' = [report EXCEPT ![c] = FALSE]
    /\ Goto(c, "read")
    /\ UNCHANGED <<frame, bad, rising, inferLock, metrics, scrape>>

\* The entry in one piece: a field with no value keeps the old one, except the
\* forecast, which is cleared.
Publish(c) ==
    /\ pc[c] = "publish"
    /\ state' = [state EXCEPT ![c] =
            [score   |-> frame[c],
             eta     |-> IF frame[c] \in rising[c] THEN frame[c] ELSE None,
             verdict |-> IF frame[c] \in bad[c] THEN "FAIL" ELSE "PASS",
             report  |-> IF report[c] THEN frame[c] ELSE @.report]]
    /\ report' = [report EXCEPT ![c] = FALSE]
    /\ Goto(c, "read")
    /\ UNCHANGED <<frame, bad, rising, inferLock, metrics, scrape>>

\* With a frame that has been given the device a watcher goes on by itself.
WithFrame(c) == Score(c) \/ Raise(c) \/ Judge(c) \/ Ask(c) \/ Publish(c)

Watch(c) == Start(c) \/ Open(c) \/ StreamLost(c) \/ Read(c) \/ TakeDevice(c) \/ WithFrame(c)

-----------------------------------------------------------------------------
(* A scrape of /metrics: the registry's metrics, one after the other.      *)

\* It begins with the gauge of the score.
Scrape(c) ==
    /\ family = "done"
    /\ scraped' = c
    /\ family' = After["score"]
    /\ seen' = [NoSample EXCEPT !["score"] = metrics[c].score]
    /\ UNCHANGED watchers

\* What the scrape has collected when the family it is at is in.
Sampled == [seen EXCEPT ![family] = metrics[scraped][family]]

\* With its last family the answer is sent.
Collect ==
    /\ family # "done"
    /\ family' = After[family]
    /\ IF family' = "done" THEN scraped' = NoCamera /\ seen' = NoSample
                          ELSE seen' = Sampled /\ UNCHANGED scraped
    /\ UNCHANGED watchers

Next == Collect \/ \E c \in Cameras : Watch(c) \/ Scrape(c)

\* What runs on the processor goes on; scoring ends and a question is answered
\* or times out after 60 seconds.  A lock that comes free again and again is
\* eventually had.  Nothing is assumed of the streams.
Fairness == \A c \in Cameras : WF_vars(WithFrame(c)) /\ SF_vars(TakeDevice(c))

Spec == Init /\ [][Next]_vars /\ Fairness

-----------------------------------------------------------------------------
(* Properties.                                                             *)

\* What a reader is shown is one frame's: the verdict is that of the frame whose
\* score is shown, the forecast is its forecast if it has one, and the report is
\* about a defective part that has been shown.
EntryIsOneFrame ==
    \A c \in Cameras : LET e == state[c] IN
        /\ e.score = None \/ (e.verdict = "FAIL") = (e.score \in bad[c])
        /\ e.eta = IF e.score \in rising[c] THEN e.score ELSE None
        /\ e.report <= e.score
        /\ e.report # None => e.report \in bad[c]

\* The forecast gauge outlives the trend: it is the last forecast there was, of
\* whatever frame, while the entry of a frame without a forecast shows none.
GaugeIsLastForecast ==
    \A c \in Cameras : LET last == metrics[c].eta IN
        /\ last = None => rising[c] = {}
        /\ last # None => last \in rising[c] /\ \A n \in rising[c] : n <= last
        /\ last >= state[c].eta

\* At any moment, between any two statements of the watcher: every frame is counted
\* once, as good or as defective; the gauge is ahead of the counts, and the counts
\* of what is shown, by the frame in hand at most; inspection_defects_total (line
\* 228) and inspection_fail_total (line 222) differ by that frame at most; and no
\* report is counted without its defect.
EveryFrameCounted ==
    \A c \in Cameras : LET m == metrics[c]
                           counted == m.pass + m.fail IN
        /\ m.fail = Cardinality(bad[c] \cap 1..counted)
        /\ m.score \in {counted, counted + 1}
        /\ counted \in {state[c].score, state[c].score + 1}
        /\ m.fail \in {m.defects, m.defects + 1}
        /\ m.reports <= m.defects

\* A scrape collects one metric after the other while the watchers go on, and still
\* its answer adds up: of the frames up to the score it saw all but the one in hand
\* are in its counts, and there is no defect without its failed frame.
ScrapeAddsUp ==
    family # "done" /\ After[family] = "done" =>
        /\ Sampled.score <= Sampled.pass + Sampled.fail + 1
        /\ Sampled.defects <= Sampled.fail

\* What Prometheus scrapes is true of the frames scored: the counters and the gauge.
MetricsAreTrue == EveryFrameCounted /\ GaugeIsLastForecast /\ ScrapeAddsUp

\* A camera that waits for the VLM does not hold the device the others need.
DeviceOnlyWhileScoring ==
    \A c \in Cameras : inferLock = c <=> pc[c] = "score"

Shown(c) ==
    IF pc[c] = "off" THEN [score |-> 0, verdict |-> "absent"]
    ELSE [score |-> state[c].score, verdict |-> state[c].verdict]

Results == INSTANCE LatestResult WITH
    latest <- [c \in Cameras |-> Shown(c)],
    sent   <- [c \in Cameras |-> state[c].score]

\* The watchers publish as LatestResult promises the readers: a camera is
\* registered once, however often its stream is lost, and what is shown of it is
\* then always a later frame's, score and verdict in one piece.
PublishesForward == Results!Spec

\* Every frame read is published in the end, or its watcher has died: no lock
\* and no question to the VLM keeps it for ever.
EveryFramePublished ==
    \A c \in Cameras :
        frame[c] > state[c].score ~> (state[c].score = frame[c] \/ pc[c] = "dead")
=============================================================================
