-------------------------- MODULE InspectionProofs --------------------------
(***************************************************************************)
(* Proofs about the inspection of the frames, for any set of cameras and   *)
(* any length of their streams: the watcher threads, whose inductive       *)
(* invariant ties the frame in hand to what has been judged, counted and   *)
(* published and a scrape under way to what it has still to collect, and   *)
(* the page, whose cards and requests under way hold what the analyzer has *)
(* shown at some time.                                                     *)
(***************************************************************************)
EXTENDS CameraWatch, Dashboard, FiniteSetTheorems, SequenceTheorems, TLAPS

InHand  == {"queue", "score", "gauge", "forecast", "count", "defect", "ask", "publish", "dead"}
Gauged  == {"forecast", "count", "defect", "ask", "publish"}
Counted == {"defect", "ask", "publish"}
Between == {"off", "open", "read"}

\* The frame in hand is the one after the frame shown.
FramesInHand ==
    \A c \in Cameras :
        /\ bad[c] \subseteq 1..frame[c]
        /\ rising[c] \subseteq 1..frame[c]
        /\ pc[c] = "off" => frame[c] = 0
        /\ pc[c] \in Between => frame[c] = state[c].score
        /\ pc[c] \in InHand => frame[c] = state[c].score + 1
        /\ pc[c] \in {"queue", "score"} => frame[c] \notin bad[c]
        /\ pc[c] \in {"queue", "score", "gauge", "forecast"} => frame[c] \notin rising[c]

\* What the gauge and the counters have of the frame in hand.
Counters ==
    \A c \in Cameras : LET m == metrics[c] IN
        /\ pc[c] \in Between \cup Gauged => m.score = frame[c]
        /\ pc[c] \in InHand \ (Gauged \cup {"dead"}) => frame[c] = m.score + 1
        /\ pc[c] = "dead" => frame[c] \in {m.score, m.score + 1}
        /\ pc[c] \in Between \cup Counted => frame[c] = m.pass + m.fail
        /\ pc[c] \in InHand \ Counted => frame[c] = m.pass + m.fail + 1
        /\ m.fail = IF pc[c] = "defect" THEN m.defects + 1 ELSE m.defects
        /\ m.reports <= m.defects
        /\ pc[c] = "ask" => m.reports < m.defects
        /\ m.eta <= m.score

\* The failed frames among those counted are the counter of the failed.
FailsCounted ==
    \A c \in Cameras :
        metrics[c].fail = Cardinality(bad[c] \cap 1..(metrics[c].pass + metrics[c].fail))

\* A report is asked for, and had, about a defective part.
Reports ==
    \A c \in Cameras :
        /\ report[c] => pc[c] = "publish"
        /\ pc[c] \in {"defect", "ask"} \/ report[c] => frame[c] \in bad[c]

\* What a scrape has collected, the watchers have not gone back behind.
SeenBehind ==
    family # "done" =>
        /\ family \in {"defects", "pass", "fail"}
        /\ seen["score"] <= metrics[scraped].score
        /\ family # "defects" => seen["defects"] <= metrics[scraped].defects
        /\ family = "fail" => seen["score"] <= seen["pass"] + metrics[scraped].fail + 1

IInv == /\ TypeOK /\ FramesInHand /\ Counters /\ FailsCounted /\ Reports /\ SeenBehind
        /\ EntryIsOneFrame /\ DeviceOnlyWhileScoring /\ GaugeIsLastForecast

LEMMA InitIInv == Init => IInv
<1> SUFFICES ASSUME Init PROVE IInv
  OBVIOUS
<1>1. TypeOK
  BY ConstantsAssumption, FramesAssumption DEF Init, TypeOK, Places, Entry, Metric,
     NewEntry, NewMetric, NoSample, Sample, Families, After, MaybeFrame, Frames, None
<1>2. FramesInHand /\ Counters /\ Reports /\ SeenBehind
  BY DEF Init, FramesInHand, Counters, Reports, SeenBehind, InHand, Gauged, Counted,
     Between, NewEntry, NewMetric, None
<1>3. EntryIsOneFrame /\ DeviceOnlyWhileScoring
  BY ConstantsAssumption, FramesAssumption DEF Init, EntryIsOneFrame,
     DeviceOnlyWhileScoring, NewEntry, None
<1>4. ASSUME NEW c \in Cameras
      PROVE  /\ metrics[c].fail = 0 /\ metrics[c].pass = 0
             /\ metrics[c].eta = 0 /\ state[c].eta = 0
             /\ bad[c] = {} /\ rising[c] = {}
  BY DEF Init, NewEntry, NewMetric, None
<1>5. FailsCounted
  <2>1. \A c \in Cameras : bad[c] \cap 1..(metrics[c].pass + metrics[c].fail) = {}
    <3>1. \A S : {} \cap S = {}
      OBVIOUS
    <3>2. QED
      BY <1>4, <3>1, Zenon
  <2>2. Cardinality({}) = 0
    BY FS_EmptySet
  <2>3. ASSUME NEW c \in Cameras
        PROVE  metrics[c].fail
                 = Cardinality(bad[c] \cap 1..(metrics[c].pass + metrics[c].fail))
    <3>1. bad[c] \cap 1..(metrics[c].pass + metrics[c].fail) = {} /\ metrics[c].fail = 0
      BY <1>4, <2>1
    <3>2. QED
      BY <2>2, <3>1, Zenon
  <2>4. QED
    BY <2>3, Zenon DEF FailsCounted
<1>6. GaugeIsLastForecast
  BY <1>4, 0 >= 0, Zenon DEF GaugeIsLastForecast, None
<1>7. QED
  BY <1>1, <1>2, <1>3, <1>5, <1>6 DEF IInv

\* The metrics the scrape follows only grow.
LEMMA SeenStaysBehind ==
    ASSUME IInv, UNCHANGED scrape, metrics' \in [Cameras -> Metric],
           \A c \in Cameras :
              /\ metrics[c].score <= metrics'[c].score
              /\ metrics[c].defects <= metrics'[c].defects
              /\ metrics[c].fail <= metrics'[c].fail
    PROVE  SeenBehind'
<1> SUFFICES ASSUME family # "done" PROVE SeenBehind'
  BY DEF scrape, SeenBehind
<1>1. scraped \in Cameras
  BY DEF IInv, TypeOK
<1>2. /\ metrics[scraped] \in Metric /\ metrics'[scraped] \in Metric
      /\ seen["score"] \in Nat /\ seen["defects"] \in Nat /\ seen["pass"] \in Nat
  BY <1>1 DEF IInv, TypeOK, Sample, Families, After
<1>3. QED
  BY <1>1, <1>2, FramesAssumption DEF IInv, SeenBehind, scrape, Metric, MaybeFrame, Frames, None

LEMMA StartInv == ASSUME IInv, NEW c \in Cameras, Start(c) PROVE IInv'
<1>1. TypeOK'
  BY ConstantsAssumption, FramesAssumption DEF IInv, TypeOK, FramesInHand, Counters,
     Start, Goto, Places, Entry, Metric, NewEntry, MaybeFrame, Frames, None, scrape
<1>2. FramesInHand'
  BY DEF IInv, TypeOK, FramesInHand, Start, Goto, Entry, NewEntry, InHand, Between,
     MaybeFrame, Frames, None
<1>3. Counters'
  BY DEF IInv, TypeOK, FramesInHand, Counters, Start, Goto, Metric, InHand, Gauged,
     Counted, Between, MaybeFrame, Frames, None
<1>4. FailsCounted'
  BY DEF IInv, FailsCounted, Start
<1>5. Reports'
  BY DEF IInv, TypeOK, Reports, FramesInHand, Start, Goto
<1>6. SeenBehind'
  BY DEF IInv, SeenBehind, Start, scrape
<1>7. EntryIsOneFrame'
  BY DEF IInv, TypeOK, FramesInHand, Reports, EntryIsOneFrame, Start, Goto, Entry,
     NewEntry, InHand, Between, MaybeFrame, Frames, None
<1>8. DeviceOnlyWhileScoring'
  BY ConstantsAssumption, FramesAssumption DEF IInv, TypeOK, DeviceOnlyWhileScoring,
     Start, Goto, Places
<1>9. GaugeIsLastForecast'
  BY DEF IInv, TypeOK, FramesInHand, Counters, GaugeIsLastForecast, Start, Goto,
     Entry, Metric, NewEntry, InHand, MaybeFrame, Frames, None
<1>10. QED
  BY <1>1, <1>2, <1>3, <1>4, <1>5, <1>6, <1>7, <1>8, <1>9 DEF IInv

LEMMA OpenInv == ASSUME IInv, NEW c \in Cameras, Open(c) PROVE IInv'
<1>1. TypeOK'
  BY ConstantsAssumption, FramesAssumption DEF IInv, TypeOK, FramesInHand, Counters,
     Open, Goto, Places, Entry, Metric, NewEntry, MaybeFrame, Frames, None, scrape
<1>2. FramesInHand'
  BY DEF IInv, TypeOK, FramesInHand, Open, Goto, Entry, NewEntry, InHand, Between,
     MaybeFrame, Frames, None
<1>3. Counters'
  BY DEF IInv, TypeOK, FramesInHand, Counters, Open, Goto, Metric, InHand, Gauged,
     Counted, Between, MaybeFrame, Frames, None
<1>4. FailsCounted'
  BY DEF IInv, FailsCounted, Open
<1>5. Reports'
  BY DEF IInv, TypeOK, Reports, FramesInHand, Open, Goto
<1>6. SeenBehind'
  BY DEF IInv, SeenBehind, Open, scrape
<1>7. EntryIsOneFrame'
  BY DEF IInv, TypeOK, FramesInHand, Reports, EntryIsOneFrame, Open, Goto, Entry,
     NewEntry, InHand, Between, MaybeFrame, Frames, None
<1>8. DeviceOnlyWhileScoring'
  BY ConstantsAssumption, FramesAssumption DEF IInv, TypeOK, DeviceOnlyWhileScoring,
     Open, Goto, Places
<1>9. GaugeIsLastForecast'
  BY DEF IInv, TypeOK, FramesInHand, Counters, GaugeIsLastForecast, Open, Goto,
     Entry, Metric, NewEntry, InHand, MaybeFrame, Frames, None
<1>10. QED
  BY <1>1, <1>2, <1>3, <1>4, <1>5, <1>6, <1>7, <1>8, <1>9 DEF IInv

LEMMA ReadInv == ASSUME IInv, NEW c \in Cameras, Read(c) PROVE IInv'
<1>1. TypeOK'
  <2>1. frame' \in [Cameras -> MaybeFrame]
    <3>1. Delivers[c] \in 1..MaxFrames /\ frame[c] \in 0..MaxFrames
      BY ConstantsAssumption, FramesAssumption DEF IInv, TypeOK, MaybeFrame, Frames, None
    <3>2. frame[c] + 1 \in MaybeFrame
      BY <3>1, FramesAssumption DEF Read, MaybeFrame, Frames, None
    <3>3. QED
      BY <3>2 DEF IInv, TypeOK, Read
  <2>2. pc' \in [Cameras -> Places]
    BY DEF IInv, TypeOK, Read, Goto, Places
  <2>3. QED
    BY <2>1, <2>2 DEF IInv, TypeOK, Read, scrape
<1>2. FramesInHand'
  BY DEF IInv, TypeOK, FramesInHand, Read, Goto, Entry, NewEntry, InHand, Between,
     MaybeFrame, Frames, None
<1>3. Counters'
  BY DEF IInv, TypeOK, FramesInHand, Counters, Read, Goto, Metric, InHand, Gauged,
     Counted, Between, MaybeFrame, Frames, None
<1>4. FailsCounted'
  BY DEF IInv, FailsCounted, Read
<1>5. Reports'
  BY DEF IInv, TypeOK, Reports, FramesInHand, Read, Goto
<1>6. SeenBehind'
  BY DEF IInv, SeenBehind, Read, scrape
<1>7. EntryIsOneFrame'
  BY DEF IInv, TypeOK, FramesInHand, Reports, EntryIsOneFrame, Read, Goto, Entry,
     NewEntry, InHand, Between, MaybeFrame, Frames, None
<1>8. DeviceOnlyWhileScoring'
  BY ConstantsAssumption, FramesAssumption DEF IInv, TypeOK, DeviceOnlyWhileScoring,
     Read, Goto, Places
<1>9. GaugeIsLastForecast'
  BY DEF IInv, TypeOK, FramesInHand, Counters, GaugeIsLastForecast, Read, Goto,
     Entry, Metric, NewEntry, InHand, MaybeFrame, Frames, None
<1>10. QED
  BY <1>1, <1>2, <1>3, <1>4, <1>5, <1>6, <1>7, <1>8, <1>9 DEF IInv

LEMMA StreamLostInv == ASSUME IInv, NEW c \in Cameras, StreamLost(c) PROVE IInv'
<1>1. TypeOK'
  BY ConstantsAssumption, FramesAssumption DEF IInv, TypeOK, FramesInHand, Counters,
     StreamLost, Goto, Places, Entry, Metric, NewEntry, MaybeFrame, Frames, None, scrape
<1>2. FramesInHand'
  BY DEF IInv, TypeOK, FramesInHand, StreamLost, Goto, Entry, NewEntry, InHand, Between,
     MaybeFrame, Frames, None
<1>3. Counters'
  BY DEF IInv, TypeOK, FramesInHand, Counters, StreamLost, Goto, Metric, InHand, Gauged,
     Counted, Between, MaybeFrame, Frames, None
<1>4. FailsCounted'
  BY DEF IInv, FailsCounted, StreamLost
<1>5. Reports'
  BY DEF IInv, TypeOK, Reports, FramesInHand, StreamLost, Goto
<1>6. SeenBehind'
  BY DEF IInv, SeenBehind, StreamLost, scrape
<1>7. EntryIsOneFrame'
  BY DEF IInv, TypeOK, FramesInHand, Reports, EntryIsOneFrame, StreamLost, Goto, Entry,
     NewEntry, InHand, Between, MaybeFrame, Frames, None
<1>8. DeviceOnlyWhileScoring'
  BY ConstantsAssumption, FramesAssumption DEF IInv, TypeOK, DeviceOnlyWhileScoring,
     StreamLost, Goto, Places
<1>9. GaugeIsLastForecast'
  BY DEF IInv, TypeOK, FramesInHand, Counters, GaugeIsLastForecast, StreamLost, Goto,
     Entry, Metric, NewEntry, InHand, MaybeFrame, Frames, None
<1>10. QED
  BY <1>1, <1>2, <1>3, <1>4, <1>5, <1>6, <1>7, <1>8, <1>9 DEF IInv

LEMMA TakeDeviceInv == ASSUME IInv, NEW c \in Cameras, TakeDevice(c) PROVE IInv'
<1>1. TypeOK'
  BY ConstantsAssumption, FramesAssumption DEF IInv, TypeOK, FramesInHand, Counters,
     TakeDevice, Goto, Places, Entry, Metric, NewEntry, MaybeFrame, Frames, None, scrape
<1>2. FramesInHand'
  BY DEF IInv, TypeOK, FramesInHand, TakeDevice, Goto, Entry, NewEntry, InHand, Between,
     MaybeFrame, Frames, None
<1>3. Counters'
  BY DEF IInv, TypeOK, FramesInHand, Counters, TakeDevice, Goto, Metric, InHand, Gauged,
     Counted, Between, MaybeFrame, Frames, None
<1>4. FailsCounted'
  BY DEF IInv, FailsCounted, TakeDevice
<1>5. Reports'
  BY DEF IInv, TypeOK, Reports, FramesInHand, TakeDevice, Goto
<1>6. SeenBehind'
  BY DEF IInv, SeenBehind, TakeDevice, scrape
<1>7. EntryIsOneFrame'
  BY DEF IInv, TypeOK, FramesInHand, Reports, EntryIsOneFrame, TakeDevice, Goto, Entry,
     NewEntry, InHand, Between, MaybeFrame, Frames, None
<1>8. DeviceOnlyWhileScoring'
  BY ConstantsAssumption, FramesAssumption DEF IInv, TypeOK, DeviceOnlyWhileScoring,
     TakeDevice, Goto, Places
<1>9. GaugeIsLastForecast'
  BY DEF IInv, TypeOK, FramesInHand, Counters, GaugeIsLastForecast, TakeDevice, Goto,
     Entry, Metric, NewEntry, InHand, MaybeFrame, Frames, None
<1>10. QED
  BY <1>1, <1>2, <1>3, <1>4, <1>5, <1>6, <1>7, <1>8, <1>9 DEF IInv

LEMMA ScoreInv == ASSUME IInv, NEW c \in Cameras, Score(c) PROVE IInv'
<1>1. TypeOK'
  <2>1. frame[c] \in Frames
    BY DEF IInv, TypeOK, FramesInHand, Score, InHand, Entry, MaybeFrame, Frames, None
  <2>2. bad' \in [Cameras -> SUBSET Frames]
    BY <2>1 DEF IInv, TypeOK, Score
  <2>3. pc' \in [Cameras -> Places]
    BY DEF IInv, TypeOK, Score, Goto, Places
  <2>4. QED
    BY <2>2, <2>3 DEF IInv, TypeOK, Score, scrape
<1>2. FramesInHand'
  BY DEF IInv, TypeOK, FramesInHand, Score, Goto, Entry, NewEntry, InHand, Between,
     MaybeFrame, Frames, None
<1>3. Counters'
  BY DEF IInv, TypeOK, FramesInHand, Counters, Score, Goto, Metric, InHand, Gauged,
     Counted, Between, MaybeFrame, Frames, None
<1>4. FailsCounted'
  <2>1. ASSUME NEW d \in Cameras
        PROVE  bad'[d] \cap 1..(metrics[d].pass + metrics[d].fail)
                 = bad[d] \cap 1..(metrics[d].pass + metrics[d].fail)
    <3>1. metrics[d].pass \in Nat /\ metrics[d].fail \in Nat
      BY DEF IInv, TypeOK, Metric
    <3>2. pc[c] = "score" /\ frame[c] = metrics[c].pass + metrics[c].fail + 1
      BY DEF IInv, Counters, Score, InHand, Counted
    <3>3. QED
      BY <3>1, <3>2 DEF IInv, TypeOK, Score
  <2>2. QED
    BY <2>1 DEF IInv, FailsCounted, Score
<1>5. Reports'
  BY DEF IInv, TypeOK, Reports, FramesInHand, Score, Goto
<1>6. SeenBehind'
  BY DEF IInv, SeenBehind, Score, scrape
<1>7. EntryIsOneFrame'
  BY DEF IInv, TypeOK, FramesInHand, Reports, EntryIsOneFrame, Score, Goto, Entry,
     NewEntry, InHand, Between, MaybeFrame, Frames, None
<1>8. DeviceOnlyWhileScoring'
  BY ConstantsAssumption, FramesAssumption DEF IInv, TypeOK, DeviceOnlyWhileScoring,
     Score, Goto, Places
<1>9. GaugeIsLastForecast'
  BY DEF IInv, TypeOK, FramesInHand, Counters, GaugeIsLastForecast, Score, Goto,
     Entry, Metric, NewEntry, InHand, MaybeFrame, Frames, None
<1>10. QED
  BY <1>1, <1>2, <1>3, <1>4, <1>5, <1>6, <1>7, <1>8, <1>9 DEF IInv

LEMMA RaiseInv == ASSUME IInv, NEW c \in Cameras, Raise(c) PROVE IInv'
<1>1. TypeOK'
  BY ConstantsAssumption, FramesAssumption DEF IInv, TypeOK, FramesInHand, Counters,
     Raise, Goto, Places, Entry, Metric, NewEntry, MaybeFrame, Frames, None, scrape
<1>2. FramesInHand'
  BY DEF IInv, TypeOK, FramesInHand, Raise, Goto, Entry, NewEntry, InHand, Between,
     MaybeFrame, Frames, None
<1>3. Counters'
  BY DEF IInv, TypeOK, FramesInHand, Counters, Raise, Goto, Metric, InHand, Gauged,
     Counted, Between, MaybeFrame, Frames, None
<1>4. FailsCounted'
  BY DEF IInv, FailsCounted, Raise
<1>5. Reports'
  BY DEF IInv, TypeOK, Reports, FramesInHand, Raise, Goto
<1>6. SeenBehind'
  BY DEF IInv, SeenBehind, Raise, scrape
<1>7. EntryIsOneFrame'
  BY DEF IInv, TypeOK, FramesInHand, Reports, EntryIsOneFrame, Raise, Goto, Entry,
     NewEntry, InHand, Between, MaybeFrame, Frames, None
<1>8. DeviceOnlyWhileScoring'
  BY ConstantsAssumption, FramesAssumption DEF IInv, TypeOK, DeviceOnlyWhileScoring,
     Raise, Goto, Places
<1>9. GaugeIsLastForecast'
  BY DEF IInv, TypeOK, FramesInHand, Counters, GaugeIsLastForecast, Raise, Goto,
     Entry, Metric, NewEntry, InHand, MaybeFrame, Frames, None
<1>10. QED
  BY <1>1, <1>2, <1>3, <1>4, <1>5, <1>6, <1>7, <1>8, <1>9 DEF IInv

LEMMA UpToFinite == \A n \in Nat : IsFiniteSet(1..n)
  BY FS_Interval

LEMMA SetScoreInv == ASSUME IInv, NEW c \in Cameras, SetScore(c) PROVE IInv'
<1>1. TypeOK'
  <2>1. frame[c] \in MaybeFrame
    BY DEF IInv, TypeOK
  <2>2. metrics' \in [Cameras -> Metric]
    BY <2>1 DEF IInv, TypeOK, SetScore, Metric
  <2>3. pc' \in [Cameras -> Places]
    BY DEF IInv, TypeOK, SetScore, Goto, Places
  <2>4. QED
    BY <2>2, <2>3 DEF IInv, TypeOK, SetScore, scrape
<1>2. FramesInHand'
  BY DEF IInv, TypeOK, FramesInHand, SetScore, Goto, Entry, NewEntry, InHand, Between,
     MaybeFrame, Frames, None
<1>3. Counters'
  BY DEF IInv, TypeOK, FramesInHand, Counters, SetScore, Goto, Metric, InHand, Gauged,
     Counted, Between, MaybeFrame, Frames, None
<1>4. FailsCounted'
  <2>1. ASSUME NEW d \in Cameras
        PROVE  /\ metrics'[d].pass = metrics[d].pass
               /\ metrics'[d].fail = metrics[d].fail
    BY <2>1 DEF IInv, TypeOK, SetScore, Metric
  <2>2. QED
    BY <2>1 DEF IInv, FailsCounted, SetScore
<1>5. Reports'
  BY DEF IInv, TypeOK, Reports, FramesInHand, SetScore, Goto
<1>6. SeenBehind'
  <2>1. metrics' \in [Cameras -> Metric] /\ UNCHANGED scrape
    BY <1>1 DEF TypeOK, SetScore
  <2>2. ASSUME NEW d \in Cameras
        PROVE  /\ metrics[d].score <= metrics'[d].score
               /\ metrics[d].defects <= metrics'[d].defects
               /\ metrics[d].fail <= metrics'[d].fail
    BY <2>2, FramesAssumption DEF IInv, TypeOK, Counters, SetScore, Metric, InHand, Gauged,
       MaybeFrame, Frames, None
  <2>3. QED
    BY <2>1, <2>2, SeenStaysBehind
<1>7. EntryIsOneFrame'
  BY DEF IInv, TypeOK, FramesInHand, Reports, EntryIsOneFrame, SetScore, Goto, Entry,
     NewEntry, InHand, Between, MaybeFrame, Frames, None
<1>8. DeviceOnlyWhileScoring'
  BY ConstantsAssumption, FramesAssumption DEF IInv, TypeOK, DeviceOnlyWhileScoring,
     SetScore, Goto, Places
<1>9. GaugeIsLastForecast'
  BY DEF IInv, TypeOK, FramesInHand, Counters, GaugeIsLastForecast, SetScore, Goto,
     Entry, Metric, NewEntry, InHand, MaybeFrame, Frames, None
<1>10. QED
  BY <1>1, <1>2, <1>3, <1>4, <1>5, <1>6, <1>7, <1>8, <1>9 DEF IInv

LEMMA ForecastInv == ASSUME IInv, NEW c \in Cameras, Forecast(c) PROVE IInv'
<1>1. TypeOK'
  <2>1. frame[c] \in Frames
    BY DEF IInv, TypeOK, FramesInHand, Forecast, InHand, Entry, MaybeFrame, Frames, None
  <2>2. metrics' \in [Cameras -> Metric]
    <3>1. PICK number \in Forecasts :
             metrics' = [metrics EXCEPT ![c].eta = IF number THEN frame[c] ELSE @]
      BY DEF Forecast
    <3>2. metrics[c] \in Metric /\ frame[c] \in MaybeFrame
      BY DEF IInv, TypeOK
    <3>3. [metrics[c] EXCEPT !.eta = IF number THEN frame[c] ELSE @] \in Metric
      BY <3>2 DEF Metric
    <3>4. QED
      BY <3>1, <3>3 DEF IInv, TypeOK
  <2>3. pc' \in [Cameras -> Places]
    BY DEF IInv, TypeOK, Forecast, Goto, Places
  <2>4. rising' \in [Cameras -> SUBSET Frames]
    BY <2>1 DEF IInv, TypeOK, Forecast
  <2>5. QED
    BY <2>2, <2>3, <2>4 DEF IInv, TypeOK, Forecast, scrape
<1>2. FramesInHand'
  BY DEF IInv, TypeOK, FramesInHand, Forecast, Goto, Entry, NewEntry, InHand, Between,
     MaybeFrame, Frames, None
<1>3. Counters'
  BY DEF IInv, TypeOK, FramesInHand, Counters, Forecast, Goto, Metric, InHand, Gauged,
     Counted, Between, MaybeFrame, Frames, None
<1>4. FailsCounted'
  <2>1. ASSUME NEW d \in Cameras
        PROVE  /\ metrics'[d].pass = metrics[d].pass
               /\ metrics'[d].fail = metrics[d].fail
    BY <2>1 DEF IInv, TypeOK, Forecast, Metric
  <2>2. QED
    BY <2>1 DEF IInv, FailsCounted, Forecast
<1>5. Reports'
  BY DEF IInv, TypeOK, Reports, FramesInHand, Forecast, Goto
<1>6. SeenBehind'
  <2>1. metrics' \in [Cameras -> Metric] /\ UNCHANGED scrape
    BY <1>1 DEF TypeOK, Forecast
  <2>2. ASSUME NEW d \in Cameras
        PROVE  /\ metrics[d].score <= metrics'[d].score
               /\ metrics[d].defects <= metrics'[d].defects
               /\ metrics[d].fail <= metrics'[d].fail
    BY <2>2, FramesAssumption DEF IInv, TypeOK, Counters, Forecast, Metric, InHand, Gauged,
       MaybeFrame, Frames, None
  <2>3. QED
    BY <2>1, <2>2, SeenStaysBehind
<1>7. EntryIsOneFrame'
  BY DEF IInv, TypeOK, FramesInHand, Reports, EntryIsOneFrame, Forecast, Goto, Entry,
     NewEntry, InHand, Between, MaybeFrame, Frames, None
<1>8. DeviceOnlyWhileScoring'
  BY ConstantsAssumption, FramesAssumption DEF IInv, TypeOK, DeviceOnlyWhileScoring,
     Forecast, Goto, Places
<1>9. GaugeIsLastForecast'
  <2>1. PICK number \in Forecasts :
          /\ rising' = [rising EXCEPT ![c] = IF number THEN @ \cup {frame[c]} ELSE @]
          /\ metrics' = [metrics EXCEPT ![c].eta = IF number THEN frame[c] ELSE @]
    BY DEF Forecast
  <2>2. /\ rising[c] \subseteq 1..frame[c]
        /\ frame[c] \in Nat \ {0}
        /\ metrics[c].eta \in Nat /\ metrics[c].eta <= frame[c]
        /\ state[c].eta \in Nat /\ metrics[c].eta >= state[c].eta
    BY DEF IInv, TypeOK, FramesInHand, Counters, GaugeIsLastForecast, Forecast, InHand,
       Gauged, Entry, Metric, MaybeFrame, Frames, None
  <2>3. /\ metrics'[c].eta = IF number THEN frame[c] ELSE metrics[c].eta
        /\ rising'[c] = IF number THEN rising[c] \cup {frame[c]} ELSE rising[c]
    BY <2>1 DEF IInv, TypeOK, Metric
  <2>4. ASSUME NEW d \in Cameras, d # c
        PROVE  metrics'[d] = metrics[d] /\ rising'[d] = rising[d]
    BY <2>1, <2>4 DEF IInv, TypeOK
  <2>5. state' = state
    BY DEF Forecast
  <2>6. /\ metrics'[c].eta = None => rising'[c] = {}
        /\ metrics'[c].eta # None =>
              metrics'[c].eta \in rising'[c] /\ \A n \in rising'[c] : n <= metrics'[c].eta
        /\ metrics'[c].eta >= state[c].eta
    BY <2>2, <2>3 DEF IInv, GaugeIsLastForecast, None
  <2>7. QED
    BY <2>4, <2>5, <2>6 DEF IInv, GaugeIsLastForecast
<1>10. QED
  BY <1>1, <1>2, <1>3, <1>4, <1>5, <1>6, <1>7, <1>8, <1>9 DEF IInv

LEMMA ForecastRaisesInv == ASSUME IInv, NEW c \in Cameras, ForecastRaises(c) PROVE IInv'
<1>1. TypeOK'
  BY ConstantsAssumption, FramesAssumption DEF IInv, TypeOK, FramesInHand, Counters,
     ForecastRaises, Goto, Places, Entry, Metric, NewEntry, MaybeFrame, Frames, None, scrape
<1>2. FramesInHand'
  BY DEF IInv, TypeOK, FramesInHand, ForecastRaises, Goto, Entry, NewEntry, InHand, Between,
     MaybeFrame, Frames, None
<1>3. Counters'
  BY DEF IInv, TypeOK, FramesInHand, Counters, ForecastRaises, Goto, Metric, InHand, Gauged,
     Counted, Between, MaybeFrame, Frames, None
<1>4. FailsCounted'
  BY DEF IInv, FailsCounted, ForecastRaises
<1>5. Reports'
  BY DEF IInv, TypeOK, Reports, FramesInHand, ForecastRaises, Goto
<1>6. SeenBehind'
  BY DEF IInv, SeenBehind, ForecastRaises, scrape
<1>7. EntryIsOneFrame'
  BY DEF IInv, TypeOK, FramesInHand, Reports, EntryIsOneFrame, ForecastRaises, Goto, Entry,
     NewEntry, InHand, Between, MaybeFrame, Frames, None
<1>8. DeviceOnlyWhileScoring'
  BY ConstantsAssumption, FramesAssumption DEF IInv, TypeOK, DeviceOnlyWhileScoring,
     ForecastRaises, Goto, Places
<1>9. GaugeIsLastForecast'
  BY DEF IInv, TypeOK, FramesInHand, Counters, GaugeIsLastForecast, ForecastRaises, Goto,
     Entry, Metric, NewEntry, InHand, MaybeFrame, Frames, None
<1>10. QED
  BY <1>1, <1>2, <1>3, <1>4, <1>5, <1>6, <1>7, <1>8, <1>9 DEF IInv

LEMMA CountInv == ASSUME IInv, NEW c \in Cameras, Count(c) PROVE IInv'
<1>1. TypeOK'
  <2>1. metrics[c].pass + metrics[c].fail < MaxFrames
    BY FramesAssumption
       DEF IInv, TypeOK, Counters, Count, InHand, Counted, Metric, MaybeFrame, Frames, None
  <2>2. metrics' \in [Cameras -> Metric]
    BY <2>1, FramesAssumption DEF IInv, TypeOK, Count, Metric
  <2>3. pc' \in [Cameras -> Places]
    BY DEF IInv, TypeOK, Count, Goto, Places
  <2>4. QED
    BY <2>2, <2>3 DEF IInv, TypeOK, Count, scrape
<1>2. FramesInHand'
  BY DEF IInv, TypeOK, FramesInHand, Count, Goto, Entry, NewEntry, InHand, Between,
     MaybeFrame, Frames, None
<1>3. Counters'
  BY DEF IInv, TypeOK, FramesInHand, Counters, Count, Goto, Metric, InHand, Gauged,
     Counted, Between, MaybeFrame, Frames, None
<1>4. FailsCounted'
  <2> DEFINE before == bad[c] \cap 1..(metrics[c].pass + metrics[c].fail)
             now    == bad[c] \cap 1..frame[c]
  <2>1. /\ frame[c] = metrics[c].pass + metrics[c].fail + 1
        /\ metrics[c].pass \in Nat /\ metrics[c].fail \in Nat
    BY DEF IInv, TypeOK, Counters, Count, InHand, Counted, Metric
  <2>2. IsFiniteSet(before) /\ frame[c] \notin before
    <3>1. metrics[c].pass + metrics[c].fail \in Nat
      BY <2>1
    <3>2. IsFiniteSet(1..(metrics[c].pass + metrics[c].fail))
      BY <3>1, UpToFinite, Zenon
    <3>3. IsFiniteSet(before)
      BY <3>2, FS_Subset
    <3>4. QED
      BY <2>1, <3>3
  <2>3. now = IF frame[c] \in bad[c] THEN before \cup {frame[c]} ELSE before
    BY <2>1
  <2>4. Cardinality(now) = IF frame[c] \in bad[c] THEN Cardinality(before) + 1
                                                  ELSE Cardinality(before)
    BY <2>2, <2>3, FS_AddElement
  <2>5. metrics[c].fail = Cardinality(before)
    BY DEF IInv, FailsCounted
  <2> HIDE DEF before, now
  <2>6. /\ metrics'[c].fail = IF frame[c] \in bad[c] THEN metrics[c].fail + 1
                                                     ELSE metrics[c].fail
        /\ metrics'[c].pass = IF frame[c] \in bad[c] THEN metrics[c].pass
                                                     ELSE metrics[c].pass + 1
    BY DEF IInv, TypeOK, Count, Metric
  <2>7. metrics'[c].fail = Cardinality(now) /\ metrics'[c].pass + metrics'[c].fail = frame[c]
    BY <2>1, <2>4, <2>5, <2>6
  <2>8. ASSUME NEW d \in Cameras, d # c PROVE metrics'[d] = metrics[d]
    BY <2>8 DEF IInv, TypeOK, Count
  <2>9. bad' = bad
    BY DEF Count
  <2>10. QED
    BY <2>7, <2>8, <2>9 DEF IInv, FailsCounted, now
<1>5. Reports'
  BY DEF IInv, TypeOK, Reports, FramesInHand, Count, Goto
<1>6. SeenBehind'
  <2>1. metrics' \in [Cameras -> Metric] /\ UNCHANGED scrape
    BY <1>1 DEF TypeOK, Count
  <2>2. ASSUME NEW d \in Cameras
        PROVE  /\ metrics[d].score <= metrics'[d].score
               /\ metrics[d].defects <= metrics'[d].defects
               /\ metrics[d].fail <= metrics'[d].fail
    BY <2>2, FramesAssumption DEF IInv, TypeOK, Counters, Count, Metric, InHand, Gauged,
       MaybeFrame, Frames, None
  <2>3. QED
    BY <2>1, <2>2, SeenStaysBehind
<1>7. EntryIsOneFrame'
  BY DEF IInv, TypeOK, FramesInHand, Reports, EntryIsOneFrame, Count, Goto, Entry,
     NewEntry, InHand, Between, MaybeFrame, Frames, None
<1>8. DeviceOnlyWhileScoring'
  BY ConstantsAssumption, FramesAssumption DEF IInv, TypeOK, DeviceOnlyWhileScoring,
     Count, Goto, Places
<1>9. GaugeIsLastForecast'
  BY DEF IInv, TypeOK, FramesInHand, Counters, GaugeIsLastForecast, Count, Goto,
     Entry, Metric, NewEntry, InHand, MaybeFrame, Frames, None
<1>10. QED
  BY <1>1, <1>2, <1>3, <1>4, <1>5, <1>6, <1>7, <1>8, <1>9 DEF IInv

LEMMA DefectInv == ASSUME IInv, NEW c \in Cameras, Defect(c) PROVE IInv'
<1>1. TypeOK'
  <2>1. metrics[c].defects < MaxFrames
    BY FramesAssumption DEF IInv, TypeOK, Counters, Defect, Metric
  <2>2. metrics' \in [Cameras -> Metric]
    BY <2>1, FramesAssumption DEF IInv, TypeOK, Defect, Metric
  <2>3. pc' \in [Cameras -> Places]
    BY DEF IInv, TypeOK, Defect, Goto, Places
  <2>4. QED
    BY <2>2, <2>3 DEF IInv, TypeOK, Defect, scrape
<1>2. FramesInHand'
  BY DEF IInv, TypeOK, FramesInHand, Defect, Goto, Entry, NewEntry, InHand, Between,
     MaybeFrame, Frames, None
<1>3. Counters'
  BY DEF IInv, TypeOK, FramesInHand, Counters, Defect, Goto, Metric, InHand, Gauged,
     Counted, Between, MaybeFrame, Frames, None
<1>4. FailsCounted'
  <2>1. ASSUME NEW d \in Cameras
        PROVE  /\ metrics'[d].pass = metrics[d].pass
               /\ metrics'[d].fail = metrics[d].fail
    BY <2>1 DEF IInv, TypeOK, Defect, Metric
  <2>2. QED
    BY <2>1 DEF IInv, FailsCounted, Defect
<1>5. Reports'
  BY DEF IInv, TypeOK, Reports, FramesInHand, Defect, Goto
<1>6. SeenBehind'
  <2>1. metrics' \in [Cameras -> Metric] /\ UNCHANGED scrape
    BY <1>1 DEF TypeOK, Defect
  <2>2. ASSUME NEW d \in Cameras
        PROVE  /\ metrics[d].score <= metrics'[d].score
               /\ metrics[d].defects <= metrics'[d].defects
               /\ metrics[d].fail <= metrics'[d].fail
    BY <2>2, FramesAssumption DEF IInv, TypeOK, Counters, Defect, Metric, InHand, Gauged,
       MaybeFrame, Frames, None
  <2>3. QED
    BY <2>1, <2>2, SeenStaysBehind
<1>7. EntryIsOneFrame'
  BY DEF IInv, TypeOK, FramesInHand, Reports, EntryIsOneFrame, Defect, Goto, Entry,
     NewEntry, InHand, Between, MaybeFrame, Frames, None
<1>8. DeviceOnlyWhileScoring'
  BY ConstantsAssumption, FramesAssumption DEF IInv, TypeOK, DeviceOnlyWhileScoring,
     Defect, Goto, Places
<1>9. GaugeIsLastForecast'
  BY DEF IInv, TypeOK, FramesInHand, Counters, GaugeIsLastForecast, Defect, Goto,
     Entry, Metric, NewEntry, InHand, MaybeFrame, Frames, None
<1>10. QED
  BY <1>1, <1>2, <1>3, <1>4, <1>5, <1>6, <1>7, <1>8, <1>9 DEF IInv

LEMMA AskInv == ASSUME IInv, NEW c \in Cameras, Ask(c) PROVE IInv'
<1>1. TypeOK'
  <2>1. metrics[c].reports < MaxFrames
    BY FramesAssumption DEF IInv, TypeOK, Counters, Ask, Metric
  <2>2. metrics' \in [Cameras -> Metric]
    BY <2>1, FramesAssumption DEF IInv, TypeOK, Ask, Metric
  <2>3. report' \in [Cameras -> BOOLEAN]
    BY Zenon DEF IInv, TypeOK, Ask
  <2>4. pc' \in [Cameras -> Places]
    BY DEF IInv, TypeOK, Ask, Goto, Places
  <2>5. QED
    BY <2>2, <2>3, <2>4 DEF IInv, TypeOK, Ask, scrape
<1>2. FramesInHand'
  BY DEF IInv, TypeOK, FramesInHand, Ask, Goto, Entry, NewEntry, InHand, Between,
     MaybeFrame, Frames, None
<1>3. Counters'
  BY DEF IInv, TypeOK, FramesInHand, Counters, Ask, Goto, Metric, InHand, Gauged,
     Counted, Between, MaybeFrame, Frames, None
<1>4. FailsCounted'
  <2>1. ASSUME NEW d \in Cameras
        PROVE  /\ metrics'[d].pass = metrics[d].pass
               /\ metrics'[d].fail = metrics[d].fail
    BY <2>1 DEF IInv, TypeOK, Ask, Metric
  <2>2. QED
    BY <2>1 DEF IInv, FailsCounted, Ask
<1>5. Reports'
  BY DEF IInv, TypeOK, Reports, FramesInHand, Ask, Goto
<1>6. SeenBehind'
  <2>1. metrics' \in [Cameras -> Metric] /\ UNCHANGED scrape
    BY <1>1 DEF TypeOK, Ask
  <2>2. ASSUME NEW d \in Cameras
        PROVE  /\ metrics[d].score <= metrics'[d].score
               /\ metrics[d].defects <= metrics'[d].defects
               /\ metrics[d].fail <= metrics'[d].fail
    BY <2>2, FramesAssumption DEF IInv, TypeOK, Counters, Ask, Metric, InHand, Gauged,
       MaybeFrame, Frames, None
  <2>3. QED
    BY <2>1, <2>2, SeenStaysBehind
<1>7. EntryIsOneFrame'
  BY DEF IInv, TypeOK, FramesInHand, Reports, EntryIsOneFrame, Ask, Goto, Entry,
     NewEntry, InHand, Between, MaybeFrame, Frames, None
<1>8. DeviceOnlyWhileScoring'
  BY ConstantsAssumption, FramesAssumption DEF IInv, TypeOK, DeviceOnlyWhileScoring,
     Ask, Goto, Places
<1>9. GaugeIsLastForecast'
  BY DEF IInv, TypeOK, FramesInHand, Counters, GaugeIsLastForecast, Ask, Goto,
     Entry, Metric, NewEntry, InHand, MaybeFrame, Frames, None
<1>10. QED
  BY <1>1, <1>2, <1>3, <1>4, <1>5, <1>6, <1>7, <1>8, <1>9 DEF IInv

LEMMA PublishInv == ASSUME IInv, NEW c \in Cameras, Publish(c) PROVE IInv'
<1>1. TypeOK'
  <2>1. report' \in [Cameras -> BOOLEAN]
    BY Zenon DEF IInv, TypeOK, Publish
  <2>2. state' \in [Cameras -> Entry]
    BY FramesAssumption DEF IInv, TypeOK, Publish, Entry, MaybeFrame, None
  <2>3. pc' \in [Cameras -> Places]
    BY DEF IInv, TypeOK, Publish, Goto, Places
  <2>4. QED
    BY <2>1, <2>2, <2>3 DEF IInv, TypeOK, Publish, scrape
<1>2. FramesInHand'
  BY DEF IInv, TypeOK, FramesInHand, Publish, Goto, Entry, NewEntry, InHand, Between,
     MaybeFrame, Frames, None
<1>3. Counters'
  BY DEF IInv, TypeOK, FramesInHand, Counters, Publish, Goto, Metric, InHand, Gauged,
     Counted, Between, MaybeFrame, Frames, None
<1>4. FailsCounted'
  BY DEF IInv, FailsCounted, Publish
<1>5. Reports'
  BY DEF IInv, TypeOK, Reports, FramesInHand, Publish, Goto
<1>6. SeenBehind'
  BY DEF IInv, SeenBehind, Publish, scrape
<1>7. EntryIsOneFrame'
  <2>1. ASSUME NEW d \in Cameras, d # c
        PROVE  state'[d] = state[d]
    BY <2>1 DEF IInv, TypeOK, Publish
  <2>2. bad' = bad /\ rising' = rising
    BY DEF Publish
  <2>3. state'[c] = [score   |-> frame[c],
                     eta     |-> IF frame[c] \in rising[c] THEN frame[c] ELSE None,
                     verdict |-> IF frame[c] \in bad[c] THEN "FAIL" ELSE "PASS",
                     report  |-> IF report[c] THEN frame[c] ELSE state[c].report]
    BY DEF IInv, TypeOK, Publish
  <2>4. QED
    BY <2>1, <2>2, <2>3 DEF IInv, TypeOK, FramesInHand, Reports, EntryIsOneFrame,
       Publish, Entry, InHand, MaybeFrame, Frames, None
<1>8. DeviceOnlyWhileScoring'
  BY ConstantsAssumption, FramesAssumption DEF IInv, TypeOK, DeviceOnlyWhileScoring,
     Publish, Goto, Places
<1>9. GaugeIsLastForecast'
  BY DEF IInv, TypeOK, FramesInHand, Counters, GaugeIsLastForecast, Publish, Goto,
     Entry, Metric, NewEntry, InHand, MaybeFrame, Frames, None
<1>10. QED
  BY <1>1, <1>2, <1>3, <1>4, <1>5, <1>6, <1>7, <1>8, <1>9 DEF IInv

LEMMA ScrapeInv == ASSUME IInv, NEW c \in Cameras, Scrape(c) PROVE IInv'
<1>1. TypeOK' /\ SeenBehind'
  <2>1. metrics[c] \in Metric /\ metrics[c].score \in 0..MaxFrames
    BY FramesAssumption DEF IInv, TypeOK, Metric, MaybeFrame, Frames, None
  <2>2. seen' \in Sample /\ seen'["score"] = metrics[c].score /\ family' = "defects"
    BY <2>1, FramesAssumption DEF Scrape, Sample, NoSample, Families, After
  <2>3. TypeOK'
    BY <2>2, ConstantsAssumption DEF IInv, TypeOK, Scrape, watchers, Families, After
  <2>4. SeenBehind'
    BY <2>1, <2>2 DEF Scrape, SeenBehind, watchers
  <2>5. QED
    BY <2>3, <2>4
<1>2. QED
  BY <1>1 DEF IInv, Scrape, watchers, FramesInHand, Counters, FailsCounted, Reports,
     EntryIsOneFrame, DeviceOnlyWhileScoring, GaugeIsLastForecast

LEMMA CollectInv == ASSUME IInv, Collect PROVE IInv'
<1>1. TypeOK' /\ SeenBehind'
  <2>1. /\ family \in {"defects", "pass", "fail"} /\ scraped \in Cameras
        /\ scraped # NoCamera /\ UNCHANGED watchers
    BY ConstantsAssumption DEF IInv, TypeOK, SeenBehind, Collect
  <2>2. /\ metrics[scraped] \in Metric /\ seen \in Sample
        /\ metrics[scraped].score <= metrics[scraped].pass + metrics[scraped].fail + 1
    BY <2>1, FramesAssumption DEF IInv, TypeOK, Counters, InHand, Gauged, Counted, Between,
       Places, Metric, MaybeFrame, Frames, None
  <2>3. CASE family = "defects"
    <3>1. /\ family' = "pass" /\ scraped' = scraped
          /\ seen' = [seen EXCEPT !["defects"] = metrics[scraped].defects]
      BY <2>3 DEF Collect, Sampled, After
    <3>2. seen' \in Sample /\ seen'["score"] = seen["score"]
          /\ seen'["defects"] = metrics[scraped].defects
      BY <2>2, <3>1, FramesAssumption DEF Sample, Families, After, Metric
    <3>3. TypeOK'
      BY <2>1, <3>1, <3>2 DEF IInv, TypeOK, watchers, Families, After
    <3>4. SeenBehind'
      BY <2>1, <2>2, <2>3, <3>1, <3>2 DEF IInv, SeenBehind, watchers, Metric
    <3>5. QED
      BY <3>3, <3>4
  <2>4. CASE family = "pass"
    <3>1. /\ family' = "fail" /\ scraped' = scraped
          /\ seen' = [seen EXCEPT !["pass"] = metrics[scraped].pass]
      BY <2>4 DEF Collect, Sampled, After
    <3>2. /\ seen' \in Sample /\ seen'["score"] = seen["score"]
          /\ seen'["defects"] = seen["defects"] /\ seen'["pass"] = metrics[scraped].pass
      BY <2>2, <3>1, FramesAssumption DEF Sample, Families, After, Metric
    <3>3. TypeOK'
      BY <2>1, <3>1, <3>2 DEF IInv, TypeOK, watchers, Families, After
    <3>4. seen["score"] <= metrics[scraped].score /\ seen["score"] \in Nat
      BY <2>1, <2>2 DEF IInv, SeenBehind, Sample, Families, After, Collect
    <3>5. SeenBehind'
      BY <2>1, <2>2, <2>4, <3>1, <3>2, <3>4, FramesAssumption
         DEF IInv, SeenBehind, watchers, Metric, MaybeFrame, Frames, None
    <3>6. QED
      BY <3>3, <3>5
  <2>5. CASE family = "fail"
    <3>1. family' = "done" /\ scraped' = NoCamera /\ seen' = NoSample
      BY <2>5 DEF Collect, After
    <3>2. NoSample \in Sample
      BY FramesAssumption DEF Sample, NoSample
    <3>3. QED
      BY <2>1, <3>1, <3>2 DEF IInv, TypeOK, SeenBehind, watchers
  <2>6. QED
    BY <2>1, <2>3, <2>4, <2>5
<1>2. QED
  BY <1>1 DEF IInv, Collect, watchers, FramesInHand, Counters, FailsCounted, Reports,
     EntryIsOneFrame, DeviceOnlyWhileScoring, GaugeIsLastForecast

LEMMA Inductive == IInv /\ [Next]_vars => IInv'
<1> SUFFICES ASSUME IInv, [Next]_vars PROVE IInv'
  OBVIOUS
<1>1. ASSUME NEW c \in Cameras, Watch(c) PROVE IInv'
  BY <1>1, StartInv, OpenInv, StreamLostInv, ReadInv, TakeDeviceInv, ScoreInv, RaiseInv,
     SetScoreInv, ForecastInv, ForecastRaisesInv, CountInv, DefectInv, AskInv, PublishInv
     DEF Watch, WithFrame, Judge
<1>2. ASSUME NEW c \in Cameras, Scrape(c) PROVE IInv'
  BY <1>2, ScrapeInv
<1>3. CASE Collect
  BY <1>3, CollectInv
<1>4. CASE UNCHANGED vars
  BY <1>4 DEF vars, watchers, scrape, IInv, TypeOK, FramesInHand, Counters, FailsCounted,
     Reports, SeenBehind, EntryIsOneFrame, DeviceOnlyWhileScoring, GaugeIsLastForecast
<1>5. QED
  BY <1>1, <1>2, <1>3, <1>4 DEF Next

LEMMA Invariance == Spec => []IInv
<1>1. Init => IInv
  BY InitIInv
<1>2. IInv /\ [Next]_vars => IInv'
  BY Inductive
<1>3. QED
  BY <1>1, <1>2, PTL DEF Spec

\* Whatever statement each watcher is at, the counters are those of the frames
\* scored, but for the frame in hand.
LEMMA Counting == IInv => EveryFrameCounted
<1> SUFFICES ASSUME IInv PROVE EveryFrameCounted
  OBVIOUS
<1>0. ASSUME NEW c \in Cameras
      PROVE  /\ metrics[c].fail
                   = Cardinality(bad[c] \cap 1..(metrics[c].pass + metrics[c].fail))
             /\ metrics[c].score \in {metrics[c].pass + metrics[c].fail,
                                    metrics[c].pass + metrics[c].fail + 1}
             /\ metrics[c].pass + metrics[c].fail \in {state[c].score, state[c].score + 1}
             /\ metrics[c].fail \in {metrics[c].defects, metrics[c].defects + 1}
             /\ metrics[c].reports <= metrics[c].defects
  <2>1. /\ metrics[c].score \in Nat /\ metrics[c].pass \in Nat /\ metrics[c].fail \in Nat
        /\ metrics[c].defects \in Nat /\ metrics[c].reports \in Nat
        /\ state[c].score \in Nat /\ frame[c] \in Nat
    BY FramesAssumption DEF IInv, TypeOK, Metric, Entry, MaybeFrame, Frames, None
  <2>2. pc[c] \in Between \cup InHand
    BY DEF IInv, TypeOK, Places, Between, InHand
  <2>3. metrics[c].fail = Cardinality(bad[c] \cap 1..(metrics[c].pass + metrics[c].fail))
    BY DEF IInv, FailsCounted
  <2>4. metrics[c].score \in {metrics[c].pass + metrics[c].fail,
                              metrics[c].pass + metrics[c].fail + 1}
    BY <2>1, <2>2 DEF IInv, Counters, InHand, Gauged, Counted, Between
  <2>5. metrics[c].pass + metrics[c].fail \in {state[c].score, state[c].score + 1}
    BY <2>1, <2>2 DEF IInv, Counters, FramesInHand, InHand, Counted, Between
  <2>6. metrics[c].fail \in {metrics[c].defects, metrics[c].defects + 1}
        /\ metrics[c].reports <= metrics[c].defects
    BY <2>1 DEF IInv, Counters
  <2>7. QED
    BY <2>3, <2>4, <2>5, <2>6
<1>1. QED
  BY <1>0, Zenon DEF EveryFrameCounted

\* What a scrape collected early is not ahead of what it collects last.
LEMMA Scraping == IInv => ScrapeAddsUp
<1> SUFFICES ASSUME IInv, family # "done", After[family] = "done"
             PROVE  /\ Sampled.score <= Sampled.pass + Sampled.fail + 1
                    /\ Sampled.defects <= Sampled.fail
  BY DEF ScrapeAddsUp
<1>1. family = "fail" /\ scraped \in Cameras
  BY DEF IInv, TypeOK, SeenBehind, After
<1>2. /\ Sampled["fail"] = metrics[scraped].fail /\ Sampled["score"] = seen["score"]
      /\ Sampled["defects"] = seen["defects"] /\ Sampled["pass"] = seen["pass"]
  BY <1>1 DEF IInv, TypeOK, Sampled, Sample, Families, After
<1>3. /\ seen["defects"] \in Nat /\ metrics[scraped].defects \in Nat
      /\ metrics[scraped].fail \in Nat
      /\ metrics[scraped].defects <= metrics[scraped].fail
  BY <1>1 DEF IInv, TypeOK, Counters, Sample, Families, After, Metric
<1>4. QED
  BY <1>1, <1>2, <1>3 DEF IInv, SeenBehind

\* The watchers keep their types: in particular no counter passes the number of
\* frames the stream has delivered.
THEOREM TypeCorrect == Spec => []TypeOK
<1>1. IInv => TypeOK
  BY DEF IInv
<1>2. QED
  BY <1>1, Invariance, PTL

\* What /api/state and the dashboard show of a camera is one frame's, whatever
\* the interleaving of reading, scoring, judging, asking and publishing.
THEOREM ShownIsOneFrame == Spec => []EntryIsOneFrame
<1>1. IInv => EntryIsOneFrame
  BY DEF IInv
<1>2. QED
  BY <1>1, Invariance, PTL

\* Between any two statements of a watcher, and after its death, every frame is in
\* the counters once, but for the frame in hand.
THEOREM FramesCounted == Spec => []EveryFrameCounted
  BY Counting, Invariance, PTL

\* INFER_LOCK is held by the watcher that is scoring and by no other, so a
\* question to the VLM never keeps the device.
THEOREM DeviceForScoring == Spec => []DeviceOnlyWhileScoring
<1>1. IInv => DeviceOnlyWhileScoring
  BY DEF IInv
<1>2. QED
  BY <1>1, Invariance, PTL

\* The gauge of the forecast is the last forecast there was and never an older one,
\* for any cameras and streams.
THEOREM GaugeKeepsForecast == Spec => []GaugeIsLastForecast
<1>1. IInv => GaugeIsLastForecast
  BY DEF IInv
<1>2. QED
  BY <1>1, Invariance, PTL

\* What Prometheus scrapes is true of the frames scored, at whatever statements of
\* the watchers it collects one metric after the other.
THEOREM MetricsTrue == Spec => []MetricsAreTrue
<1>1. IInv => MetricsAreTrue
  BY Counting, Scraping DEF IInv, MetricsAreTrue
<1>2. QED
  BY <1>1, Invariance, PTL

-----------------------------------------------------------------------------
(* The watchers implement LatestResult.                                    *)

LEMMA InitMaps == Init => Results!Init
  BY DEF Init, Results!Init, Results!Absent, Shown, NewEntry, None

\* A watcher that begins registers its camera; a frame that is published is the
\* one after the frame shown; no other step changes what is shown.
LEMMA StepMaps ==
    IInv /\ [Next]_vars =>
        [Results!Next]_<<[c \in Cameras |-> Shown(c)], [c \in Cameras |-> state[c].score]>>
<1> DEFINE outcomes == [c \in Cameras |-> Shown(c)]
           scores   == [c \in Cameras |-> state[c].score]
<1> SUFFICES ASSUME IInv, [Next]_vars
             PROVE  Results!Next \/ (outcomes' = outcomes /\ scores' = scores)
  OBVIOUS
<1>1. ASSUME NEW c \in Cameras, Start(c) PROVE Results!Register(c)
  <2>1. state[c].score = 0
    BY <1>1 DEF IInv, FramesInHand, Start, Between
  <2>2. outcomes[c] = Results!Absent
    BY <1>1 DEF Start, Shown, Results!Absent
  <2>3. \A d \in Cameras : Shown(d)' = IF d = c THEN Results!Waiting ELSE Shown(d)
    BY <1>1 DEF IInv, TypeOK, Start, Goto, Shown, NewEntry, None, Results!Waiting
  <2>4. \A d \in Cameras : state'[d].score = state[d].score
    BY <1>1, <2>1 DEF IInv, TypeOK, Start, NewEntry, None
  <2>5. QED
    BY <2>2, <2>3, <2>4 DEF Results!Register
<1>2. ASSUME NEW c \in Cameras, Publish(c) PROVE Results!Publish(c)
  <2> DEFINE v == IF frame[c] \in bad[c] THEN "FAIL" ELSE "PASS"
  <2>1. pc[c] = "publish" /\ frame[c] = state[c].score + 1 /\ state[c].score \in Nat
    BY <1>2 DEF IInv, TypeOK, FramesInHand, Publish, InHand, Entry, MaybeFrame,
       Frames, None
  <2>2. frame[c] \in Results!Frames /\ v \in Results!Verdicts
    BY <2>1 DEF IInv, TypeOK, MaybeFrame, Frames, None, Results!Frames, Results!Verdicts
  <2>3. outcomes[c] # Results!Absent
    <3>1. outcomes[c].verdict = state[c].verdict /\ state[c].verdict # "absent"
      BY <2>1 DEF IInv, TypeOK, Shown, Entry
    <3>2. QED
      BY <3>1 DEF Results!Absent
  <2>4. \A d \in Cameras :
           Shown(d)' = IF d = c THEN [score |-> frame[c], verdict |-> v] ELSE Shown(d)
    BY <1>2 DEF IInv, TypeOK, Publish, Goto, Shown
  <2>5. \A d \in Cameras : state'[d].score = IF d = c THEN frame[c] ELSE state[d].score
    BY <1>2 DEF IInv, TypeOK, Publish
  <2>6. frame[c] > scores[c]
    BY <2>1
  <2>7. QED
    BY <2>2, <2>3, <2>4, <2>5, <2>6 DEF Results!Publish
<1>3. ASSUME NEW c \in Cameras,
             \/ Open(c) \/ Read(c) \/ TakeDevice(c) \/ Score(c) \/ Raise(c) \/ Judge(c)
             \/ Ask(c) \/ StreamLost(c)
      PROVE  outcomes' = outcomes /\ scores' = scores
  <2>1. /\ state' = state
        /\ pc[c] # "off" /\ pc'[c] # "off"
        /\ \A d \in Cameras : d # c => pc'[d] = pc[d]
    BY <1>3 DEF IInv, TypeOK, Open, Read, TakeDevice, Score, Raise, Judge, SetScore,
       Forecast, ForecastRaises, Count, Defect, Ask, StreamLost, Goto
  <2>2. QED
    BY <2>1 DEF Shown
<1>4. CASE Collect \/ \E c \in Cameras : Scrape(c)
  BY <1>4 DEF Collect, Scrape, watchers, Shown
<1>5. CASE UNCHANGED vars
  BY <1>5 DEF vars, watchers, Shown
<1>6. QED
  BY <1>1, <1>2, <1>3, <1>4, <1>5 DEF Next, Watch, WithFrame, Results!Next

\* What /api/state shows is what LatestResult promises its readers, for any cameras
\* and streams: each is registered once, and a later answer is a later frame's.
THEOREM ImplementsLatestResult == Spec => PublishesForward
<1>1. Init => Results!Init
  BY InitMaps
<1>2. IInv /\ [Next]_vars =>
        [Results!Next]_<<[c \in Cameras |-> Shown(c)], [c \in Cameras |-> state[c].score]>>
  BY StepMaps
<1>3. QED
  BY <1>1, <1>2, Invariance, PTL DEF Spec, PublishesForward, Results!Spec

-----------------------------------------------------------------------------
(* The page.  What is under way, on a card or in a picture was shown by    *)
(* the analyzer at some time.                                              *)

\* An entry is of a frame shown by now, and its verdict is that frame's.
OfShown(entry, c) ==
    /\ entry.score <= sent[c]
    /\ entry.verdict = "FAIL" <=> entry.score \in defective[c]

EntriesTrue ==
    \A c \in Cameras :
        /\ defective[c] \subseteq 1..sent[c]
        /\ OfShown(latest[c], c)
        /\ latest[c].score # 0 => latest[c].score = sent[c]

\* The analyzer's picture is the last one encoded.
PicturesTrue ==
    \A c \in Cameras :
        /\ encoded[c] \subseteq 1..sent[c]
        /\ jpeg[c] # 0 => jpeg[c] \in encoded[c] /\ \A n \in encoded[c] : n <= jpeg[c]

\* An answer that no other overtook is not older than the card.
AnswersTrue ==
    \A i \in DOMAIN out, c \in Cameras :
        /\ OfShown(out[i].entries[c], c)
        /\ ~out[i].overlapped /\ out[i].entries[c].score # 0 =>
              out[i].entries[c].score >= cards[c].score

CardsShown == \A c \in Cameras : cards[c].score <= sent[c]

PageIInv ==
    PageTypeOK /\ EntriesTrue /\ PicturesTrue /\ AnswersTrue /\ CardsShown
    /\ RedIsDefective /\ PictureNotOlder

LEMMA OutcomeType ==
    /\ Analyzer!Absent \in Analyzer!Outcome /\ Analyzer!Waiting \in Analyzer!Outcome
    /\ Analyzer!Absent # Analyzer!Waiting
    /\ \A e \in Analyzer!Outcome :
          /\ e.score \in 0..MaxFrames
          /\ e.score = 0 => e \in {Analyzer!Absent, Analyzer!Waiting}
    /\ Analyzer!Absent.score = 0 /\ Analyzer!Absent.verdict # "FAIL"
    /\ Analyzer!Waiting.score = 0 /\ Analyzer!Waiting.verdict # "FAIL"
  BY FramesAssumption DEF Analyzer!Absent, Analyzer!Waiting, Analyzer!Outcome,
     Analyzer!Frames, Analyzer!Verdicts

LEMMA RequestType ==
    ASSUME NEW r \in Request
    PROVE  /\ [r EXCEPT !.overlapped = TRUE] \in Request
           /\ [r EXCEPT !.reply = "error"] \in Request
           /\ [r EXCEPT !.overlapped = TRUE].overlapped
           /\ [r EXCEPT !.overlapped = TRUE].entries = r.entries
           /\ [r EXCEPT !.reply = "error"].entries = r.entries
           /\ [r EXCEPT !.reply = "error"].overlapped = r.overlapped
           /\ r.entries \in [Cameras -> Analyzer!Outcome]
           /\ r.reply \in {"none", "error", "state"}
           /\ r.overlapped \in BOOLEAN
  BY DEF Request

LEMMA OutRequest ==
    ASSUME PageTypeOK, NEW i \in DOMAIN out
    PROVE  /\ out[i] \in Request
           /\ out[i].entries \in [Cameras -> Analyzer!Outcome]
           /\ out[i].overlapped \in BOOLEAN
<1>1. out[i] \in Request
  BY DEF PageTypeOK
<1>2. QED
  BY <1>1, RequestType

LEMMA NewRequestType ==
    /\ NewRequest \in Request
    /\ \A c \in Cameras : NewRequest.entries[c] = Analyzer!Absent
  BY OutcomeType DEF NewRequest, Request, Nobody

\* What is left of the queue was in it, and has been overtaken.
LEMMA TakenQueue ==
    ASSUME out \in Seq(Request), NEW i \in DOMAIN out
    PROVE  /\ Taken(i) \in Seq(Request)
           /\ \A k \in DOMAIN Taken(i) :
                 /\ Taken(i)[k].overlapped
                 /\ \E j \in DOMAIN out : Taken(i)[k].entries = out[j].entries
<1> DEFINE q == [j \in DOMAIN out |-> [out[j] EXCEPT !.overlapped = TRUE]]
           a == SubSeq(q, 1, i - 1)
           b == SubSeq(q, i + 1, Len(q))
<1>1. DOMAIN out = 1..Len(out) /\ Len(out) \in Nat /\ i \in 1..Len(out)
      /\ \A j \in 1..Len(out) : out[j] \in Request
  OBVIOUS
<1>2. q \in Seq(Request) /\ Len(q) = Len(out)
  <2>1. q \in [1..Len(out) -> Request]
    BY <1>1, RequestType
  <2>2. QED
    BY <2>1, <1>1, IsASeq, LenProperties
<1>3. /\ a \in Seq(Request) /\ Len(a) = i - 1
      /\ \A k \in 1..(i - 1) : a[k] = q[k]
  <2>1. \A k \in 1..(i - 1) : q[k] \in Request
    BY <1>1, <1>2
  <2> HIDE DEF q
  <2>2. /\ a \in Seq(Request) /\ Len(a) = IF 1 <= i - 1 THEN i - 1 - 1 + 1 ELSE 0
        /\ \A k \in 1..(i - 1 - 1 + 1) : a[k] = q[1 + k - 1]
    BY <1>1, <2>1, SubSeqProperties
  <2>3. QED
    BY <1>1, <2>2
<1>4. /\ b \in Seq(Request) /\ Len(b) = Len(out) - i
      /\ \A k \in 1..(Len(out) - i) : b[k] = q[i + k]
  <2>1. \A k \in (i + 1)..Len(q) : q[k] \in Request
    BY <1>1, <1>2
  <2> HIDE DEF q
  <2>2. /\ b \in Seq(Request) /\ Len(b) = Len(out) - i
        /\ \A k \in 1..(Len(q) - (i + 1) + 1) : b[k] = q[(i + 1) + k - 1]
    BY <1>1, <1>2, <2>1, SubSeqProperties
  <2>3. \A k \in 1..(Len(out) - i) :
           k \in 1..(Len(q) - (i + 1) + 1) /\ (i + 1) + k - 1 = i + k
    BY <1>1, <1>2
  <2>4. QED
    BY <2>2, <2>3
<1>5. Taken(i) = a \o b
  BY Zenon DEF Taken, RemoveAt
<1> HIDE DEF a, b, q
<1>6. /\ a \o b \in Seq(Request)
      /\ \A k \in DOMAIN (a \o b) : \E j \in DOMAIN out : (a \o b)[k] = q[j]
  <2>0. /\ a \o b \in Seq(Request) /\ Len(a \o b) = Len(a) + Len(b)
        /\ \A k \in 1..(Len(a) + Len(b)) :
              (a \o b)[k] = IF k <= Len(a) THEN a[k] ELSE b[k - Len(a)]
    BY <1>3, <1>4, ConcatProperties, Zenon
  <2>1. a \o b \in Seq(Request) /\ Len(a \o b) = Len(out) - 1
    BY <2>0, <1>1, <1>3, <1>4
  <2>2. ASSUME NEW k \in 1..(Len(out) - 1)
        PROVE  \E j \in DOMAIN out : (a \o b)[k] = q[j]
    <3>0. (a \o b)[k] = IF k <= i - 1 THEN a[k] ELSE b[k - (i - 1)]
      <4>1. k \in 1..(Len(a) + Len(b)) /\ Len(a) = i - 1
        BY <1>1, <1>3, <1>4
      <4>2. QED
        BY <2>0, <4>1
    <3>1. CASE k < i
      BY <3>0, <3>1, <1>1, <1>3
    <3>2. CASE k >= i
      <4>1. (a \o b)[k] = b[k - (i - 1)]
        BY <3>0, <3>2, <1>1
      <4>2. k - (i - 1) \in 1..(Len(out) - i) /\ k + 1 \in DOMAIN out
        BY <3>2, <1>1
      <4>3. b[k - (i - 1)] = q[k + 1]
        <5>1. i + (k - (i - 1)) = k + 1
          BY <1>1
        <5>2. QED
          BY <4>2, <5>1, <1>4
      <4>4. QED
        BY <4>1, <4>2, <4>3
    <3>3. k < i \/ k >= i
      BY <1>1
    <3>4. QED
      BY <3>1, <3>2, <3>3
  <2>3. DOMAIN (a \o b) = 1..(Len(out) - 1)
    BY <2>1, LenProperties
  <2>4. QED
    BY <2>1, <2>2, <2>3
<1>7. \A j \in DOMAIN out : q[j].overlapped /\ q[j].entries = out[j].entries
  BY <1>1, RequestType DEF q
<1>8. ASSUME NEW k \in DOMAIN (a \o b)
      PROVE  /\ (a \o b)[k].overlapped
             /\ \E j \in DOMAIN out : (a \o b)[k].entries = out[j].entries
  <2>1. PICK j \in DOMAIN out : (a \o b)[k] = q[j]
    BY <1>6, Zenon
  <2>2. QED
    BY <1>7, <2>1, Zenon
<1>9. QED
  BY <1>5, <1>6, <1>8, Zenon

LEMMA PageInitIInv == PageInit => PageIInv
<1> SUFFICES ASSUME PageInit PROVE PageIInv
  OBVIOUS
<1>1. PageTypeOK
  BY OutcomeType, FramesAssumption
     DEF PageInit, PageTypeOK, Analyzer!Init, NoCard, Card, Frames
<1>2. EntriesTrue /\ AnswersTrue
  BY OutcomeType
     DEF PageInit, Analyzer!Init, EntriesTrue, AnswersTrue, OfShown
<1>3. PicturesTrue /\ CardsShown /\ RedIsDefective /\ PictureNotOlder
  BY DEF PageInit, Analyzer!Init, PicturesTrue, CardsShown, RedIsDefective,
     PictureNotOlder, NoCard
<1>4. QED
  BY <1>1, <1>2, <1>3 DEF PageIInv

\* The analyzer goes on: a frame that is published is later than every frame
\* shown before, so no verdict that is under way or on a card is changed.
LEMMA WatchedInv == ASSUME PageIInv, NEW c \in Cameras, Watched(c) PROVE PageIInv'
<1> USE DEF PageIInv, Watched, page
<1> DEFINE P(n) ==
         /\ latest' = [latest EXCEPT ![c] = latest'[c]]
         /\ sent' = [sent EXCEPT ![c] = IF n = 0 THEN @ ELSE n]
         /\ latest'[c] \in Analyzer!Outcome /\ latest'[c].score = n
         /\ n # 0 => n > sent[c]
         /\ n = 0 => latest'[c].verdict # "FAIL"
<1> HIDE DEF P
<1>1. PICK n \in 0..MaxFrames : P(n)
  <2>1. CASE Analyzer!Register(c)
    <3>1. latest' = [latest EXCEPT ![c] = Analyzer!Waiting] /\ sent' = sent
      BY <2>1 DEF Analyzer!Register
    <3>2. latest'[c] = Analyzer!Waiting
      BY <3>1 DEF PageTypeOK
    <3>3. sent' = [sent EXCEPT ![c] = @]
      BY <3>1 DEF PageTypeOK
    <3>4. P(0)
      BY <3>1, <3>2, <3>3, OutcomeType DEF P
    <3>5. 0 \in 0..MaxFrames
      BY FramesAssumption
    <3>6. QED
      BY <3>4, <3>5
  <2>2. CASE Analyzer!Publish(c)
    <3>1. PICK m \in Analyzer!Frames, v \in Analyzer!Verdicts :
             /\ m > sent[c]
             /\ latest' = [latest EXCEPT ![c] = [score |-> m, verdict |-> v]]
             /\ sent' = [sent EXCEPT ![c] = m]
      BY <2>2 DEF Analyzer!Publish
    <3>2. latest'[c] = [score |-> m, verdict |-> v]
      BY <3>1 DEF PageTypeOK
    <3>3. m \in 0..MaxFrames /\ m # 0
      BY FramesAssumption DEF Analyzer!Frames
    <3>4. latest'[c] \in Analyzer!Outcome
      BY <3>2 DEF Analyzer!Outcome
    <3>5. P(m)
      <4>1. latest' = [latest EXCEPT ![c] = latest'[c]]
        BY <3>1, <3>2, Zenon
      <4>2. sent' = [sent EXCEPT ![c] = IF m = 0 THEN @ ELSE m]
        BY <3>1, <3>3
      <4>3. latest'[c].score = m
        BY <3>2
      <4>4. QED
        BY <3>1, <3>3, <3>4, <4>1, <4>2, <4>3 DEF P
    <3>6. QED
      BY <3>3, <3>5
  <2>3. QED
    BY <2>1, <2>2
<1> USE DEF P
<1>2. /\ \A d \in Cameras : d # c => latest'[d] = latest[d] /\ sent'[d] = sent[d]
                                     /\ defective'[d] = defective[d]
      /\ sent'[c] = IF n = 0 THEN sent[c] ELSE n
      /\ defective'[c] = IF latest'[c].verdict = "FAIL" THEN defective[c] \cup {n}
                         ELSE defective[c]
  BY <1>1 DEF PageTypeOK
\* The picture is the new one or the old.
<1>11. PICK shown \in {n, jpeg[c]} :
         /\ jpeg' = [jpeg EXCEPT ![c] = shown]
         /\ encoded' = [encoded EXCEPT ![c] = @ \cup ({shown} \ {0})]
  BY <1>1
<1>12. /\ \A d \in Cameras : d # c => jpeg'[d] = jpeg[d] /\ encoded'[d] = encoded[d]
      /\ jpeg'[c] = shown /\ encoded'[c] = encoded[c] \cup ({shown} \ {0})
      /\ shown \in 0..MaxFrames
  BY <1>11 DEF PageTypeOK
<1>3. PageTypeOK'
  <2>1. latest' \in [Cameras -> Analyzer!Outcome]
    BY <1>1 DEF PageTypeOK
  <2>2. sent' \in [Cameras -> 0..MaxFrames]
    BY <1>1 DEF PageTypeOK
  <2>3. defective' \in [Cameras -> SUBSET Frames]
    <3>1. latest'[c].verdict = "FAIL" => n \in Frames
      BY <1>1, FramesAssumption DEF Frames
    <3>2. QED
      BY <1>1, <3>1 DEF PageTypeOK
  <2>4. jpeg' \in [Cameras -> 0..MaxFrames] /\ encoded' \in [Cameras -> SUBSET Frames]
    BY <1>11, <1>12, FramesAssumption DEF PageTypeOK, Frames
  <2>5. QED
    BY <2>1, <2>2, <2>3, <2>4 DEF PageTypeOK
\* What was true of a frame shown before is true still.
<1>4. ASSUME NEW d \in Cameras, NEW m \in 0..MaxFrames, m <= sent[d]
      PROVE  m <= sent'[d] /\ (m \in defective'[d] <=> m \in defective[d])
  BY <1>1, <1>2, <1>4, FramesAssumption DEF PageTypeOK, EntriesTrue
<1>5. EntriesTrue'
  <2>1. ASSUME NEW d \in Cameras, d # c
        PROVE  /\ defective'[d] \subseteq 1..sent'[d]
               /\ OfShown(latest[d], d)'
               /\ latest'[d].score # 0 => latest'[d].score = sent'[d]
    BY <1>2, <2>1 DEF EntriesTrue, OfShown
  <2>2. defective'[c] \subseteq 1..sent'[c]
    <3>1. defective[c] \subseteq 1..sent[c] /\ sent[c] \in Nat
      BY FramesAssumption DEF EntriesTrue, PageTypeOK
    <3>2. QED
      BY <1>1, <1>2, <3>1, FramesAssumption
  <2>3. /\ OfShown(latest[c], c)'
        /\ latest'[c].score # 0 => latest'[c].score = sent'[c]
    <3>1. n \notin defective[c] /\ sent[c] \in Nat
      BY <1>1, FramesAssumption DEF EntriesTrue, PageTypeOK
    <3>2. QED
      BY <1>1, <1>2, <3>1, FramesAssumption DEF OfShown
  <2>4. QED
    BY <2>1, <2>2, <2>3 DEF EntriesTrue
<1>6. AnswersTrue'
  <2>1. ASSUME NEW i \in DOMAIN out, NEW d \in Cameras
        PROVE  OfShown(out[i].entries[d], d)'
    <3>2. out[i].entries[d] \in Analyzer!Outcome
      BY OutRequest
    <3>3. QED
      BY <3>2, <1>4, OutcomeType DEF AnswersTrue, OfShown
  <2>2. QED
    BY <2>1 DEF AnswersTrue
<1>7. CardsShown' /\ RedIsDefective'
  <2>1. \A d \in Cameras : cards[d].score \in 0..MaxFrames
    BY DEF PageTypeOK, Card
  <2>2. QED
    BY <1>4, <2>1 DEF CardsShown, RedIsDefective
\* A frame that is encoded now is later than every one before and every card's.
<1>8. \/ encoded'[c] = encoded[c] /\ jpeg'[c] \in {0, jpeg[c]}
      \/ /\ encoded'[c] = encoded[c] \cup {n} /\ jpeg'[c] = n
         /\ n > sent[c] /\ sent'[c] = n /\ n # 0
  <2>1. CASE shown = jpeg[c]
    BY <2>1, <1>12 DEF PicturesTrue
  <2>2. CASE shown = n /\ n = 0
    BY <2>2, <1>12
  <2>3. CASE shown = n /\ n # 0
    BY <2>3, <1>1, <1>2, <1>12
  <2>4. QED
    BY <1>11, <2>1, <2>2, <2>3
<1>9. sent[c] \in Nat /\ sent'[c] \in Nat /\ sent[c] <= sent'[c]
      /\ encoded[c] \subseteq 1..sent[c]
  BY <1>1, <1>2, FramesAssumption DEF PageTypeOK, PicturesTrue
<1>10. PicturesTrue'
  <2>1. ASSUME NEW d \in Cameras, d # c
        PROVE  /\ encoded'[d] \subseteq 1..sent'[d]
               /\ jpeg'[d] # 0 =>
                     jpeg'[d] \in encoded'[d] /\ \A m \in encoded'[d] : m <= jpeg'[d]
    BY <2>1, <1>2, <1>12 DEF PicturesTrue
  <2>2. encoded'[c] \subseteq 1..sent'[c]
    BY <1>8, <1>9, FramesAssumption
  <2>3. jpeg'[c] # 0 => jpeg'[c] \in encoded'[c] /\ \A m \in encoded'[c] : m <= jpeg'[c]
    BY <1>8, <1>9 DEF PicturesTrue
  <2>4. QED
    BY <2>1, <2>2, <2>3 DEF PicturesTrue
<1>13. PictureNotOlder'
  <2>1. ASSUME NEW d \in Cameras, NEW m \in encoded'[d], m <= cards[d].score
        PROVE  m \in encoded[d]
    <3>1. CASE d # c
      BY <3>1, <1>12
    <3>2. CASE d = c
      <4>1. cards[c].score \in 0..MaxFrames /\ cards[c].score <= sent[c]
        BY DEF PageTypeOK, Card, CardsShown
      <4>2. QED
        BY <2>1, <3>2, <4>1, <1>8, <1>9, FramesAssumption
    <3>3. QED
      BY <3>1, <3>2
  <2>2. QED
    BY <2>1 DEF PictureNotOlder
<1>14. QED
  BY <1>3, <1>5, <1>6, <1>7, <1>10, <1>13

LEMMA DownInv == ASSUME PageIInv, Down PROVE PageIInv'
<1> USE DEF PageIInv, Down, page, Analyzer!Forget
<1>1. PageTypeOK'
  <2>1. RT' \in {"none", "gone", "this"}
    BY DEF PageTypeOK
  <2>2. QED
    BY <2>1, OutcomeType, FramesAssumption DEF PageTypeOK
<1>2. EntriesTrue'
  BY OutcomeType, FramesAssumption DEF PageTypeOK, EntriesTrue, OfShown
<1>3. /\ PicturesTrue' /\ AnswersTrue' /\ CardsShown' /\ RedIsDefective'
      /\ PictureNotOlder'
  BY DEF PicturesTrue, AnswersTrue, OfShown, CardsShown, RedIsDefective, PictureNotOlder
<1>4. QED
  BY <1>1, <1>2, <1>3

\* What a step leaves of the invariant that touches neither the analyzer nor the
\* cards, and whose queue holds only entries that were true.
LEMMA QueueKept ==
    ASSUME PageIInv, UNCHANGED <<analyzer, cards, picture, loading>>,
           RT' \in {"none", "gone", "this"},
           out' \in Seq(Request),
           \A k \in DOMAIN out' :
              \/ \E j \in DOMAIN out : /\ out'[k].entries = out[j].entries
                                       /\ ~out'[k].overlapped => ~out[j].overlapped
              \/ out'[k].entries = latest
              \/ \A c \in Cameras : out'[k].entries[c] = Analyzer!Absent
    PROVE  PageIInv'
<1> USE DEF PageIInv, analyzer
<1>1. PageTypeOK'
  BY DEF PageTypeOK
<1>2. AnswersTrue'
  <2>1. ASSUME NEW k \in DOMAIN out', NEW c \in Cameras
        PROVE  /\ OfShown(out[k].entries[c], c)'
               /\ ~out'[k].overlapped /\ out'[k].entries[c].score # 0 =>
                     out'[k].entries[c].score >= cards'[c].score
    <3>1. CASE \E j \in DOMAIN out : /\ out'[k].entries = out[j].entries
                                     /\ ~out'[k].overlapped => ~out[j].overlapped
      BY <3>1 DEF AnswersTrue, OfShown
    <3>2. CASE out'[k].entries = latest
      BY <3>2 DEF EntriesTrue, OfShown, CardsShown
    <3>3. CASE \A d \in Cameras : out'[k].entries[d] = Analyzer!Absent
      BY <3>3, OutcomeType, FramesAssumption
         DEF OfShown, EntriesTrue, PageTypeOK
    <3>4. QED
      BY <3>1, <3>2, <3>3
  <2>2. QED
    BY <2>1 DEF AnswersTrue
<1>3. /\ EntriesTrue' /\ PicturesTrue' /\ CardsShown' /\ RedIsDefective'
      /\ PictureNotOlder'
  BY DEF EntriesTrue, PicturesTrue, OfShown, CardsShown, RedIsDefective, PictureNotOlder
<1>4. QED
  BY <1>1, <1>2, <1>3

LEMMA TickInv == ASSUME PageIInv, Tick PROVE PageIInv'
<1>1. out \in Seq(Request) /\ RT \in {"none", "gone", "this"}
  BY DEF PageIInv, PageTypeOK
<1>2. /\ out' \in Seq(Request)
      /\ \A k \in DOMAIN out' :
            out'[k] = NewRequest \/ (k \in DOMAIN out /\ out'[k] = out[k])
  BY <1>1, NewRequestType, AppendProperties DEF Tick
<1>3. QED
  BY <1>1, <1>2, NewRequestType, QueueKept DEF Tick

LEMMA PassOnInv == ASSUME PageIInv, NEW i \in DOMAIN out, PassOn(i) PROVE PageIInv'
<1> DEFINE answer == [reply |-> "state", entries |-> latest, overlapped |-> out[i].overlapped]
<1>1. out \in Seq(Request) /\ RT \in {"none", "gone", "this"} /\ out[i] \in Request
  BY DEF PageIInv, PageTypeOK
<1>2. answer \in Request /\ answer.entries = latest
  BY <1>1, RequestType DEF PageIInv, PageTypeOK, Request
<1>3. out' = [out EXCEPT ![i] = answer]
  BY DEF PassOn
<1> HIDE DEF answer
<1>4. /\ out' \in Seq(Request) /\ out'[i] = answer
      /\ \A k \in DOMAIN out' : k \in DOMAIN out /\ (k # i => out'[k] = out[k])
  BY <1>1, <1>2, <1>3, ExceptSeq
<1>5. QED
  BY <1>1, <1>2, <1>4, QueueKept DEF PassOn

LEMMA GiveUpInv == ASSUME PageIInv, NEW i \in DOMAIN out, GiveUp(i) PROVE PageIInv'
<1> DEFINE answer == [out[i] EXCEPT !.reply = "error"]
<1>1. out \in Seq(Request) /\ RT \in {"none", "gone", "this"} /\ out[i] \in Request
  BY DEF PageIInv, PageTypeOK
<1>2. answer \in Request /\ answer.entries = out[i].entries
      /\ answer.overlapped = out[i].overlapped
  BY <1>1, RequestType
<1>3. out' = [out EXCEPT ![i] = answer]
  BY DEF GiveUp
<1> HIDE DEF answer
<1>4. /\ out' \in Seq(Request) /\ out'[i] = answer
      /\ \A k \in DOMAIN out' : k \in DOMAIN out /\ (k # i => out'[k] = out[k])
  BY <1>1, <1>2, <1>3, ExceptSeq
<1>5. QED
  BY <1>1, <1>2, <1>4, QueueKept DEF GiveUp

LEMMA DropInv == ASSUME PageIInv, NEW i \in DOMAIN out, Drop(i) PROVE PageIInv'
<1>1. out \in Seq(Request) /\ RT \in {"none", "gone", "this"}
  BY DEF PageIInv, PageTypeOK
<1>2. QED
  BY <1>1, TakenQueue, QueueKept DEF Drop

\* What an answer writes: the cards it tells of.
LEMMA Writing ==
    ASSUME PageIInv, NEW i \in DOMAIN out, Apply(i), NEW c \in Cameras
    PROVE  IF out[i].reply # "error" /\ out[i].entries[c] # Analyzer!Absent
           THEN /\ cards'[c] = Written(out[i].entries[c])
                /\ c \in loading' /\ picture'[c] = 0
           ELSE /\ cards'[c] = cards[c] /\ picture'[c] = picture[c]
                /\ c \in loading' <=> c \in loading
  BY DEF PageIInv, PageTypeOK, Apply, Told

LEMMA ApplyInv == ASSUME PageIInv, NEW i \in DOMAIN out, Apply(i) PROVE PageIInv'
<1> USE DEF PageIInv
<1>1. out[i] \in Request /\ out[i].entries \in [Cameras -> Analyzer!Outcome]
  BY OutRequest
<1>2. UNCHANGED <<analyzer, RT>> /\ out' = Taken(i)
  BY DEF Apply
<1>3. ASSUME NEW c \in Cameras
      PROVE  /\ Written(out[i].entries[c]) \in Card
             /\ Written(out[i].entries[c]).score = out[i].entries[c].score
             /\ Written(out[i].entries[c]).red <=> out[i].entries[c].verdict = "FAIL"
  BY <1>1, OutcomeType DEF Written, Card
<1>4. PageTypeOK'
  <2>1. cards' \in [Cameras -> Card]
    BY <1>3 DEF Apply, PageTypeOK
  <2>2. loading' \subseteq Cameras
    BY DEF Apply, PageTypeOK, Told
  <2>3. picture' \in [Cameras -> 0..MaxFrames]
    BY FramesAssumption DEF Apply, PageTypeOK
  <2>4. out' \in Seq(Request)
    BY <1>2, TakenQueue DEF PageTypeOK
  <2>5. QED
    BY <1>2, <2>1, <2>2, <2>3, <2>4 DEF PageTypeOK, analyzer
<1>5. EntriesTrue' /\ PicturesTrue'
  BY <1>2 DEF EntriesTrue, PicturesTrue, OfShown, analyzer
<1>6. AnswersTrue'
  <2>1. /\ UNCHANGED <<sent, defective>> /\ out' = Taken(i)
        /\ out \in Seq(Request)
    BY <1>2 DEF analyzer, PageTypeOK
  <2>2. ASSUME NEW k \in DOMAIN out'
        PROVE  /\ out'[k].overlapped
               /\ \E j \in DOMAIN out : out'[k].entries = out[j].entries
    BY <2>1, TakenQueue
  <2>3. QED
    BY <2>1, <2>2 DEF AnswersTrue, OfShown
<1>7. CardsShown' /\ RedIsDefective' /\ PictureNotOlder'
  <2>1. ASSUME NEW c \in Cameras
        PROVE  /\ cards'[c].score <= sent[c]
               /\ cards'[c].red <=> cards'[c].score \in defective[c]
               /\ c \notin loading' /\ picture'[c] # 0 =>
                     \A n \in encoded[c] : n <= cards'[c].score => n <= picture'[c]
    <3>1. CASE out[i].reply # "error" /\ out[i].entries[c] # Analyzer!Absent
      BY <3>1, <1>3, Writing DEF AnswersTrue, OfShown
    <3>2. CASE ~(out[i].reply # "error" /\ out[i].entries[c] # Analyzer!Absent)
      BY <3>2, Writing DEF CardsShown, RedIsDefective, PictureNotOlder
    <3>3. QED
      BY <3>1, <3>2
  <2>2. QED
    BY <1>2, <2>1 DEF CardsShown, RedIsDefective, PictureNotOlder, analyzer
<1>8. QED
  BY <1>4, <1>5, <1>6, <1>7

\* A picture is the last one encoded, or none.
LEMMA FetchInv ==
    ASSUME PageIInv, NEW c \in Cameras, Fetch(c) \/ FetchFails(c)
    PROVE  PageIInv'
<1> USE DEF PageIInv, analyzer
<1>1. PICK n \in {0, jpeg[c]} :
         /\ picture' = [picture EXCEPT ![c] = n] /\ loading' = loading \ {c}
         /\ UNCHANGED <<analyzer, out, cards, RT>>
  BY DEF Fetch, FetchFails
<1>2. n \in 0..MaxFrames /\ (n # 0 => \A m \in encoded[c] : m <= n)
  BY FramesAssumption DEF PageTypeOK, PicturesTrue
<1>3. PageTypeOK'
  BY <1>1, <1>2 DEF PageTypeOK
<1>4. EntriesTrue' /\ PicturesTrue' /\ AnswersTrue' /\ CardsShown' /\ RedIsDefective'
  BY <1>1 DEF EntriesTrue, PicturesTrue, AnswersTrue, OfShown, CardsShown, RedIsDefective
<1>5. PictureNotOlder'
  BY <1>1, <1>2 DEF PageTypeOK, PictureNotOlder
<1>6. QED
  BY <1>3, <1>4, <1>5

LEMMA PageNextIInv == PageIInv /\ [PageNext]_pageVars => PageIInv'
<1> SUFFICES ASSUME PageIInv, [PageNext]_pageVars PROVE PageIInv'
  OBVIOUS
<1>1. CASE Up \/ Runtime
  <2>1. PageTypeOK'
    BY <1>1 DEF Up, Runtime, PageIInv, PageTypeOK, page, analyzer
  <2>2. EntriesTrue' /\ PicturesTrue' /\ AnswersTrue'
    BY <1>1 DEF Up, Runtime, PageIInv, EntriesTrue, PicturesTrue, AnswersTrue, OfShown,
       page, analyzer
  <2>3. CardsShown' /\ RedIsDefective' /\ PictureNotOlder'
    BY <1>1 DEF Up, Runtime, PageIInv, CardsShown, RedIsDefective, PictureNotOlder,
       page, analyzer
  <2>4. QED
    BY <2>1, <2>2, <2>3 DEF PageIInv
<1>2. CASE Down \/ Tick
  BY <1>2, DownInv, TickInv
<1>3. CASE \E c \in Cameras : Watched(c) \/ Fetch(c) \/ FetchFails(c)
  BY <1>3, WatchedInv, FetchInv
<1>4. CASE \E i \in DOMAIN out : PassOn(i) \/ GiveUp(i) \/ Apply(i) \/ Drop(i)
  BY <1>4, PassOnInv, GiveUpInv, ApplyInv, DropInv
<1>5. CASE UNCHANGED pageVars
  BY <1>5 DEF pageVars, PageIInv, PageTypeOK, EntriesTrue, PicturesTrue, AnswersTrue,
     OfShown, CardsShown, RedIsDefective, PictureNotOlder, page, analyzer
<1>6. QED
  BY <1>1, <1>2, <1>3, <1>4, <1>5 DEF PageNext

LEMMA PageInvariance == PageSpec => []PageIInv
  BY PageInitIInv, PageNextIInv, PTL DEF PageSpec

\* What stands on one card belongs together: it is red exactly if its score's
\* frame reached the threshold, and no picture that was encoded lies between its own and
\* its score's frame,
\* for any cameras, overtaking answers and restarts (app/dashboard/app.py, tick).
THEOREM CardsTrue == PageSpec => []CardsAreTrue
<1>1. PageIInv => CardsAreTrue
  BY DEF PageIInv, CardsAreTrue
<1>2. QED
  BY <1>1, PageInvariance, PTL

\* A card goes back only with an answer that another overtook, or that of an
\* analyzer that has just started: setInterval does not wait for the answer before.
THEOREM BackOnlyOverlapped == PageSpec => BackOnlyWhenOverlapped
<1>1. ASSUME PageIInv, [PageNext]_pageVars, NEW c \in Cameras,
             cards'[c].score < cards[c].score
      PROVE  \/ \E i \in DOMAIN out : out[i].entries[c] = Analyzer!Waiting
             \/ \E i \in DOMAIN out :
                   out[i].overlapped /\ out[i].entries[c].score = cards'[c].score
  <2>1. PICK i \in DOMAIN out : Apply(i)
    <3>1. cards[c].score \in 0..MaxFrames
      BY <1>1 DEF PageIInv, PageTypeOK, Card
    <3>2. cards' # cards
      BY <1>1, <3>1
    <3>3. QED
      BY <1>1, <3>2 DEF PageNext, pageVars, page, Down, Up, Tick, Runtime, Watched, Fetch,
         FetchFails, PassOn, GiveUp, Drop
  <2>2. /\ out[i].entries[c] # Analyzer!Absent
        /\ cards'[c].score = out[i].entries[c].score
    <3>1. cards'[c] # cards[c]
      BY <1>1 DEF PageIInv, PageTypeOK, Card
    <3>2. out[i].entries[c] # Analyzer!Absent /\ cards'[c] = Written(out[i].entries[c])
      BY <1>1, <2>1, <3>1, Writing
    <3>3. QED
      BY <3>2 DEF Written
  <2>3. out[i].entries[c] \in Analyzer!Outcome /\ out[i].overlapped \in BOOLEAN
    BY <1>1, OutRequest DEF PageIInv
  <2>4. CASE out[i].entries[c].score = 0
    BY <2>2, <2>3, <2>4, OutcomeType
  <2>5. CASE out[i].entries[c].score # 0
    <3>1. out[i].overlapped
      BY <1>1, <2>2, <2>3, <2>5, OutcomeType DEF PageIInv, PageTypeOK, AnswersTrue,
         Card
    <3>2. QED
      BY <2>2, <3>1
  <2>6. QED
    BY <2>4, <2>5
<1>2. PageIInv /\ [PageNext]_pageVars =>
        [\A c \in Cameras :
            cards'[c].score < cards[c].score =>
              \/ \E i \in DOMAIN out : out[i].entries[c] = Analyzer!Waiting
              \/ \E i \in DOMAIN out :
                    out[i].overlapped /\ out[i].entries[c].score = cards'[c].score]_pageVars
  BY <1>1
<1>3. QED
  BY <1>2, PageInvariance, PTL DEF PageSpec, BackOnlyWhenOverlapped
==============================================================================
