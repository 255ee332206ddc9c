---------------------------- MODULE GpuAccounting ----------------------------
(***************************************************************************)
(* app/analyzer/gpu.py: device time is charged to the camera whose frame   *)
(* was scored, and a timer turns what has been charged into rates.  The    *)
(* scorer holds INFER_LOCK while it uses the device, up to the charge; the *)
(* timer's thread polls the card, swaps the pending charges under the      *)
(* accounting's own lock, then publishes camera by camera, first the       *)
(* gauges, then what the page reads.  A share and a frame rate are kept as *)
(* their numerators and denominator; what the card itself reads is left    *)
(* out.  Time is counted in ticks, up to MaxTime.                          *)
(***************************************************************************)
EXTENDS Integers, Sequences, FiniteSets

CONSTANTS
    Cameras,
    NoCamera,       \* nobody holds INFER_LOCK
    MaxTime,
    Window          \* frames remembered for the percentiles, 240 in the code

ASSUME ConstantsAssumption ==
    /\ IsFiniteSet(Cameras)
    /\ NoCamera \notin Cameras
    /\ MaxTime \in Nat
    /\ Window \in Nat \ {0}

VARIABLES
    now,
    cuda,       \* there is a card; its frames are timed by events
    nvml,       \* _nvml is a handle
    scoring,    \* the camera that holds INFER_LOCK
    began,      \* when its frame began
    charge,     \* the device time of its frame, once it is known
    raised,     \* the cameras whose scorer has raised
    total,      \* inspection_gpu_seconds_total, inspection_detect_seconds
    pending,    \* _pending, NoSlot where there is none
    recent,     \* _recent
    started,    \* _started
    timer,      \* where run_forever is
    batch,      \* what the rollup has swapped out and not published
    elapsed,    \* over how long
    gauge,      \* inspection_gpu_share, inspection_frames_per_second
    latest,     \* _latest
    rolled      \* history: what the rates given to the page add up to

device == <<cuda, nvml>>
scorer == <<scoring, began, charge, raised>>
ledger == <<total, pending, recent>>
rates  == <<started, timer, batch, elapsed, gauge, latest, rolled>>
vars   == <<now, device, scorer, ledger, rates>>

Times  == 0..MaxTime
Slots  == [seconds : Nat, frames : Nat]
Rates  == [seconds : Nat, frames : Nat, over : Nat]

NoRate  == [seconds |-> 0, frames |-> 0, over |-> 0]      \* never published
NoSlot  == [seconds |-> 0, frames |-> 0]
Nothing == [c \in Cameras |-> NoSlot]

Plus(s, t) == [seconds |-> s.seconds + t.seconds, frames |-> s.frames + t.frames]
Charged(seconds) == [seconds |-> seconds, frames |-> 1]

TypeOK ==
    /\ now \in Times /\ began \in Times /\ charge \in Times
    /\ cuda \in BOOLEAN /\ nvml \in BOOLEAN
    /\ scoring \in Cameras \cup {NoCamera} /\ raised \subseteq Cameras
    /\ total \in [Cameras -> Slots] /\ pending \in [Cameras -> Slots]
    /\ recent \in [Cameras -> Seq(Times)]
    /\ batch \in [Cameras -> Slots] /\ rolled \in [Cameras -> Slots]
    /\ started \in Times /\ elapsed \in Times
    /\ timer \in {"sleep", "rollup", "publish"}
    /\ gauge \in [Cameras -> Rates] /\ latest \in [Cameras -> Rates]

\* _open_nvml: only with a card, and NVML may be missing.
OpenNvml ==
    /\ cuda \in BOOLEAN
    /\ nvml \in BOOLEAN
    /\ nvml => cuda

Init ==
    /\ OpenNvml
    /\ now = 0 /\ started = 0
    /\ scoring = NoCamera /\ began = 0 /\ charge = 0 /\ raised = {}
    /\ total = Nothing /\ pending = Nothing
    /\ recent = [c \in Cameras |-> <<>>]
    /\ timer = "sleep" /\ batch = Nothing /\ elapsed = 0
    /\ gauge = [c \in Cameras |-> NoRate]
    /\ latest = [c \in Cameras |-> NoRate]
    /\ rolled = Nothing

Tick ==
    /\ now < MaxTime
    /\ now' = now + 1
    /\ UNCHANGED <<device, scorer, ledger, rates>>

-----------------------------------------------------------------------------
(* measure() and _record().                                                *)

\* Mutant: the frame is timed from before the lock was had.
BeginEarly(c) ==
    /\ scoring = NoCamera /\ c \notin raised
    /\ scoring' = c
    /\ began' = started
    /\ UNCHANGED <<now, device, charge, raised, ledger, rates>>

Begin(c) ==
    /\ scoring = NoCamera /\ c \notin raised
    /\ scoring' = c
    /\ began' = now
    /\ UNCHANGED <<now, device, charge, raised, ledger, rates>>

\* The frame's work is done: the counters, outside the accounting's lock.
Charge(c) ==
    /\ scoring = c /\ charge = 0
    /\ now > began
    /\ charge' = now - began
    /\ total' = [total EXCEPT ![c] = Plus(@, Charged(now - began))]
    /\ UNCHANGED <<now, device, scoring, began, pending, recent, rates>>

End(c) == Charge(c) /\ UNCHANGED raised

\* The scorer raises.  With events the frame is charged all the same, `finally`,
\* unless the event after a CUDA error raises too; with the wall clock it is not.
RaiseCharged(c) == cuda /\ Charge(c) /\ raised' = raised \cup {c}

RaiseUncharged(c) ==
    /\ scoring = c /\ charge = 0
    /\ raised' = raised \cup {c}
    /\ scoring' = NoCamera /\ began' = 0
    /\ UNCHANGED <<now, device, charge, ledger, rates>>

\* A deque of Window: the oldest frame makes room.
Remember(frames, seconds) ==
    LET all == Append(frames, seconds) IN
    IF Len(all) > Window THEN Tail(all) ELSE all

\* Mutant: only good frames are remembered.
RecordGood(c) ==
    /\ scoring = c /\ charge > 0
    /\ pending' = [pending EXCEPT ![c] = Plus(@, Charged(charge))]
    /\ recent' = [recent EXCEPT ![c] = IF c \in raised THEN @ ELSE Remember(@, charge)]
    /\ scoring' = NoCamera /\ began' = 0 /\ charge' = 0
    /\ UNCHANGED <<now, device, raised, total, rates>>

Record(c) ==
    /\ scoring = c /\ charge > 0
    /\ pending' = [pending EXCEPT ![c] = Plus(@, Charged(charge))]
    /\ recent' = [recent EXCEPT ![c] = Remember(@, charge)]
    /\ scoring' = NoCamera /\ began' = 0 /\ charge' = 0
    /\ UNCHANGED <<now, device, raised, total, rates>>

-----------------------------------------------------------------------------
(* run_forever(), one thread.                                              *)

\* Mutant: an error of NVML is not caught.
PollUncaught ==
    /\ timer = "sleep"
    /\ now > started
    /\ timer' = IF nvml THEN "sleep" ELSE "rollup"
    /\ UNCHANGED <<now, device, scorer, ledger, started, batch, elapsed, gauge, latest, rolled>>

\* The interval is over and the card is read as far as NVML answers; an error of
\* it goes no further.
Poll ==
    /\ timer = "sleep"
    /\ now > started
    /\ timer' = "rollup"
    /\ UNCHANGED <<now, device, scorer, ledger, started, batch, elapsed, gauge, latest, rolled>>

\* Mutant: the pending charges are copied out and stay.
SwapCopying ==
    /\ timer = "rollup"
    /\ batch' = pending
    /\ elapsed' = now - started
    /\ started' = now
    /\ timer' = "publish"
    /\ UNCHANGED <<now, device, scorer, ledger, gauge, latest, rolled>>

Swap ==
    /\ timer = "rollup"
    /\ batch' = pending
    /\ pending' = Nothing
    /\ elapsed' = now - started
    /\ started' = now
    /\ timer' = "publish"
    /\ UNCHANGED <<now, device, scorer, total, recent, gauge, latest, rolled>>

RateOf(c) == [seconds |-> batch[c].seconds, frames |-> batch[c].frames, over |-> elapsed]

SetGauge(c) ==
    /\ batch[c] # NoSlot
    /\ gauge[c] # RateOf(c)
    /\ gauge' = [gauge EXCEPT ![c] = RateOf(c)]
    /\ UNCHANGED <<now, device, scorer, ledger, started, timer, batch, elapsed, latest, rolled>>

\* Mutant: the page's rate is worked out again, over the time passed since.
SetLatestAnew(c) ==
    /\ batch[c] # NoSlot
    /\ gauge[c] = RateOf(c)
    /\ latest' = [latest EXCEPT ![c] = [RateOf(c) EXCEPT !.over = @ + (now - started)]]
    /\ rolled' = [rolled EXCEPT ![c] = Plus(@, batch[c])]
    /\ batch' = [batch EXCEPT ![c] = NoSlot]
    /\ UNCHANGED <<now, device, scorer, ledger, started, timer, elapsed, gauge>>

\* Mutant: the page's rate is replaced where there is one, and a new camera's raises.
SetLatestKnown(c) ==
    /\ batch[c] # NoSlot
    /\ gauge[c] = RateOf(c)
    /\ latest[c] # NoRate
    /\ latest' = [latest EXCEPT ![c] = RateOf(c)]
    /\ rolled' = [rolled EXCEPT ![c] = Plus(@, batch[c])]
    /\ batch' = [batch EXCEPT ![c] = NoSlot]
    /\ UNCHANGED <<now, device, scorer, ledger, started, timer, elapsed, gauge>>

SetLatest(c) ==
    /\ batch[c] # NoSlot
    /\ gauge[c] = RateOf(c)
    /\ latest' = [latest EXCEPT ![c] = RateOf(c)]
    /\ rolled' = [rolled EXCEPT ![c] = Plus(@, batch[c])]
    /\ batch' = [batch EXCEPT ![c] = NoSlot]
    /\ UNCHANGED <<now, device, scorer, ledger, started, timer, elapsed, gauge>>

Sleep ==
    /\ timer = "publish" /\ batch = Nothing
    /\ timer' = "sleep"
    /\ UNCHANGED <<now, device, scorer, ledger, started, batch, elapsed, gauge, latest, rolled>>

Timer == Poll \/ Swap \/ Sleep \/ \E c \in Cameras : SetGauge(c) \/ SetLatest(c)

Scorer(c) == Begin(c) \/ End(c) \/ RaiseCharged(c) \/ RaiseUncharged(c) \/ Record(c)

Next == Tick \/ Timer \/ \E c \in Cameras : Scorer(c)

\* The clock and the timer's thread go on; nothing is assumed of the cameras.
Spec == Init /\ [][Next]_vars /\ WF_vars(Tick) /\ WF_vars(Timer)

-----------------------------------------------------------------------------
(* stats(), which the page reads.                                          *)

\* t is where the sorted frames have the element of that rank, counted from 0.
AtRank(frames, t, rank) ==
    /\ Cardinality({i \in DOMAIN frames : frames[i] < t}) <= rank
    /\ rank < Cardinality({i \in DOMAIN frames : frames[i] <= t})

\* Mutant: the element before it.
NthLower(frames, rank) ==
    CHOOSE t \in {frames[i] : i \in DOMAIN frames} :
        AtRank(frames, t, IF rank > 0 THEN rank - 1 ELSE 0)

Nth(frames, rank) ==
    CHOOSE t \in {frames[i] : i \in DOMAIN frames} : AtRank(frames, t, rank)

P50(frames) == Nth(frames, Len(frames) \div 2)
P95(frames) == Nth(frames, (Len(frames) * 95) \div 100)

\* The cameras stats() tells of.
OnPage == {c \in Cameras : recent[c] # <<>>}

-----------------------------------------------------------------------------
(* Properties.                                                             *)

InHand(c) == IF scoring = c /\ charge > 0 THEN Charged(charge) ELSE NoSlot

\* Every second and every frame charged to a camera becomes part of exactly one
\* rate, whenever the rollup comes between the steps of a charge.
EverySecondRolledOnce ==
    \A c \in Cameras :
        total[c] = Plus(Plus(InHand(c), pending[c]), Plus(batch[c], rolled[c]))

\* Attribution adds up rather than overlaps (analyzer.py, lines 117-119): the
\* cameras together are never charged more ticks than have passed, a tick charged
\* being the camera with the tick's number in its total.
TicksCharged == UNION {{c} \X (1..total[c].seconds) : c \in Cameras}
ChargedAtMostTheTimePassed == Cardinality(TicksCharged) <= now

\* "The page and the Prometheus gauges cannot disagree" (gpu.py, lines 166-167),
\* once the rollup has dealt with the camera.
PageAgreesWithGauge ==
    \A c \in Cameras : batch[c] = NoSlot => latest[c] = gauge[c]

\* A camera that has a rate has percentiles, which the dashboard takes for
\* granted (app.py, lines 103-106), also when its only frame raised.
RateHasPercentiles ==
    \A c \in Cameras : latest[c] # NoRate => c \in OnPage

\* Of the frames remembered at least half took no longer than p50, and at least
\* nineteen in twenty no longer than p95, however few they are.
PercentilesCover ==
    \A c \in OnPage :
        LET r == recent[c]
            Within(t) == Cardinality({i \in DOMAIN r : r[i] <= t})
        IN  2 * Within(P50(r)) >= Len(r) /\ 20 * Within(P95(r)) >= 19 * Len(r)

\* All that the page is given of a camera (GpuAccounting.stats): the rate that
\* Prometheus has too, and with every rate percentiles that cover its frames.
PageIsRight == TypeOK /\ PageAgreesWithGauge /\ RateHasPercentiles /\ PercentilesCover

\* The frames of a camera recorded so far, and those in the rates that both the
\* gauges and the page have been given.
Recorded(c)  == pending[c].frames + batch[c].frames + rolled[c].frames
Published(c) == IF latest[c] = gauge[c] THEN rolled[c].frames ELSE 0

\* Every frame recorded is in a rate published, on the gauges and on the page, in the
\* end, although NVML fails at every poll.  Only what is recorded after the clock's
\* last rollup is left over, and of that rollup everything has been published.
ChargesBecomeRates ==
    \A c \in Cameras, n \in 1..MaxTime :
        Recorded(c) >= n ~>
            \/ Published(c) >= n
            \/ started = MaxTime /\ batch[c] = NoSlot /\ latest[c] = gauge[c]
=============================================================================
