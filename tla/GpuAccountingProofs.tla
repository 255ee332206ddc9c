------------------------- MODULE GpuAccountingProofs -------------------------
(***************************************************************************)
(* Proofs about the accounting of device time, for any set of cameras, any *)
(* length of the clock and any window.  The inductive invariant ties the   *)
(* frame on the device to the ticks charged, and each stage of a charge,   *)
(* pending, swapped out, published, to the frames remembered.              *)
(***************************************************************************)
EXTENDS GpuAccounting, FiniteSetTheorems, SequenceTheorems, WellFoundedInduction,
        TLAPS

\* Who has the device, and since when.
Turn ==
    /\ scoring = NoCamera => charge = 0
    /\ began <= now

\* What has been swapped out is all published before the timer sleeps.
Rolling ==
    /\ timer # "publish" => batch = Nothing
    /\ started <= now

\* A charge leaves a frame behind.
Remembered ==
    \A c \in Cameras :
        pending[c] # NoSlot \/ batch[c] # NoSlot \/ latest[c] # NoRate => recent[c] # <<>>

\* While a frame is on the device, what has been charged is from before it began.
TicksInTime ==
    Cardinality(TicksCharged) <= IF scoring # NoCamera /\ charge = 0 THEN began ELSE now

IInv == /\ TypeOK /\ Turn /\ Rolling /\ Remembered /\ TicksInTime
        /\ EverySecondRolledOnce /\ PageAgreesWithGauge

-----------------------------------------------------------------------------
(* Lemmas about the operators.                                             *)

UpTo(r, t)  == {i \in DOMAIN r : r[i] <= t}
Below(r, t) == {i \in DOMAIN r : r[i] < t}

LEMMA Counts ==
    ASSUME NEW r \in Seq(Times)
    PROVE  \A t \in Nat : /\ Cardinality(UpTo(r, t)) \in Nat
                          /\ Cardinality(Below(r, t)) \in Nat
<1>1. DOMAIN r = 1..Len(r) /\ Len(r) \in Nat
  BY LenProperties
<1>2. IsFiniteSet(DOMAIN r)
  BY <1>1, FS_Interval
<1> SUFFICES ASSUME NEW t \in Nat
             PROVE  /\ Cardinality(UpTo(r, t)) \in Nat
                    /\ Cardinality(Below(r, t)) \in Nat
  OBVIOUS
<1>3. UpTo(r, t) \in SUBSET (DOMAIN r) /\ Below(r, t) \in SUBSET (DOMAIN r)
  BY DEF UpTo, Below
<1>4. IsFiniteSet(UpTo(r, t)) /\ IsFiniteSet(Below(r, t))
  BY <1>2, <1>3, FS_Subset
<1>5. QED
  BY <1>4, FS_CardinalityType

\* The least time that more than rank frames do not exceed is one of the frames.
LEMMA RankExists ==
    ASSUME NEW r \in Seq(Times), NEW rank \in Nat, rank < Len(r)
    PROVE  \E t \in {r[i] : i \in DOMAIN r} : AtRank(r, t, rank)
<1> DEFINE T == {t \in Nat : rank < Cardinality(UpTo(r, t))}
<1>1. /\ DOMAIN r = 1..Len(r) /\ Len(r) \in Nat
      /\ \A i \in DOMAIN r : r[i] \in Times
  BY LenProperties, ElementOfSeq
<1>2. \A i \in DOMAIN r : r[i] \in Nat /\ r[i] <= MaxTime
  BY <1>1, ConstantsAssumption DEF Times
<1>3. MaxTime \in T
  <2>1. UpTo(r, MaxTime) = 1..Len(r)
    BY <1>1, <1>2 DEF UpTo
  <2>2. Cardinality(UpTo(r, MaxTime)) = Len(r)
    <3>1. \A n \in Nat : Cardinality(1..n) = n
      BY FS_Interval
    <3>2. QED
      BY <1>1, <2>1, <3>1
  <2>3. MaxTime \in Nat
    BY ConstantsAssumption
  <2> HIDE DEF UpTo
  <2>4. QED
    BY <2>2, <2>3
<1>4. PICK t \in T : \A y \in T : ~(<<y, t>> \in OpToRel(<, Nat))
  BY <1>3, NatLessThanWellFounded, WFMin, T \subseteq Nat, T # {}
<1>5. t \in Nat /\ rank < Cardinality(UpTo(r, t))
  BY <1>4
<1>6. Cardinality(Below(r, t)) <= rank
  <2>1. CASE t = 0
    <3>1. Below(r, t) = {}
      BY <1>2, <2>1 DEF Below
    <3>2. QED
      BY <3>1, FS_EmptySet
  <2>2. CASE t # 0
    <3>1. t - 1 \in Nat /\ t - 1 < t
      BY <1>5, <2>2
    <3>2. t - 1 \notin T
      BY <1>4, <1>5, <3>1 DEF OpToRel
    <3>3. Below(r, t) = UpTo(r, t - 1)
      BY <1>2, <1>5, <3>1 DEF Below, UpTo
    <3>4. Cardinality(UpTo(r, t - 1)) \in Nat
      BY <3>1, Counts
    <3>5. QED
      BY <3>1, <3>2, <3>3, <3>4
  <2>3. QED
    BY <2>1, <2>2
<1>7. \E i \in DOMAIN r : r[i] = t
  <2> SUFFICES ASSUME \A i \in DOMAIN r : r[i] # t PROVE FALSE
    OBVIOUS
  <2>1. UpTo(r, t) = Below(r, t)
    BY <1>2, <1>5 DEF UpTo, Below
  <2>2. Cardinality(UpTo(r, t)) \in Nat
    BY <1>5, Counts
  <2>3. QED
    BY <1>5, <1>6, <2>1, <2>2
<1>8. AtRank(r, t, rank)
  BY <1>5, <1>6 DEF AtRank, UpTo, Below
<1>9. QED
  BY <1>7, <1>8

\* More than rank frames are no longer than the one of that rank.
LEMMA NthCovers ==
    ASSUME NEW r \in Seq(Times), NEW rank \in Nat, rank < Len(r)
    PROVE  /\ Nth(r, rank) \in Times
           /\ Cardinality(UpTo(r, Nth(r, rank))) \in Nat
           /\ Cardinality(UpTo(r, Nth(r, rank))) >= rank + 1
<1>1. Nth(r, rank) \in {r[i] : i \in DOMAIN r} /\ AtRank(r, Nth(r, rank), rank)
  BY RankExists DEF Nth
<1>2. Nth(r, rank) \in Times
  BY <1>1, LenProperties, ElementOfSeq
<1>3. rank < Cardinality(UpTo(r, Nth(r, rank)))
  BY <1>1 DEF AtRank, UpTo
<1>4. Cardinality(UpTo(r, Nth(r, rank))) \in Nat
  BY <1>2, Counts, ConstantsAssumption DEF Times
<1>5. QED
  BY <1>2, <1>3, <1>4

LEMMA PercentilesAlwaysCover == ASSUME TypeOK PROVE PercentilesCover
<1> SUFFICES ASSUME NEW c \in OnPage
             PROVE  /\ 2 * Cardinality(UpTo(recent[c], P50(recent[c]))) >= Len(recent[c])
                    /\ 20 * Cardinality(UpTo(recent[c], P95(recent[c]))) >= 19 * Len(recent[c])
  BY DEF PercentilesCover, UpTo
<1> DEFINE r == recent[c]
<1> DEFINE n == Len(r)
<1>1. r \in Seq(Times) /\ n \in Nat /\ n # 0
  BY EmptySeq, LenProperties DEF TypeOK, OnPage
<1> HIDE DEF r
<1>2. 2 * Cardinality(UpTo(r, P50(r))) >= n
  <2> DEFINE half == n \div 2
  <2>1. half \in Nat /\ half < n /\ 2 * (half + 1) >= n
    BY <1>1
  <2>2. /\ Cardinality(UpTo(r, P50(r))) \in Nat
        /\ Cardinality(UpTo(r, P50(r))) >= half + 1
    BY <1>1, <2>1, NthCovers DEF P50
  <2>3. QED
    BY <1>1, <2>1, <2>2
<1>3. 20 * Cardinality(UpTo(r, P95(r))) >= 19 * n
  <2> DEFINE most == (n * 95) \div 100
  <2>1. most \in Nat /\ most < n /\ 20 * (most + 1) >= 19 * n
    BY <1>1
  <2>2. /\ Cardinality(UpTo(r, P95(r))) \in Nat
        /\ Cardinality(UpTo(r, P95(r))) >= most + 1
    BY <1>1, <2>1, NthCovers DEF P95
  <2>3. QED
    BY <1>1, <2>1, <2>2
<1>4. QED
  BY <1>2, <1>3 DEF r

\* The window never forgets the frame it is given.
LEMMA RememberType ==
    ASSUME NEW r \in Seq(Times), NEW seconds \in Times
    PROVE  Remember(r, seconds) \in Seq(Times) /\ Remember(r, seconds) # <<>>
<1> DEFINE all == Append(r, seconds)
<1>1. all \in Seq(Times) /\ all # <<>> /\ Len(all) \in Nat
  BY AppendProperties, LenProperties
<1>2. CASE Len(all) > Window
  <2>1. Tail(all) \in Seq(Times) /\ Len(Tail(all)) = Len(all) - 1
    BY <1>1, HeadTailProperties
  <2>2. Len(Tail(all)) # 0
    BY <1>1, <1>2, <2>1, ConstantsAssumption
  <2>3. QED
    BY <1>2, <2>1, <2>2, EmptySeq DEF Remember
<1>3. CASE ~(Len(all) > Window)
  BY <1>1, <1>3 DEF Remember
<1>4. QED
  BY <1>2, <1>3

LEMMA TicksFinite ==
    ASSUME \A e \in Cameras : total[e].seconds \in Nat
    PROVE  IsFiniteSet(TicksCharged) /\ Cardinality(TicksCharged) \in Nat
<1> DEFINE Of(e) == {e} \X (1..total[e].seconds)
<1> DEFINE All == {Of(e) : e \in Cameras}
<1>1. ASSUME NEW e \in Cameras PROVE IsFiniteSet(Of(e))
  <2>1. IsFiniteSet(1..total[e].seconds)
    BY FS_Interval, total[e].seconds \in Int
  <2>2. IsFiniteSet({e})
    BY FS_Singleton
  <2>3. QED
    BY <2>1, <2>2, FS_Product
<1>2. IsFiniteSet(All)
  <2> DEFINE f == [e \in Cameras |-> Of(e)]
  <2>1. f \in Surjection(Cameras, All)
    BY DEF Surjection
  <2>2. QED
    BY <2>1, ConstantsAssumption, FS_Surjection
<1>3. IsFiniteSet(UNION All)
  BY <1>1, <1>2, FS_UNION
<1>4. QED
  BY <1>3, FS_CardinalityType DEF TicksCharged

\* d ticks more for a camera are as many more ticks charged.
LEMMA TicksAdded ==
    ASSUME NEW c \in Cameras, NEW d \in Nat, TypeOK,
           \A e \in Cameras : total'[e].seconds = total[e].seconds + (IF e = c THEN d ELSE 0)
    PROVE  Cardinality(TicksCharged') = Cardinality(TicksCharged) + d
<1> DEFINE s == total[c].seconds
<1> DEFINE More == {c} \X ((s + 1)..(s + d))
<1>1. \A e \in Cameras : total[e].seconds \in Nat
  BY DEF TypeOK, Slots
<1>2. IsFiniteSet(TicksCharged) /\ Cardinality(TicksCharged) \in Nat
  BY TicksFinite, <1>1
<1>3. IsFiniteSet(More) /\ Cardinality(More) = d
  <2>1. IsFiniteSet((s + 1)..(s + d)) /\ Cardinality((s + 1)..(s + d)) = d
    <3>1. s + 1 \in Int /\ s + d \in Int
      BY <1>1
    <3>2. Cardinality((s + 1)..(s + d))
             = IF s + 1 > s + d THEN 0 ELSE (s + d) - (s + 1) + 1
      BY <3>1, FS_Interval
    <3>3. IsFiniteSet((s + 1)..(s + d))
      BY <3>1, FS_Interval
    <3>4. (IF s + 1 > s + d THEN 0 ELSE (s + d) - (s + 1) + 1) = d
      BY <1>1
    <3>5. QED
      BY <3>2, <3>3, <3>4
  <2>2. IsFiniteSet({c}) /\ Cardinality({c}) = 1
    BY FS_Singleton
  <2>3. IsFiniteSet(More) /\ Cardinality(More) = 1 * d
    <3> DEFINE I == (s + 1)..(s + d)
    <3> HIDE DEF I
    <3>1. IsFiniteSet({c} \X I) /\ Cardinality({c} \X I) = Cardinality({c}) * Cardinality(I)
      BY <2>1, <2>2, FS_Product DEF I
    <3>2. QED
      BY <2>1, <2>2, <3>1 DEF I
  <2>4. QED
    BY <2>3
<1>4. TicksCharged' = TicksCharged \cup More
  <2>1. \A e : \A n : <<e, n>> \in TicksCharged' <=> <<e, n>> \in TicksCharged \cup More
    <3> SUFFICES ASSUME NEW e, NEW n
                 PROVE  <<e, n>> \in TicksCharged' <=> <<e, n>> \in TicksCharged \cup More
      OBVIOUS
    <3>1. <<e, n>> \in TicksCharged' <=> e \in Cameras /\ n \in 1..total'[e].seconds
      BY DEF TicksCharged
    <3>2. <<e, n>> \in TicksCharged <=> e \in Cameras /\ n \in 1..total[e].seconds
      BY DEF TicksCharged
    <3>3. <<e, n>> \in More <=> e = c /\ n \in (s + 1)..(s + d)
      OBVIOUS
    <3>4. CASE e = c
      BY <1>1, <3>1, <3>2, <3>3, <3>4
    <3>5. CASE e # c
      <4>1. e \in Cameras => total'[e].seconds = total[e].seconds
        BY <1>1, <3>5
      <4>2. QED
        BY <3>1, <3>2, <3>3, <3>5, <4>1
    <3>6. QED
      BY <3>4, <3>5
  <2>2. \A p \in TicksCharged' \cup TicksCharged \cup More : p = <<p[1], p[2]>>
    BY DEF TicksCharged
  <2> HIDE DEF More
  <2>3. \A p : p \in TicksCharged' <=> p \in TicksCharged \cup More
    BY <2>1, <2>2
  <2>4. QED
    BY <2>3
<1>5. TicksCharged \cap More = {}
  <2> SUFFICES ASSUME NEW p \in TicksCharged, p \in More PROVE FALSE
    OBVIOUS
  <2>1. PICK e \in Cameras : p \in {e} \X (1..total[e].seconds)
    BY DEF TicksCharged
  <2>2. p[1] = e /\ p[1] = c /\ p[2] \in 1..s /\ p[2] \in (s + 1)..(s + d)
    BY <2>1
  <2>3. QED
    BY <1>1, <2>2
<1>6. Cardinality(TicksCharged \cup More)
         = Cardinality(TicksCharged) + Cardinality(More) - Cardinality({})
  BY <1>2, <1>3, <1>5, FS_Union
<1>7. QED
  BY <1>2, <1>3, <1>4, <1>6, FS_EmptySet

-----------------------------------------------------------------------------
(* The invariant.                                                          *)

LEMMA SlotAdds ==
    /\ NoSlot \in Slots /\ NoRate \in Rates /\ Nothing \in [Cameras -> Slots]
    /\ \A s, t \in Slots : Plus(s, t) \in Slots
    /\ \A seconds \in Nat : Charged(seconds) \in Slots /\ Charged(seconds) # NoSlot
    /\ \A s \in Slots, seconds \in Nat : Plus(s, Charged(seconds)) # NoSlot
BY DEF NoSlot, NoRate, Nothing, Slots, Rates, Plus, Charged

\* Slots add up in any grouping and order.
LEMMA Regroup ==
    /\ \A b, c, d, x \in Slots :
          Plus(Plus(Plus(NoSlot, b), Plus(c, d)), x) = Plus(Plus(x, b), Plus(c, d))
    /\ \A x, b, c, d \in Slots :
          Plus(Plus(x, b), Plus(c, d)) = Plus(Plus(NoSlot, Plus(b, x)), Plus(c, d))
    /\ \A x, b, d \in Slots :
          Plus(Plus(x, b), Plus(NoSlot, d)) = Plus(Plus(x, NoSlot), Plus(b, d))
    /\ \A x, b, c, d \in Slots :
          Plus(Plus(x, b), Plus(c, d)) = Plus(Plus(x, b), Plus(NoSlot, Plus(d, c)))
BY DEF Plus, Slots, NoSlot

LEMMA InitIInv == Init => IInv
<1> SUFFICES ASSUME Init PROVE IInv
  OBVIOUS
<1>1. TypeOK
  <2>1. 0 \in Times
    BY ConstantsAssumption DEF Times
  <2>2. recent \in [Cameras -> Seq(Times)]
    BY EmptySeq DEF Init
  <2>3. QED
    BY <2>1, <2>2, SlotAdds DEF Init, OpenNvml, TypeOK
<1>2. Turn /\ Rolling
  BY DEF Init, Turn, Rolling
<1>3. Remembered /\ PageAgreesWithGauge
  BY DEF Init, Remembered, PageAgreesWithGauge, Nothing
<1>4. EverySecondRolledOnce
  BY DEF Init, EverySecondRolledOnce, InHand, Plus, Nothing, NoSlot
<1>5. TicksInTime
  <2>1. TicksCharged = {}
    BY DEF Init, TicksCharged, Nothing, NoSlot
  <2>2. QED
    BY <2>1, FS_EmptySet DEF Init, TicksInTime
<1>6. QED
  BY <1>1, <1>2, <1>3, <1>4, <1>5 DEF IInv

\* Nothing but the clock and the scorer disturbs the ticks.
LEMMA SameTicks == ASSUME UNCHANGED total PROVE TicksCharged' = TicksCharged
BY DEF TicksCharged

LEMMA StutterInv == ASSUME IInv, UNCHANGED vars PROVE IInv'
<1>1. TicksInTime'
  BY SameTicks DEF IInv, TicksInTime, vars, ledger, scorer
<1>2. (TypeOK /\ Turn /\ Rolling /\ Remembered)'
  BY DEF IInv, TypeOK, Turn, Rolling, Remembered, vars, device, scorer, ledger, rates
<1>3. EverySecondRolledOnce' /\ PageAgreesWithGauge'
  BY DEF IInv, EverySecondRolledOnce, InHand, PageAgreesWithGauge, vars, scorer, ledger,
     rates
<1>4. QED
  BY <1>1, <1>2, <1>3 DEF IInv

LEMMA TickInv == ASSUME IInv, Tick PROVE IInv'
<1>1. TypeOK' /\ Turn' /\ Rolling'
  BY ConstantsAssumption
  DEF IInv, TypeOK, Turn, Rolling, Tick, Times, device, scorer, ledger, rates
<1>2. Cardinality(TicksCharged) \in Nat
  BY TicksFinite DEF IInv, TypeOK, Slots
<1>3. TicksInTime'
  BY <1>2, SameTicks, ConstantsAssumption
  DEF IInv, TypeOK, Times, Turn, TicksInTime, Tick, ledger, scorer
<1>4. Remembered' /\ EverySecondRolledOnce' /\ PageAgreesWithGauge'
  BY DEF IInv, Remembered, EverySecondRolledOnce, InHand, PageAgreesWithGauge, Tick,
     scorer, ledger, rates
<1>5. QED
  BY <1>1, <1>3, <1>4 DEF IInv

LEMMA BeginInv == ASSUME IInv, NEW c \in Cameras, Begin(c) PROVE IInv'
<1>1. TypeOK' /\ Turn' /\ Rolling'
  BY ConstantsAssumption
  DEF IInv, TypeOK, Turn, Rolling, Begin, Times, device, ledger, rates
<1>2. TicksInTime'
  BY SameTicks, ConstantsAssumption DEF IInv, Turn, TicksInTime, Begin, ledger
<1>3. EverySecondRolledOnce'
  <2>1. \A e \in Cameras : InHand(e)' = NoSlot /\ InHand(e) = NoSlot
    BY ConstantsAssumption DEF IInv, TypeOK, Turn, Begin, InHand
  <2>2. QED
    BY <2>1 DEF IInv, EverySecondRolledOnce, Begin, ledger, rates
<1>4. Remembered' /\ PageAgreesWithGauge'
  BY DEF IInv, Remembered, PageAgreesWithGauge, Begin, ledger, rates
<1>5. QED
  BY <1>1, <1>2, <1>3, <1>4 DEF IInv

LEMMA ChargeInv ==
    ASSUME IInv, NEW c \in Cameras, Charge(c), raised' \in {raised, raised \cup {c}}
    PROVE  IInv'
<1> DEFINE d == now - began
<1>1. d \in Nat /\ d > 0 /\ d \in Times
  <2>1. now \in Times /\ began \in Times /\ now > began
    BY DEF IInv, TypeOK, Charge
  <2>2. QED
    BY <2>1, ConstantsAssumption DEF Times
<1>2. \A e \in Cameras :
        total'[e] = IF e = c THEN Plus(total[c], Charged(d)) ELSE total[e]
  BY DEF IInv, TypeOK, Charge
<1> HIDE DEF d
<1>3. TypeOK'
  <2>1. total' \in [Cameras -> Slots]
    BY <1>1, SlotAdds DEF IInv, TypeOK, Charge, d
  <2>2. QED
    BY <1>1, <2>1 DEF IInv, TypeOK, Charge, device, rates, d
<1>4. Turn' /\ Rolling'
  BY ConstantsAssumption DEF IInv, Turn, Rolling, Charge, rates
<1>5. TicksInTime'
  <2>1. \A e \in Cameras : total'[e].seconds = total[e].seconds + (IF e = c THEN d ELSE 0)
    <3>1. \A e \in Cameras : total[e].seconds \in Nat
      BY DEF IInv, TypeOK, Slots
    <3>2. QED
      BY <1>1, <1>2, <3>1 DEF Plus, Charged
  <2>2. Cardinality(TicksCharged') = Cardinality(TicksCharged) + d
    BY <1>1, <2>1, TicksAdded DEF IInv
  <2>3. Cardinality(TicksCharged) \in Nat
    BY TicksFinite DEF IInv, TypeOK, Slots
  <2>4. Cardinality(TicksCharged) <= began
    BY ConstantsAssumption DEF IInv, TicksInTime, Charge
  <2>5. Cardinality(TicksCharged') <= now
    BY <2>2, <2>3, <2>4 DEF IInv, TypeOK, Times, d
  <2>6. charge' # 0 /\ now' = now
    BY <1>1 DEF Charge, d
  <2>7. QED
    BY <2>5, <2>6 DEF TicksInTime
<1>6. EverySecondRolledOnce'
  <2> SUFFICES ASSUME NEW e \in Cameras
               PROVE  total'[e] = Plus(Plus(InHand(e)', pending[e]), Plus(batch[e], rolled[e]))
    BY DEF EverySecondRolledOnce, Charge, rates
  <2>1. total[e] = Plus(Plus(InHand(e), pending[e]), Plus(batch[e], rolled[e]))
    BY DEF IInv, EverySecondRolledOnce
  <2>2. pending[e] \in Slots /\ batch[e] \in Slots /\ rolled[e] \in Slots
    BY DEF IInv, TypeOK
  <2>3. CASE e = c
    <3>1. InHand(c) = NoSlot /\ InHand(c)' = Charged(d)
      BY <1>1 DEF InHand, Charge, d
    <3>2. Charged(d) \in Slots
      BY <1>1, SlotAdds
    <3>3. Plus(Plus(Plus(NoSlot, pending[e]), Plus(batch[e], rolled[e])), Charged(d))
             = Plus(Plus(Charged(d), pending[e]), Plus(batch[e], rolled[e]))
      BY <2>2, <3>2, Regroup
    <3>4. total'[e] = Plus(total[e], Charged(d))
      BY <1>2, <2>3
    <3>5. total[e] = Plus(Plus(NoSlot, pending[e]), Plus(batch[e], rolled[e]))
      BY <2>1, <2>3, <3>1
    <3>6. InHand(e)' = Charged(d)
      BY <2>3, <3>1
    <3>7. QED
      BY <3>3, <3>4, <3>5, <3>6
  <2>4. CASE e # c
    <3>1. InHand(e) = NoSlot /\ InHand(e)' = NoSlot
      BY <2>4 DEF InHand, Charge
    <3>2. QED
      BY <1>2, <2>1, <2>4, <3>1
  <2>5. QED
    BY <2>3, <2>4
<1>7. Remembered' /\ PageAgreesWithGauge'
  BY DEF IInv, Remembered, PageAgreesWithGauge, Charge, rates
<1>8. QED
  BY <1>3, <1>4, <1>5, <1>6, <1>7 DEF IInv

LEMMA RaiseUnchargedInv == ASSUME IInv, NEW c \in Cameras, RaiseUncharged(c) PROVE IInv'
<1>1. TypeOK'
  BY ConstantsAssumption DEF IInv, TypeOK, RaiseUncharged, Times, device, ledger, rates
<1>2. Turn' /\ Rolling'
  BY ConstantsAssumption
  DEF IInv, TypeOK, Turn, Rolling, RaiseUncharged, Times, ledger, rates
<1>3. TicksInTime'
  <2>1. Cardinality(TicksCharged) \in Nat
    BY TicksFinite DEF IInv, TypeOK, Slots
  <2>2. began \in Nat /\ now \in Nat /\ began <= now
    BY ConstantsAssumption DEF IInv, TypeOK, Times, Turn
  <2>3. Cardinality(TicksCharged) <= now
    BY <2>1, <2>2 DEF IInv, TicksInTime
  <2>4. QED
    BY <2>3, SameTicks DEF TicksInTime, RaiseUncharged, ledger
<1>4. EverySecondRolledOnce'
  <2>1. \A e \in Cameras : InHand(e) = NoSlot /\ InHand(e)' = NoSlot
    BY ConstantsAssumption DEF RaiseUncharged, InHand
  <2>2. QED
    BY <2>1 DEF IInv, EverySecondRolledOnce, RaiseUncharged, ledger, rates
<1>5. Remembered' /\ PageAgreesWithGauge'
  BY DEF IInv, Remembered, PageAgreesWithGauge, RaiseUncharged, ledger, rates
<1>6. QED
  BY <1>1, <1>2, <1>3, <1>4, <1>5 DEF IInv

LEMMA RecordInv == ASSUME IInv, NEW c \in Cameras, Record(c) PROVE IInv'
<1>1. /\ charge \in Nat /\ charge \in Times /\ charge > 0 /\ scoring = c
      /\ Charged(charge) \in Slots
  BY SlotAdds, ConstantsAssumption DEF IInv, TypeOK, Times, Record
<1>2. /\ pending' \in [Cameras -> Slots]
      /\ \A e \in Cameras :
           pending'[e] = IF e = c THEN Plus(pending[c], Charged(charge)) ELSE pending[e]
  BY <1>1, SlotAdds DEF IInv, TypeOK, Record
<1>3. /\ recent' \in [Cameras -> Seq(Times)]
      /\ \A e \in Cameras : e # c => recent'[e] = recent[e]
      /\ recent'[c] # <<>>
  <2>1. recent[c] \in Seq(Times)
    BY DEF IInv, TypeOK
  <2>2. /\ Remember(recent[c], charge) \in Seq(Times)
        /\ Remember(recent[c], charge) # <<>>
    BY <1>1, <2>1, RememberType
  <2>3. QED
    BY <2>2 DEF IInv, TypeOK, Record
<1>4. TypeOK'
  BY <1>2, <1>3, ConstantsAssumption DEF IInv, TypeOK, Times, Record, device, rates
<1>5. Turn' /\ Rolling'
  BY ConstantsAssumption DEF IInv, TypeOK, Turn, Rolling, Times, Record, rates
<1>6. TicksInTime'
  BY <1>1, SameTicks, ConstantsAssumption DEF IInv, TicksInTime, Record
<1>7. Remembered' /\ PageAgreesWithGauge'
  BY <1>2, <1>3 DEF IInv, Remembered, PageAgreesWithGauge, Record, rates
<1>8. EverySecondRolledOnce'
  <2> SUFFICES ASSUME NEW e \in Cameras
               PROVE  total[e] = Plus(Plus(InHand(e)', pending'[e]), Plus(batch[e], rolled[e]))
    BY DEF EverySecondRolledOnce, Record, rates
  <2>1. total[e] = Plus(Plus(InHand(e), pending[e]), Plus(batch[e], rolled[e]))
    BY DEF IInv, EverySecondRolledOnce
  <2>2. pending[e] \in Slots /\ batch[e] \in Slots /\ rolled[e] \in Slots
    BY DEF IInv, TypeOK
  <2>3. InHand(e)' = NoSlot
    BY DEF InHand, Record
  <2>4. CASE e = c
    <3>1. InHand(e) = Charged(charge)
      BY <1>1, <2>4 DEF InHand
    <3>2. Plus(Plus(Charged(charge), pending[e]), Plus(batch[e], rolled[e]))
             = Plus(Plus(NoSlot, Plus(pending[e], Charged(charge))), Plus(batch[e], rolled[e]))
      BY <1>1, <2>2, Regroup
    <3>3. pending'[e] = Plus(pending[e], Charged(charge))
      BY <1>2, <2>4
    <3>4. QED
      BY <2>1, <2>3, <3>1, <3>2, <3>3
  <2>5. CASE e # c
    <3>1. InHand(e) = NoSlot
      BY <1>1, <2>5 DEF InHand
    <3>2. QED
      BY <1>2, <2>1, <2>3, <2>5, <3>1
  <2>6. QED
    BY <2>4, <2>5
<1>9. QED
  BY <1>4, <1>5, <1>6, <1>7, <1>8 DEF IInv

\* Steps of the timer that publish nothing.
LEMMA WaitInv == ASSUME IInv, Poll \/ Sleep PROVE IInv'
<1>1. /\ UNCHANGED <<now, device, scorer, ledger, started, batch, elapsed>>
      /\ UNCHANGED <<gauge, latest, rolled>>
      /\ timer' \in {"sleep", "rollup"} /\ batch = Nothing
  BY DEF IInv, Rolling, Poll, Sleep
<1>2. (TypeOK /\ Turn /\ Rolling /\ Remembered)'
  BY <1>1 DEF IInv, TypeOK, Turn, Rolling, Remembered, device, scorer, ledger
<1>3. TicksInTime'
  BY <1>1, SameTicks DEF IInv, TicksInTime, ledger, scorer
<1>4. EverySecondRolledOnce' /\ PageAgreesWithGauge'
  BY <1>1 DEF IInv, EverySecondRolledOnce, InHand, PageAgreesWithGauge, ledger, scorer
<1>5. QED
  BY <1>2, <1>3, <1>4 DEF IInv

LEMMA SwapInv == ASSUME IInv, Swap PROVE IInv'
<1>1. batch = Nothing
  BY DEF IInv, Rolling, Swap
<1>2. TypeOK'
  <2>1. elapsed' \in Times
    BY ConstantsAssumption DEF IInv, TypeOK, Rolling, Times, Swap
  <2>2. QED
    BY <2>1, SlotAdds DEF IInv, TypeOK, Swap, device, scorer
<1>3. Turn' /\ Rolling'
  BY ConstantsAssumption DEF IInv, TypeOK, Turn, Rolling, Times, Swap, scorer
<1>4. TicksInTime'
  BY SameTicks DEF IInv, TicksInTime, Swap, scorer
<1>5. Remembered' /\ PageAgreesWithGauge'
  BY <1>1 DEF IInv, Remembered, PageAgreesWithGauge, Swap, Nothing
<1>6. EverySecondRolledOnce'
  <2> SUFFICES ASSUME NEW e \in Cameras
               PROVE  total[e] = Plus(Plus(InHand(e), NoSlot), Plus(pending[e], rolled[e]))
    BY DEF EverySecondRolledOnce, InHand, Swap, scorer, Nothing
  <2>1. total[e] = Plus(Plus(InHand(e), pending[e]), Plus(NoSlot, rolled[e]))
    BY <1>1 DEF IInv, EverySecondRolledOnce, Nothing
  <2>2. pending[e] \in Slots /\ rolled[e] \in Slots /\ InHand(e) \in Slots
    BY SlotAdds, ConstantsAssumption DEF IInv, TypeOK, Times, InHand
  <2>3. QED
    BY <2>1, <2>2, Regroup
<1>7. QED
  BY <1>2, <1>3, <1>4, <1>5, <1>6 DEF IInv

LEMMA RateType == ASSUME TypeOK, NEW c \in Cameras PROVE RateOf(c) \in Rates
<1>1. batch[c] \in Slots /\ elapsed \in Nat
  BY ConstantsAssumption DEF TypeOK, Times
<1>2. QED
  BY <1>1 DEF RateOf, Slots, Rates

LEMMA SetGaugeInv == ASSUME IInv, NEW c \in Cameras, SetGauge(c) PROVE IInv'
<1>1. TypeOK'
  BY RateType DEF IInv, TypeOK, SetGauge, device, scorer, ledger
<1>2. (Turn /\ Rolling /\ Remembered)'
  BY DEF IInv, Turn, Rolling, Remembered, SetGauge, scorer, ledger
<1>3. TicksInTime'
  BY SameTicks DEF IInv, TicksInTime, SetGauge, scorer, ledger
<1>4. EverySecondRolledOnce'
  BY DEF IInv, EverySecondRolledOnce, InHand, SetGauge, scorer, ledger
<1>5. PageAgreesWithGauge'
  BY DEF IInv, TypeOK, PageAgreesWithGauge, SetGauge
<1>6. QED
  BY <1>1, <1>2, <1>3, <1>4, <1>5 DEF IInv

LEMMA SetLatestInv == ASSUME IInv, NEW c \in Cameras, SetLatest(c) PROVE IInv'
<1>1. batch[c] \in Slots /\ rolled[c] \in Slots
  BY DEF IInv, TypeOK
<1>2. /\ batch' = [batch EXCEPT ![c] = NoSlot]
      /\ rolled' = [rolled EXCEPT ![c] = Plus(@, batch[c])]
      /\ latest' = [latest EXCEPT ![c] = gauge[c]]
      /\ gauge[c] = RateOf(c) /\ batch[c] # NoSlot
  BY DEF SetLatest
<1>3. TypeOK'
  <2>1. gauge[c] \in Rates
    BY DEF IInv, TypeOK
  <2>2. QED
    BY <1>1, <1>2, <2>1, SlotAdds DEF IInv, TypeOK, SetLatest, device, scorer, ledger
<1>4. Turn' /\ Rolling'
  <2>1. timer = "publish"
    BY <1>2 DEF IInv, Rolling, Nothing
  <2>2. QED
    BY <2>1 DEF IInv, Turn, Rolling, SetLatest, scorer
<1>5. TicksInTime'
  BY SameTicks DEF IInv, TicksInTime, SetLatest, scorer, ledger
<1>6. Remembered'
  BY <1>2 DEF IInv, TypeOK, Remembered, SetLatest, ledger
<1>7. PageAgreesWithGauge'
  BY <1>2 DEF IInv, TypeOK, PageAgreesWithGauge, SetLatest
<1>8. EverySecondRolledOnce'
  <2> SUFFICES ASSUME NEW e \in Cameras
               PROVE  total[e] = Plus(Plus(InHand(e), pending[e]), Plus(batch'[e], rolled'[e]))
    BY DEF EverySecondRolledOnce, InHand, SetLatest, scorer, ledger
  <2>1. total[e] = Plus(Plus(InHand(e), pending[e]), Plus(batch[e], rolled[e]))
    BY DEF IInv, EverySecondRolledOnce
  <2>2. pending[e] \in Slots /\ InHand(e) \in Slots
    BY SlotAdds, ConstantsAssumption DEF IInv, TypeOK, Times, InHand
  <2>3. CASE e = c
    <3>1. batch'[e] = NoSlot /\ rolled'[e] = Plus(rolled[e], batch[e])
      BY <1>2, <2>3 DEF IInv, TypeOK
    <3>2. QED
      BY <1>1, <2>1, <2>2, <2>3, <3>1, Regroup
  <2>4. CASE e # c
    <3>1. batch'[e] = batch[e] /\ rolled'[e] = rolled[e]
      BY <1>2, <2>4 DEF IInv, TypeOK
    <3>2. QED
      BY <2>1, <3>1
  <2>5. QED
    BY <2>3, <2>4
<1>9. QED
  BY <1>3, <1>4, <1>5, <1>6, <1>7, <1>8 DEF IInv

LEMMA NextInv == ASSUME IInv, [Next]_vars PROVE IInv'
<1>1. CASE Tick
  BY <1>1, TickInv
<1>2. CASE Timer
  <2>1. CASE Swap
    BY <2>1, SwapInv
  <2>2. CASE \E c \in Cameras : SetGauge(c) \/ SetLatest(c)
    BY <2>2, SetGaugeInv, SetLatestInv
  <2>3. QED
    BY <1>2, <2>1, <2>2, WaitInv DEF Timer
<1>3. ASSUME NEW c \in Cameras, Scorer(c) PROVE IInv'
  <2>1. CASE End(c)
    BY <2>1, ChargeInv DEF End
  <2>2. CASE RaiseCharged(c)
    BY <2>2, ChargeInv DEF RaiseCharged
  <2>3. QED
    BY <1>3, <2>1, <2>2, BeginInv, RaiseUnchargedInv, RecordInv DEF Scorer
<1>4. CASE UNCHANGED vars
  BY <1>4, StutterInv
<1>5. QED
  BY <1>1, <1>2, <1>3, <1>4 DEF Next

THEOREM Invariance == Spec => []IInv
<1>1. IInv /\ [Next]_vars => IInv'
  BY NextInv
<1>2. QED
  BY InitIInv, <1>1, PTL DEF Spec

-----------------------------------------------------------------------------
(* What holds for every number of cameras, length of the clock and window. *)

\* Every second and frame charged to a camera is part of exactly one rate, or on
\* its way to one: the rollup loses nothing and counts nothing twice.
THEOREM RolledOnce == Spec => []EverySecondRolledOnce
<1>1. IInv => EverySecondRolledOnce
  BY DEF IInv
<1>2. QED
  BY Invariance, <1>1, PTL

\* The cameras together are never charged more device time than has passed,
\* because INFER_LOCK is held up to the charge.
THEOREM ChargedInTime == Spec => []ChargedAtMostTheTimePassed
<1>1. IInv => ChargedAtMostTheTimePassed
  <2> SUFFICES ASSUME IInv PROVE Cardinality(TicksCharged) <= now
    BY DEF ChargedAtMostTheTimePassed
  <2>1. Cardinality(TicksCharged) \in Nat
    BY TicksFinite DEF IInv, TypeOK, Slots
  <2>2. began \in Nat /\ now \in Nat /\ began <= now
    BY ConstantsAssumption DEF IInv, TypeOK, Times, Turn
  <2>3. QED
    BY <2>1, <2>2 DEF IInv, TicksInTime
<1>2. QED
  BY Invariance, <1>1, PTL

\* What stats() gives the page of a camera: the rate the gauges have, and with
\* every rate percentiles that cover its frames.
THEOREM PageStaysRight == Spec => []PageIsRight
<1>1. IInv => PageIsRight
  <2> SUFFICES ASSUME IInv PROVE RateHasPercentiles
    BY PercentilesAlwaysCover DEF IInv, PageIsRight
  <2>1. QED
    BY DEF IInv, Remembered, RateHasPercentiles, OnPage
<1>2. QED
  BY Invariance, <1>1, PTL
=============================================================================
