---------------------------- MODULE ExhibitProofs ----------------------------
(***************************************************************************)
(* Proofs about the inspection line from the data set to the screen, for   *)
(* any lines, data set, command lines and number of cameras.  The          *)
(* inductive invariant has a part for the pod, which ties the models in    *)
(* memory and the file being made to what is on the volume, and a part for *)
(* the maintainer's run, which ties the directories done to their picks.   *)
(***************************************************************************)
EXTENDS Exhibit, FiniteSetTheorems, SequenceTheorems, TLAPS

\* A model is fitted only where there is none, and saved only where good frames are.
Fitting ==
    /\ Does("fit") => weights[current] = "absent"
    /\ Does("save") => weights[current] # "whole" /\ train[current]

\* The lines before the one being done have their detector.
Progress ==
    /\ \A i \in 1..(turn - 1) : lines[i] \in loaded
    /\ ready \/ Does("watch") => \A i \in 1..Len(lines) : lines[i] \in loaded
    /\ Does("serve") => watchers = CameraPlan(lines)
    /\ pod = "down" => task = "ended"

PodInv == AnalyzerTypeOK /\ Fitting /\ Progress /\ ReadyWithEveryModel

Dirs == Categories \X Labels
Among(s) == {s[k] : k \in 1..Len(s)}
Asked(c) == Among(c.categories) \X Labels

\* The picks of a directory, by their numbers.
Wanted(n, count) == IF count >= n THEN n ELSE count
Number(dir, c) == Wanted(Sources[dir[2]], c.count[dir[2]])
PickOf(dir, c, i) == <<dir, i, EvenlySpaced(Sources[dir[2]], c.count[dir[2]])[i]>>
Prefix(dir, c, w) == {f \in Picks(dir, c) : f[2] < w}

\* What a run has done: the directories it has not come to have no rows, the one it
\* is writing has its first picks, those behind it have all of theirs.
RowsIn(dir) == {r \in rows : r[1] = dir}
Doing == IF step = "write" THEN {Head(todo)} ELSE {}

Running ==
    /\ call \in Calls
    /\ todo \in Seq(Dirs) /\ Distinct(todo)
    /\ Among(todo) \subseteq Asked(call)
    /\ \A r \in rows : r[1] \in Asked(call)
    /\ \A dir \in Asked(call) \ Among(todo) :
          RowsIn(dir) = Picks(dir, call) /\ InDir(dir) = Picks(dir, call)
    /\ \A dir \in Among(todo) \ Doing : RowsIn(dir) = {}
    /\ step = "write" => \E w \in 0..Number(Head(todo), call) :
          /\ RowsIn(Head(todo)) = Prefix(Head(todo), call, w)
          /\ InDir(Head(todo)) = Prefix(Head(todo), call, w)
    /\ step \in {"clear", "write"} => todo # <<>>
    /\ step = "manifest" => todo = <<>>
    /\ step \in {"write", "manifest"} \/ Among(todo) # Asked(call) => last = NoCall

FileType(f) == f \in Dirs \X Nat \X Nat /\ f[3] < Sources[f[1][2]]

CurationTypeOK ==
    /\ \A f \in frames \cup manifest \cup rows : FileType(f)
    /\ step \in {"idle", "pick", "clear", "write", "manifest"}
    /\ call \in Calls \cup {NoCall}
    /\ last \in Calls \cup {NoCall}

CurationInv == CurationTypeOK /\ ManifestIsExact /\ (step # "idle" => Running)

-----------------------------------------------------------------------------
(* Whole numbers.                                                          *)

LEMMA DivMod ==
    \A a \in Nat, k \in Nat \ {0} :
        a \div k \in Nat /\ a % k \in 0..(k - 1) /\ a = k * (a \div k) + (a % k)
OBVIOUS

LEMMA TimesNext == \A k, d \in Int : k * (d + 1) = k * d + k
OBVIOUS

LEMMA TimesGrows == \A k, a, b \in Nat : a <= b => k * a <= k * b
OBVIOUS

\* Numbers are compared by their quotients, then by their remainders.
LEMMA ByQuotient ==
    \A k, q, r, b, e \in Nat : r < k /\ e < k =>
        (k * q + r < k * b + e <=> q < b \/ (q = b /\ r < e))
<1> SUFFICES ASSUME NEW k \in Nat, NEW q \in Nat, NEW r \in Nat, NEW b \in Nat, NEW e \in Nat,
                    r < k, e < k
             PROVE  k * q + r < k * b + e <=> q < b \/ (q = b /\ r < e)
  OBVIOUS
<1>1. k * q \in Nat /\ k * b \in Nat
  OBVIOUS
<1>2. CASE q < b
  <2>1. k * (q + 1) <= k * b /\ k * (q + 1) = k * q + k
    BY <1>2, TimesGrows, TimesNext
  <2>2. QED
    BY <1>1, <1>2, <2>1
<1>3. CASE b < q
  <2>1. k * (b + 1) <= k * q /\ k * (b + 1) = k * b + k
    BY <1>3, TimesGrows, TimesNext
  <2>2. QED
    BY <1>1, <1>3, <2>1
<1>4. CASE q = b
  BY <1>1, <1>4
<1>5. QED
  BY <1>2, <1>3, <1>4

LEMMA DivUnique ==
    \A a, k, d, m \in Nat : a = k * d + m /\ m < k => a \div k = d /\ a % k = m
<1> SUFFICES ASSUME NEW a \in Nat, NEW k \in Nat, NEW d \in Nat, NEW m \in Nat,
                    a = k * d + m, m < k
             PROVE  a \div k = d /\ a % k = m
  OBVIOUS
<1> DEFINE q == a \div k
<1> DEFINE r == a % k
<1>1. k \in Nat \ {0}
  OBVIOUS
<1>2. q \in Nat /\ r \in 0..(k - 1) /\ a = k * q + r
  BY <1>1, DivMod
<1> HIDE DEF q, r
<1>3. ~(q < d) /\ ~(d < q)
  BY <1>2, ByQuotient
<1>4. q = d
  BY <1>2, <1>3
<1>5. r = m
  BY <1>2, <1>4
<1>6. QED
  BY <1>4, <1>5 DEF q, r

-----------------------------------------------------------------------------
(* The pod.                                                                *)

LEMMA LinesType ==
    ASSUME AnalyzerTypeOK
    PROVE  /\ lines \in Seq(Categories) /\ Distinct(lines)
           /\ Len(lines) \in Nat \ {0} /\ turn \in 1..Len(lines)
           /\ current \in Categories
<1>1. lines \in Seq(Categories) /\ Distinct(lines)
  BY NamesAssumption, ConstantsAssumption DEF AnalyzerTypeOK
<1>2. turn \in 1..Len(lines) /\ Len(lines) \in Nat
  BY <1>1, LenProperties DEF AnalyzerTypeOK
<1>3. current \in Categories
  BY <1>1, <1>2, ElementOfSeq DEF current
<1>4. QED
  BY <1>1, <1>2, <1>3

\* A stream of the plan is numbered from 1 and is of one of the lines.
LEMMA PlanType ==
    ASSUME NEW s \in Seq(Categories), Len(s) # 0
    PROVE  /\ CameraPlan(s) \subseteq Categories \X (Nat \ {0})
           /\ \A w \in CameraPlan(s) : \E k \in 1..Len(s) : w[1] = s[k]
<1>1. Len(s) \in Nat \ {0} /\ CAMERAS \div Len(s) \in Nat
  BY ConstantsAssumption, LenProperties
<1>2. \A k \in 1..Len(s) : s[k] \in Categories
  BY ElementOfSeq
<1> DEFINE Streams(k) ==
      {s[k]} \X (1..(CAMERAS \div Len(s) + IF k <= CAMERAS % Len(s) THEN 1 ELSE 0))
<1>3. CameraPlan(s) = UNION {Streams(k) : k \in 1..Len(s)}
  BY DEF CameraPlan
<1>4. ASSUME NEW w \in CameraPlan(s)
      PROVE  \E k \in 1..Len(s) : w \in {s[k]} \X (Nat \ {0})
  <2>1. PICK k \in 1..Len(s) : w \in Streams(k)
    BY <1>3
  <2>2. QED
    BY <2>1
<1>5. QED
  BY <1>2, <1>4

LEMMA EnsureInv == ASSUME PodInv, Ensure PROVE PodInv'
<1>1. AnalyzerTypeOK'
  BY DEF PodInv, AnalyzerTypeOK, Ensure, Tasks
<1>2. Fitting' /\ Progress' /\ ReadyWithEveryModel'
  BY DEF PodInv, Fitting, Progress, ReadyWithEveryModel, Healthz, Ensure, Does, current
<1>3. QED
  BY <1>1, <1>2 DEF PodInv

LEMMA FitInv == ASSUME PodInv, Fit PROVE PodInv'
<1>1. AnalyzerTypeOK'
  BY DEF PodInv, AnalyzerTypeOK, Fit, Fails, Tasks
<1>2. Fitting' /\ Progress' /\ ReadyWithEveryModel'
  BY DEF PodInv, Fitting, Progress, ReadyWithEveryModel, Healthz, Fit, Fails, Calibrates,
     Does, current
<1>3. QED
  BY <1>1, <1>2 DEF PodInv

LEMMA SaveInv == ASSUME PodInv, OpenFile \/ SaveFails \/ Save PROVE PodInv'
<1>1. current \in Categories
  BY LinesType DEF PodInv
<1>2. AnalyzerTypeOK'
  BY <1>1 DEF PodInv, AnalyzerTypeOK, OpenFile, SaveFails, Save, Fails, process, Tasks
<1>3. \A c \in Categories : weights[c] = "whole" => weights'[c] = "whole"
  BY DEF PodInv, AnalyzerTypeOK, Fitting, OpenFile, SaveFails, Save
<1>4. Fitting'
  BY <1>1 DEF PodInv, AnalyzerTypeOK, Fitting, OpenFile, SaveFails, Save, Fails, process,
     Does, current
<1>5. Progress' /\ ReadyWithEveryModel'
  BY <1>3 DEF PodInv, AnalyzerTypeOK, Progress, ReadyWithEveryModel, Healthz, OpenFile,
     SaveFails, Save, Fails, process, Does
<1>6. QED
  BY <1>2, <1>4, <1>5 DEF PodInv

LEMMA LoadInv == ASSUME PodInv, Load PROVE PodInv'
<1>1. CASE weights[current] = "whole"
  <2>1. current \in Categories /\ turn \in 1..Len(lines) /\ Len(lines) \in Nat
    BY LinesType DEF PodInv
  <2>2. AnalyzerTypeOK'
    <3>1. turn' \in 1..Len(lines')
      BY <1>1, <2>1 DEF Load, Loaded
    <3>2. QED
      BY <1>1, <2>1, <3>1 DEF PodInv, AnalyzerTypeOK, Load, Loaded, Tasks
  <2>3. Fitting' /\ ReadyWithEveryModel'
    BY <1>1, <2>1 DEF PodInv, Fitting, Progress, ReadyWithEveryModel, Healthz, Load,
       Loaded, Does, current
  <2>4. Progress'
    BY <1>1, <2>1 DEF PodInv, Progress, Load, Loaded, Does, current
  <2>5. QED
    BY <2>2, <2>3, <2>4 DEF PodInv
<1>2. CASE weights[current] # "whole"
  <2>1. AnalyzerTypeOK'
    BY <1>2 DEF PodInv, AnalyzerTypeOK, Load, Fails, Tasks
  <2>2. Fitting' /\ Progress' /\ ReadyWithEveryModel'
    BY <1>2 DEF PodInv, Fitting, Progress, ReadyWithEveryModel, Healthz, Load, Fails, Does
  <2>3. QED
    BY <2>1, <2>2 DEF PodInv
<1>3. QED
  BY <1>1, <1>2

LEMMA StartWatchersInv == ASSUME PodInv, StartWatchers PROVE PodInv'
<1>1. /\ CameraPlan(lines) \subseteq Categories \X (Nat \ {0})
      /\ \A w \in CameraPlan(lines) : \E k \in 1..Len(lines) : w[1] = lines[k]
  BY LinesType, PlanType DEF PodInv
<1>2. AnalyzerTypeOK'
  BY <1>1 DEF PodInv, AnalyzerTypeOK, StartWatchers, Tasks
<1>3. Fitting' /\ Progress'
  BY DEF PodInv, Fitting, Progress, StartWatchers, Does
<1>4. ReadyWithEveryModel'
  BY <1>1 DEF PodInv, Progress, ReadyWithEveryModel, Healthz, StartWatchers, Does
<1>5. QED
  BY <1>2, <1>3, <1>4 DEF PodInv

LEMMA ScheduleInv == ASSUME PodInv, Schedule PROVE PodInv'
<1>1. lines' \in {Names} \cup Configured /\ lines' # <<>>
  BY NamesAssumption DEF Schedule, Fresh, discover_categories
<1>2. 1 \in 1..Len(lines')
  BY <1>1, NamesAssumption, ConstantsAssumption, EmptySeq
<1>3. AnalyzerTypeOK'
  BY <1>1, <1>2 DEF PodInv, AnalyzerTypeOK, Schedule, Fresh, Unloaded, Tasks
<1>4. Fitting' /\ Progress' /\ ReadyWithEveryModel'
  BY DEF PodInv, Fitting, Progress, ReadyWithEveryModel, Healthz, Schedule, Fresh,
     Unloaded, Does
<1>5. QED
  BY <1>3, <1>4 DEF PodInv

LEMMA KillInv == ASSUME PodInv, Kill PROVE PodInv'
<1>1. 1 \in 1..Len(Names)
  BY NamesAssumption, EmptySeq
<1>2. AnalyzerTypeOK'
  BY <1>1 DEF PodInv, AnalyzerTypeOK, Kill, Tasks
<1>3. Fitting' /\ Progress' /\ ReadyWithEveryModel'
  BY DEF PodInv, Fitting, Progress, ReadyWithEveryModel, Healthz, Kill, Does
<1>4. QED
  BY <1>2, <1>3 DEF PodInv

LEMMA BuildImageInv == ASSUME PodInv, BuildImage PROVE PodInv'
<1>1. AnalyzerTypeOK'
  BY DEF PodInv, AnalyzerTypeOK, BuildImage, process, InDir
<1>2. Fitting' /\ Progress' /\ ReadyWithEveryModel'
  BY DEF PodInv, Fitting, Progress, ReadyWithEveryModel, Healthz, BuildImage,
     process, Does
<1>3. QED
  BY <1>1, <1>2 DEF PodInv

LEMMA PodStutter == ASSUME PodInv, UNCHANGED analyzer PROVE PodInv'
BY DEF PodInv, AnalyzerTypeOK, Fitting, Progress, ReadyWithEveryModel, Healthz, Does,
   current, analyzer, process

LEMMA PodInit == AnalyzerInit => PodInv
<1> SUFFICES ASSUME AnalyzerInit PROVE PodInv
  OBVIOUS
<1>1. 1 \in 1..Len(Names)
  BY NamesAssumption, EmptySeq
<1>2. AnalyzerTypeOK
  BY <1>1 DEF AnalyzerInit, AnalyzerTypeOK, Tasks
<1>3. Fitting /\ Progress /\ ReadyWithEveryModel
  BY DEF AnalyzerInit, Fitting, Progress, ReadyWithEveryModel, Healthz, Does
<1>4. QED
  BY <1>2, <1>3 DEF PodInv

LEMMA PodStep == ASSUME PodInv, [Next]_vars PROVE PodInv'
<1>1. CASE Startup
  BY <1>1, EnsureInv, FitInv, SaveInv, LoadInv, StartWatchersInv DEF Startup
<1>2. CASE UNCHANGED analyzer
  BY <1>2, PodStutter
<1>3. QED
  BY <1>1, <1>2, BuildImageInv, ScheduleInv, KillInv DEF Next, vars

-----------------------------------------------------------------------------
(* The streams.                                                            *)

\* Line k of the plan has a camera of number i as long as the cameras dealt out line
\* by line, round after round, reach that far.
LEMMA Dealt ==
    ASSUME NEW n \in Nat \ {0}, NEW k \in 1..n, NEW i \in Nat \ {0}
    PROVE  i <= CAMERAS \div n + (IF k <= CAMERAS % n THEN 1 ELSE 0)
              <=> n * (i - 1) + k <= CAMERAS
<1> DEFINE base == CAMERAS \div n
<1> DEFINE extra == CAMERAS % n
<1>1. base \in Nat /\ extra \in Nat /\ extra < n /\ CAMERAS = n * base + extra
  BY DivMod, ConstantsAssumption
<1> HIDE DEF base, extra
<1>2. n * (i - 1) + (k - 1) < n * base + extra
         <=> i - 1 < base \/ (i - 1 = base /\ k - 1 < extra)
  BY <1>1, ByQuotient
<1>3. n * (i - 1) \in Nat /\ n * base \in Nat
  BY <1>1
<1>4. n * (i - 1) + k <= CAMERAS <=> n * (i - 1) + (k - 1) < n * base + extra
  BY <1>1, <1>3
<1>5. i <= base + (IF k <= extra THEN 1 ELSE 0)
         <=> i - 1 < base \/ (i - 1 = base /\ k - 1 < extra)
  BY <1>1
<1>6. QED
  BY <1>2, <1>4, <1>5 DEF base, extra

LEMMA RoundsType ==
    \A n \in Nat \ {0}, k \in Nat :
        CAMERAS \div n + (IF k <= CAMERAS % n THEN 1 ELSE 0) \in Nat
<1>1. \A n \in Nat \ {0} : CAMERAS \div n \in Nat
  BY DivMod, ConstantsAssumption
<1>2. \A q \in Nat, e \in BOOLEAN : q + (IF e THEN 1 ELSE 0) \in Nat
  OBVIOUS
<1>3. QED
  BY <1>1, <1>2

LEMMA InPlan ==
    ASSUME NEW s \in Seq(Categories), Len(s) # 0, NEW k \in 1..Len(s), NEW i \in Nat \ {0},
           Len(s) * (i - 1) + k <= CAMERAS
    PROVE  <<s[k], i>> \in CameraPlan(s)
<1> DEFINE upto == CAMERAS \div Len(s) + (IF k <= CAMERAS % Len(s) THEN 1 ELSE 0)
<1>1. Len(s) \in Nat \ {0}
  BY LenProperties
<1>2. upto \in Nat
  BY <1>1, RoundsType
<1>3. i <= upto
  BY <1>1, Dealt
<1>4. i \in 1..upto
  BY <1>2, <1>3
<1>5. QED
  BY <1>4 DEF CameraPlan

LEMMA OfPlan ==
    ASSUME NEW s \in Seq(Categories), Len(s) # 0, NEW w \in CameraPlan(s)
    PROVE  \E k \in 1..Len(s), i \in Nat \ {0} :
              w = <<s[k], i>> /\ Len(s) * (i - 1) + k <= CAMERAS
<1> DEFINE upto(k) == CAMERAS \div Len(s) + (IF k <= CAMERAS % Len(s) THEN 1 ELSE 0)
<1>1. Len(s) \in Nat \ {0}
  BY LenProperties
<1>2. PICK k \in 1..Len(s) : w \in {s[k]} \X (1..upto(k))
  BY DEF CameraPlan
<1>3. PICK i \in 1..upto(k) : w = <<s[k], i>>
  BY <1>2
<1>4. upto(k) \in Nat
  BY <1>1, RoundsType
<1>5. i \in Nat \ {0} /\ i <= upto(k)
  BY <1>3, <1>4
<1>6. Len(s) * (i - 1) + k <= CAMERAS
  BY <1>1, <1>5, Dealt
<1>7. QED
  BY <1>3, <1>5, <1>6

\* The plan has as many streams as there are cameras: they can be dealt out in turn.
LEMMA PlanCounts ==
    ASSUME NEW s \in Seq(Categories), Len(s) # 0, Distinct(s)
    PROVE  IsFiniteSet(CameraPlan(s)) /\ Cardinality(CameraPlan(s)) = CAMERAS
<1> DEFINE n == Len(s)
<1>1. n \in Nat \ {0}
  BY LenProperties
<1> HIDE DEF n
<1> DEFINE line(m) == ((m - 1) % n) + 1
<1> DEFINE number(m) == ((m - 1) \div n) + 1
<1> DEFINE f == [m \in 1..CAMERAS |-> <<s[line(m)], number(m)>>]
<1>2. \A m \in 1..CAMERAS : /\ line(m) \in 1..n /\ number(m) \in Nat \ {0}
                            /\ m = n * (number(m) - 1) + line(m)
  <2> SUFFICES ASSUME NEW m \in 1..CAMERAS
               PROVE  /\ line(m) \in 1..n /\ number(m) \in Nat \ {0}
                      /\ m = n * (number(m) - 1) + line(m)
    OBVIOUS
  <2> DEFINE q == (m - 1) \div n
  <2> DEFINE r == (m - 1) % n
  <2>1. m - 1 \in Nat
    BY ConstantsAssumption
  <2>2. q \in Nat /\ r \in 0..(n - 1) /\ m - 1 = n * q + r
    BY <1>1, <2>1, DivMod
  <2> HIDE DEF q, r
  <2>3. /\ r + 1 \in 1..n /\ q + 1 \in Nat \ {0}
        /\ m = n * ((q + 1) - 1) + (r + 1)
    BY <1>1, <2>2, ConstantsAssumption
  <2>4. line(m) = r + 1 /\ number(m) = q + 1
    BY DEF q, r
  <2>5. QED
    BY <2>3, <2>4
<1> HIDE DEF line, number
<1>3. f \in [1..CAMERAS -> CameraPlan(s)]
  <2> SUFFICES ASSUME NEW m \in 1..CAMERAS PROVE <<s[line(m)], number(m)>> \in CameraPlan(s)
    OBVIOUS
  <2>1. n * (number(m) - 1) + line(m) <= CAMERAS
    BY <1>2, ConstantsAssumption
  <2>2. QED
    BY <1>2, <2>1, InPlan DEF n
<1>4. f \in Injection(1..CAMERAS, CameraPlan(s))
  <2> SUFFICES ASSUME NEW m1 \in 1..CAMERAS, NEW m2 \in 1..CAMERAS, f[m1] = f[m2]
               PROVE  m1 = m2
    BY <1>3 DEF Injection, IsInjective
  <2>1. s[line(m1)] = s[line(m2)] /\ number(m1) = number(m2)
    OBVIOUS
  <2>2. line(m1) = line(m2)
    BY <1>2, <2>1 DEF Distinct, n
  <2>3. QED
    BY <1>2, <2>1, <2>2
<1>5. f \in Surjection(1..CAMERAS, CameraPlan(s))
  <2> SUFFICES ASSUME NEW w \in CameraPlan(s) PROVE \E m \in 1..CAMERAS : f[m] = w
    BY <1>3 DEF Surjection
  <2>1. PICK k \in 1..n, i \in Nat \ {0} : w = <<s[k], i>> /\ n * (i - 1) + k <= CAMERAS
    BY OfPlan DEF n
  <2> DEFINE m == n * (i - 1) + k
  <2>2. n * (i - 1) \in Nat /\ k - 1 \in Nat /\ k - 1 < n /\ i - 1 \in Nat
    BY <1>1, <2>1
  <2>3. m \in 1..CAMERAS /\ m - 1 = n * (i - 1) + (k - 1)
    BY <2>1, <2>2, ConstantsAssumption
  <2>4. (m - 1) \div n = i - 1 /\ (m - 1) % n = k - 1
    <3> DEFINE q == i - 1
    <3> DEFINE r == k - 1
    <3>1. q \in Nat /\ r \in Nat /\ r < n /\ n \in Nat
      BY <1>1, <2>2
    <3>2. m - 1 = n * q + r
      BY <2>3
    <3> DEFINE a == m - 1
    <3>3. a \in Nat /\ a = n * q + r
      BY <2>2, <3>1, <3>2
    <3> HIDE DEF q, r, a
    <3>4. a \div n = q /\ a % n = r
      BY <3>1, <3>3, DivUnique
    <3>5. QED
      BY <3>4 DEF q, r, a
  <2> HIDE DEF m
  <2>5. line(m) = k /\ number(m) = i
    BY <2>1, <2>2, <2>4 DEF line, number
  <2>6. QED
    BY <2>1, <2>3, <2>5
<1>6. ExistsBijection(1..CAMERAS, CameraPlan(s))
  BY <1>4, <1>5 DEF ExistsBijection, Bijection
<1>7. IsFiniteSet(1..CAMERAS) /\ Cardinality(1..CAMERAS) = CAMERAS
  BY ConstantsAssumption, FS_Interval
<1>8. QED
  BY <1>6, <1>7, FS_Bijection

\* The cameras and the analyzer make the same plan of the same lines.
LEMMA SamePlan ==
    ASSUME NEW configured \in Configured
    PROVE  LET s == Cameras!Lines(configured)
           IN  /\ s \in Seq(Categories) /\ Len(s) # 0 /\ Distinct(s)
               /\ Cameras!Published(configured) = CameraPlan(s)
<1> DEFINE s == Cameras!Lines(configured)
<1>1. s \in Seq(Categories) /\ Len(s) # 0 /\ Distinct(s)
  BY NamesAssumption, ConstantsAssumption, EmptySeq DEF Cameras!Lines
<1> HIDE DEF s
<1>2. ~\E k \in 1..Len(s) : \A j \in 1..Len(Names) : Names[j] # s[k]
  <2>1. \A k \in 1..Len(s) : s[k] \in Categories
    BY <1>1, ElementOfSeq
  <2>2. QED
    BY <2>1 DEF Categories
<1> DEFINE upto(k) == CAMERAS \div Len(s) + (IF k <= CAMERAS % Len(s) THEN 1 ELSE 0)
<1> DEFINE Planned(k) == {s[k]} \X (1..upto(k))
<1> DEFINE Begun(ci) == {<<s[ci + 1], i>> : i \in 1..Cameras!Count(s, ci)}
<1>3. Len(s) \in Nat \ {0}
  BY <1>1, LenProperties
<1>4. \A ci \in 0..(Len(s) - 1) : Begun(ci) = Planned(ci + 1)
  <2> SUFFICES ASSUME NEW ci \in 0..(Len(s) - 1) PROVE Begun(ci) = Planned(ci + 1)
    OBVIOUS
  <2>1. CAMERAS % Len(s) \in Nat
    BY <1>3, DivMod, ConstantsAssumption
  <2>2. ci < CAMERAS % Len(s) <=> ci + 1 <= CAMERAS % Len(s)
    BY <2>1
  <2>3. Cameras!Count(s, ci) = upto(ci + 1)
    BY <2>2 DEF Cameras!Count
  <2> HIDE DEF upto
  <2>4. QED
    BY <2>3
<1>5. CameraPlan(s) = UNION {Planned(k) : k \in 1..Len(s)}
  BY DEF CameraPlan
<1>6. Cameras!Published(configured) = UNION {Begun(ci) : ci \in 0..(Len(s) - 1)}
  BY <1>2 DEF Cameras!Published, s
<1> HIDE DEF Planned, Begun, upto
<1>7. {Begun(ci) : ci \in 0..(Len(s) - 1)} = {Planned(k) : k \in 1..Len(s)}
  <2>1. \A k \in 1..Len(s) : k - 1 \in 0..(Len(s) - 1) /\ (k - 1) + 1 = k
    BY <1>3
  <2>2. \A ci \in 0..(Len(s) - 1) : ci + 1 \in 1..Len(s)
    BY <1>3
  <2>3. \A k \in 1..Len(s) : \E ci \in 0..(Len(s) - 1) : Begun(ci) = Planned(k)
    <3> SUFFICES ASSUME NEW k \in 1..Len(s)
                 PROVE  \E ci \in 0..(Len(s) - 1) : Begun(ci) = Planned(k)
      OBVIOUS
    <3> DEFINE ci == k - 1
    <3>1. ci \in 0..(Len(s) - 1) /\ ci + 1 = k
      BY <2>1
    <3> HIDE DEF ci
    <3>2. Begun(ci) = Planned(k)
      BY <1>4, <3>1
    <3>3. QED
      BY <3>1, <3>2
  <2>4. QED
    BY <1>4, <2>2, <2>3
<1>8. QED
  BY <1>1, <1>5, <1>6, <1>7 DEF s

LEMMA StreamsWatched == ASSUME PodInv PROVE EveryStreamWatched
<1> SUFFICES ASSUME pod = "up", task = "serve", NEW configured \in Configured
             PROVE  /\ Cardinality(Cameras!Published(configured)) = CAMERAS
                    /\ Cameras!Lines(configured) = lines
                          => Cameras!Published(configured) = watchers
  BY DEF EveryStreamWatched
<1>1. Cardinality(Cameras!Published(configured)) = CAMERAS
  BY SamePlan, PlanCounts
<1>2. watchers = CameraPlan(lines)
  BY DEF PodInv, Progress, Does
<1>3. QED
  BY <1>1, <1>2, SamePlan

-----------------------------------------------------------------------------
(* What a step may never do to a model.                                    *)

LEMMA FittedOnceStep ==
    ASSUME PodInv, [Next]_vars
    PROVE  [\A c \in Categories : weights[c] = "whole" =>
              weights'[c] = "whole" /\ ~(task' = "fit" /\ current' = c)]_analyzer
<1> SUFFICES ASSUME Next, ~UNCHANGED analyzer, NEW c \in Categories, weights[c] = "whole"
             PROVE  weights'[c] = "whole" /\ ~(task' = "fit" /\ current' = c)
  BY DEF vars
<1>1. CASE Startup
  <2>1. weights'[c] = "whole"
    BY <1>1 DEF PodInv, AnalyzerTypeOK, Fitting, Startup, Ensure, Fit, OpenFile,
       SaveFails, Save, Load, StartWatchers
  <2>2. task' = "fit" => Ensure
    BY <1>1 DEF Startup, Ensure, Fit, OpenFile, SaveFails, Save, Load, Loaded,
       StartWatchers, Fails, Does, process
  <2>3. Ensure => ~(task' = "fit" /\ current' = c)
    BY DEF Ensure, current
  <2>4. QED
    BY <2>1, <2>2, <2>3
<1>2. CASE Schedule \/ Kill \/ BuildImage
  BY <1>2 DEF PodInv, Progress, Schedule, Fresh, Kill, BuildImage, process
<1>3. QED
  BY <1>1, <1>2 DEF Next

LEMMA FromFramesStep ==
    ASSUME PodInv, [Next]_vars
    PROVE  [\A c \in Categories : weights[c] = "absent" /\ weights'[c] # "absent" => train[c]]_vars
<1> SUFFICES ASSUME Next, NEW c \in Categories, weights[c] = "absent", weights'[c] # "absent"
             PROVE  train[c]
  OBVIOUS
<1>1. Does("save") /\ c = current
  BY DEF PodInv, AnalyzerTypeOK, Next, Startup, Ensure, Fit, OpenFile, SaveFails,
     Save, Load, StartWatchers, Schedule, Kill, BuildImage, analyzer
<1>2. QED
  BY <1>1 DEF PodInv, Fitting

-----------------------------------------------------------------------------
(* The picks.                                                              *)

LEMMA NextQuotient ==
    \A k \in Nat \ {0}, a, n \in Nat :
        \/ /\ (a % k) + (n % k) < k
           /\ (a + n) \div k = (a \div k) + (n \div k)
           /\ (a + n) % k = (a % k) + (n % k)
        \/ /\ (a % k) + (n % k) >= k
           /\ (a + n) \div k = (a \div k) + (n \div k) + 1
           /\ (a + n) % k = (a % k) + (n % k) - k
<1> SUFFICES ASSUME NEW k \in Nat \ {0}, NEW a \in Nat, NEW n \in Nat
             PROVE  \/ /\ (a % k) + (n % k) < k
                       /\ (a + n) \div k = (a \div k) + (n \div k)
                       /\ (a + n) % k = (a % k) + (n % k)
                    \/ /\ (a % k) + (n % k) >= k
                       /\ (a + n) \div k = (a \div k) + (n \div k) + 1
                       /\ (a + n) % k = (a % k) + (n % k) - k
  OBVIOUS
<1> DEFINE d == a \div k
<1> DEFINE m == a % k
<1> DEFINE q == n \div k
<1> DEFINE r == n % k
<1>1. d \in Nat /\ m \in 0..(k - 1) /\ a = k * d + m
  BY DivMod
<1>2. q \in Nat /\ r \in 0..(k - 1) /\ n = k * q + r
  BY DivMod
<1> HIDE DEF d, m, q, r
<1>3. k * (d + q) = k * d + k * q /\ k * d \in Nat /\ k * q \in Nat
  BY <1>1, <1>2
<1>4. CASE m + r < k
  <2> DEFINE b == a + n
  <2> DEFINE e == m + r
  <2> DEFINE x == d + q
  <2>1. b = k * x + e /\ b \in Nat /\ x \in Nat /\ e \in Nat /\ e < k
    BY <1>1, <1>2, <1>3, <1>4
  <2> HIDE DEF b, e, x
  <2>2. b \div k = x /\ b % k = e
    BY <2>1, DivUnique
  <2>3. QED
    BY <1>4, <2>2 DEF d, m, q, r, b, e, x
<1>5. CASE m + r >= k
  <2> DEFINE e == m + r - k
  <2> DEFINE x == d + q + 1
  <2>1. k * x = k * (d + q) + k
    BY <1>1, <1>2, TimesNext
  <2> DEFINE b == a + n
  <2>2. b = k * x + e /\ b \in Nat /\ x \in Nat /\ e \in Nat /\ e < k
    BY <1>1, <1>2, <1>3, <1>5, <2>1
  <2> HIDE DEF b, x, e
  <2>3. b \div k = x /\ b % k = e
    BY <2>2, DivUnique
  <2>4. QED
    BY <1>5, <2>3 DEF d, m, q, r, b, x, e
<1>6. m + r < k \/ m + r >= k
  BY <1>1, <1>2
<1>7. QED
  BY <1>4, <1>5, <1>6

LEMMA RoundedUp ==
    \A k \in Nat \ {0}, n \in Nat :
        (n + k - 1) \div k = IF n % k = 0 THEN n \div k ELSE (n \div k) + 1
<1> SUFFICES ASSUME NEW k \in Nat \ {0}, NEW n \in Nat
             PROVE  (n + k - 1) \div k = IF n % k = 0 THEN n \div k ELSE (n \div k) + 1
  OBVIOUS
<1> DEFINE q == n \div k
<1> DEFINE r == n % k
<1>1. q \in Nat /\ r \in 0..(k - 1) /\ n = k * q + r
  BY DivMod
<1> HIDE DEF q, r
<1>2. CASE r = 0
  <2>1. n + k - 1 = k * q + (k - 1) /\ k - 1 \in Nat
    BY <1>1, <1>2
  <2>2. (n + k - 1) \div k = q
    BY <1>1, <2>1, DivUnique
  <2>3. QED
    BY <1>2, <2>2 DEF q, r
<1>3. CASE r # 0
  <2> DEFINE e == r - 1
  <2> DEFINE x == q + 1
  <2>1. n + k - 1 = k * x + e /\ e \in Nat /\ e < k /\ x \in Nat
    <3>1. k * x = k * q + k
      BY <1>1, TimesNext
    <3>2. QED
      BY <1>1, <1>3, <3>1
  <2> HIDE DEF x, e
  <2>2. (n + k - 1) \div k = x
    BY <2>1, DivUnique
  <2>3. QED
    BY <1>3, <2>2 DEF q, r, x
<1>4. QED
  BY <1>2, <1>3

\* As a pick is worked out: i * (n / count), rounded down once, sometimes twice.
Place(n, count, i) ==
    (i * n) \div count - (IF <<i, n, count>> \in RoundedDown THEN 1 ELSE 0)

LEMMA PicksSome ==
    ASSUME NEW n \in Nat, NEW count \in Nat, count < n
    PROVE  /\ DOMAIN EvenlySpaced(n, count) = 0..(count - 1)
           /\ \A i \in 0..(count - 1) : EvenlySpaced(n, count)[i] = Place(n, count, i)
<1>1. \A i \in 0..(count - 1) : (i * n) \div count \in Nat
  <2> SUFFICES ASSUME NEW i \in 0..(count - 1) PROVE (i * n) \div count \in Nat
    OBVIOUS
  <2>1. i * n \in Nat /\ count \in Nat \ {0}
    OBVIOUS
  <2>2. QED
    BY <2>1, DivMod
<1>2. ~(count >= n)
  OBVIOUS
<1>3. \A i \in 0..(count - 1) : EvenlySpaced(n, count)[i] = Place(n, count, i)
  <2> SUFFICES ASSUME NEW i \in 0..(count - 1)
               PROVE  EvenlySpaced(n, count)[i] = Place(n, count, i)
    OBVIOUS
  <2>1. EvenlySpaced(n, count)[i] = IF <<i, n, count>> \in RoundedDown
                                    THEN (i * n) \div count - 1 ELSE (i * n) \div count
    BY <1>2 DEF EvenlySpaced
  <2> DEFINE d == (i * n) \div count
  <2>2. d \in Nat
    BY <1>1
  <2> HIDE DEF d
  <2>3. d - 0 = d
    BY <2>2
  <2>4. QED
    BY <2>1, <2>3 DEF Place, d
<1>4. QED
  BY <1>2, <1>3 DEF EvenlySpaced

LEMMA PicksAll ==
    ASSUME NEW n \in Nat, NEW count \in Nat, count >= n
    PROVE  /\ DOMAIN EvenlySpaced(n, count) = 0..(n - 1)
           /\ \A i \in 0..(n - 1) : EvenlySpaced(n, count)[i] = i
BY DEF EvenlySpaced

\* Only a product that is whole, of a step that is not, comes out one less.
LEMMA RoundsDown ==
    ASSUME NEW n \in Nat, NEW k \in Nat, NEW i \in Nat, <<i, n, k>> \in RoundedDown
    PROVE  i # 0 /\ k # 0 /\ (i * n) % k = 0 /\ n % k # 0
<1> DEFINE p == <<i, n, k>>
<1>1. p[1] = i /\ p[2] = n /\ p[3] = k
  OBVIOUS
<1>2. p \in (Nat \ {0}) \X Nat \X (Nat \ {0})
  BY CurationAssumption
<1>3. (p[1] * p[2]) % p[3] = 0 /\ p[2] % p[3] # 0
  BY CurationAssumption
<1>4. QED
  BY <1>1, <1>2, <1>3

LEMMA PlaceInList ==
    ASSUME NEW n \in Nat, NEW k \in Nat, k < n, NEW i \in 0..(k - 1)
    PROVE  Place(n, k, i) \in 0..(n - 1)
<1> DEFINE a == i * n
<1> DEFINE d == a \div k
<1>1. i \in Nat /\ k \in Nat \ {0} /\ a \in Nat
  OBVIOUS
<1>2. d \in Nat /\ a % k \in 0..(k - 1) /\ a = k * d + (a % k)
  BY <1>1, DivMod
<1>3. a < k * n
  <2>1. i + 1 <= k /\ n * (i + 1) <= n * k
    BY <1>1, TimesGrows
  <2>2. n * (i + 1) = n * i + n /\ n * i = a /\ n * k = k * n
    BY <1>1, TimesNext
  <2>3. QED
    BY <1>1, <2>1, <2>2
<1>4. <<i, n, k>> \in RoundedDown => d # 0
  <2> SUFFICES ASSUME <<i, n, k>> \in RoundedDown, d = 0 PROVE FALSE
    OBVIOUS
  <2>1. i # 0 /\ a % k = 0
    BY <1>1, RoundsDown
  <2>2. a = 0
    BY <1>1, <1>2, <2>1
  <2>3. n * 1 <= n * i /\ n * i = a
    BY <1>1, <2>1, TimesGrows
  <2>4. QED
    BY <2>2, <2>3
<1> HIDE DEF a
<1>5. d < n
  <2> SUFFICES ASSUME n <= d PROVE FALSE
    BY <1>2
  <2>1. k * n <= k * d
    BY <1>1, <1>2, TimesGrows
  <2>2. QED
    BY <1>1, <1>2, <1>3, <2>1
<1> HIDE DEF d
<1>6. Place(n, k, i) = d - (IF <<i, n, k>> \in RoundedDown THEN 1 ELSE 0)
  BY DEF Place, d, a
<1>7. QED
  BY <1>2, <1>4, <1>5, <1>6

\* From one pick to the next it is the step, rounded down or up.
LEMMA PlaceSteps ==
    ASSUME NEW n \in Nat, NEW k \in Nat, k < n, NEW i \in Nat, i + 1 < k
    PROVE  Place(n, k, i + 1) - Place(n, k, i) \in (n \div k)..((n + k - 1) \div k)
<1> DEFINE a == i * n
<1> DEFINE q == n \div k
<1> DEFINE r == n % k
<1> DEFINE d == a \div k
<1> DEFINE m == a % k
<1> DEFINE d1 == ((i + 1) * n) \div k
<1> DEFINE m1 == ((i + 1) * n) % k
<1> DEFINE up == (n + k - 1) \div k
<1> DEFINE here == <<i, n, k>> \in RoundedDown
<1> DEFINE there == <<i + 1, n, k>> \in RoundedDown
<1>1. a \in Nat /\ k \in Nat \ {0} /\ (i + 1) * n = a + n
  OBVIOUS
<1>2. d \in Nat /\ m \in 0..(k - 1) /\ q \in Nat /\ r \in 0..(k - 1)
  BY <1>1, DivMod
<1>3. \/ m + r < k /\ d1 = d + q /\ m1 = m + r
      \/ m + r >= k /\ d1 = d + q + 1 /\ m1 = m + r - k
  <2>1. \/ m + r < k /\ (a + n) \div k = d + q /\ (a + n) % k = m + r
        \/ m + r >= k /\ (a + n) \div k = d + q + 1 /\ (a + n) % k = m + r - k
    BY <1>1, NextQuotient
  <2>2. d1 = (a + n) \div k /\ m1 = (a + n) % k
    BY <1>1
  <2> HIDE DEF d1, m1
  <2>3. QED
    BY <2>1, <2>2
<1>4. up = IF r = 0 THEN q ELSE q + 1
  BY <1>1, RoundedUp
<1>5. (here => m = 0 /\ r # 0) /\ (there => m1 = 0 /\ r # 0)
  BY <1>1, RoundsDown
<1>6. /\ Place(n, k, i) = d - (IF here THEN 1 ELSE 0)
      /\ Place(n, k, i + 1) = d1 - (IF there THEN 1 ELSE 0)
  BY DEF Place
<1> HIDE DEF q, r, d, m, d1, m1, up, here, there
<1>7. (d1 - (IF there THEN 1 ELSE 0)) - (d - (IF here THEN 1 ELSE 0)) \in q..up
  BY <1>2, <1>3, <1>4, <1>5
<1>8. QED
  BY <1>6, <1>7 DEF q, up

\* The last pick is a step from the end.
LEMMA PlaceLast ==
    ASSUME NEW n \in Nat, NEW k \in Nat \ {0}, k < n
    PROVE  n - Place(n, k, k - 1) \in 1..((n + k - 1) \div k)
<1> DEFINE i == k - 1
<1> DEFINE a == i * n
<1> DEFINE q == n \div k
<1> DEFINE r == n % k
<1> DEFINE d == a \div k
<1> DEFINE m == a % k
<1> DEFINE b == a + n
<1> DEFINE up == (n + k - 1) \div k
<1>1. i \in Nat /\ a \in Nat
  OBVIOUS
<1>2. b = k * n + 0 /\ b \in Nat
  OBVIOUS
<1> HIDE DEF b
<1>3. b \div k = n /\ b % k = 0
  BY <1>2, DivUnique
<1>4. d \in Nat /\ m \in 0..(k - 1) /\ q \in Nat /\ r \in 0..(k - 1)
  BY <1>1, DivMod
<1>5. \/ m + r < k /\ n = d + q /\ 0 = m + r
      \/ m + r >= k /\ n = d + q + 1 /\ 0 = m + r - k
  <2>1. \/ m + r < k /\ (a + n) \div k = d + q /\ (a + n) % k = m + r
        \/ m + r >= k /\ (a + n) \div k = d + q + 1 /\ (a + n) % k = m + r - k
    BY <1>1, NextQuotient
  <2>2. (a + n) \div k = n /\ (a + n) % k = 0
    BY <1>3 DEF b
  <2>3. QED
    BY <2>1, <2>2
<1>6. up = IF r = 0 THEN q ELSE q + 1
  BY RoundedUp
<1>7. <<i, n, k>> \in RoundedDown => m = 0 /\ r # 0
  BY <1>1, RoundsDown
<1>8. <<i, n, k>> \notin RoundedDown
  BY <1>4, <1>5, <1>7
<1>9. Place(n, k, i) = d - 0
  BY <1>8 DEF Place
<1>10. q # 0
  <2> SUFFICES ASSUME q = 0 PROVE FALSE
    OBVIOUS
  <2>1. n = k * q + r
    BY DivMod
  <2>2. n = r
    BY <1>4, <2>1
  <2>3. QED
    BY <1>4, <2>2
<1> HIDE DEF q, r, d, m, up, i
<1>11. n - (d - 0) \in 1..up
  BY <1>4, <1>5, <1>6, <1>10
<1>12. QED
  BY <1>9, <1>11 DEF up, i

LEMMA DirType ==
    ASSUME NEW c \in Calls, NEW dir \in Dirs
    PROVE  /\ Sources[dir[2]] \in Nat /\ c.count[dir[2]] \in Nat
           /\ Number(dir, c) \in Nat /\ Number(dir, c) <= Sources[dir[2]]
<1>1. dir[2] \in Labels
  BY DEF Dirs
<1>2. Sources[dir[2]] \in Nat /\ c.count[dir[2]] \in Nat
  BY <1>1, CurationAssumption
<1>3. QED
  BY <1>2 DEF Number, Wanted

LEMMA PicksShape ==
    ASSUME NEW c \in Calls, NEW dir \in Dirs
    PROVE  /\ Picks(dir, c) = {PickOf(dir, c, i) : i \in 0..(Number(dir, c) - 1)}
           /\ \A i \in 0..(Number(dir, c) - 1) : PickOf(dir, c, i)[3] \in 0..(Sources[dir[2]] - 1)
<1> DEFINE n == Sources[dir[2]]
<1> DEFINE count == c.count[dir[2]]
<1> DEFINE p == EvenlySpaced(n, count)
<1>1. n \in Nat /\ count \in Nat
  BY DirType
<1> HIDE DEF n, count
<1>2. DOMAIN p = 0..(Wanted(n, count) - 1) /\ \A i \in DOMAIN p : p[i] \in 0..(n - 1)
  <2>1. CASE count >= n
    BY <1>1, <2>1, PicksAll DEF Wanted
  <2>2. CASE ~(count >= n)
    <3>1. count < n
      BY <1>1, <2>2
    <3>2. QED
      BY <1>1, <2>2, <3>1, PicksSome, PlaceInList DEF Wanted
  <2>3. QED
    BY <2>1, <2>2
<1>3. Picks(dir, c) = {<<dir, i, p[i]>> : i \in DOMAIN p}
  BY DEF Picks, n, count
<1>4. Number(dir, c) = Wanted(n, count)
  BY DEF Number, n, count
<1>5. \A i : PickOf(dir, c, i) = <<dir, i, p[i]>>
  BY DEF PickOf, n, count
<1> HIDE DEF p
<1>6. QED
  BY <1>2, <1>3, <1>4, <1>5 DEF n

LEMMA PickNumber ==
    \A dir, c, i : PickOf(dir, c, i)[1] = dir /\ PickOf(dir, c, i)[2] = i
BY DEF PickOf

LEMMA PrefixCounts ==
    ASSUME NEW c \in Calls, NEW dir \in Dirs, NEW w \in 0..Number(dir, c)
    PROVE  IsFiniteSet(Prefix(dir, c, w)) /\ Cardinality(Prefix(dir, c, w)) = w
<1> DEFINE g == [i \in 0..(w - 1) |-> PickOf(dir, c, i)]
<1>1. Number(dir, c) \in Nat /\ w \in Nat
  BY DirType
<1>2. Prefix(dir, c, w) = {PickOf(dir, c, i) : i \in 0..(w - 1)}
  BY <1>1, PicksShape, PickNumber DEF Prefix
<1>3. g \in Surjection(0..(w - 1), Prefix(dir, c, w))
  BY <1>2 DEF Surjection
<1>4. g \in Injection(0..(w - 1), Prefix(dir, c, w))
  BY <1>2, PickNumber DEF Injection, IsInjective
<1>5. ExistsBijection(0..(w - 1), Prefix(dir, c, w))
  BY <1>3, <1>4 DEF ExistsBijection, Bijection
<1>6. IsFiniteSet(0..(w - 1)) /\ Cardinality(0..(w - 1)) = w
  <2>1. Cardinality(0..(w - 1)) = IF 0 > w - 1 THEN 0 ELSE (w - 1) - 0 + 1
    BY <1>1, FS_Interval
  <2>2. IsFiniteSet(0..(w - 1))
    BY <1>1, FS_Interval
  <2>3. QED
    BY <1>1, <2>1, <2>2
<1>7. QED
  BY <1>5, <1>6, FS_Bijection

LEMMA PrefixGrows ==
    ASSUME NEW c \in Calls, NEW dir \in Dirs, NEW w \in Nat, w < Number(dir, c)
    PROVE  /\ {f \in Picks(dir, c) : f[2] = w} = {PickOf(dir, c, w)}
           /\ Prefix(dir, c, w + 1) = Prefix(dir, c, w) \cup {PickOf(dir, c, w)}
<1>1. Number(dir, c) \in Nat
  BY DirType
<1>2. \A i \in 0..(Number(dir, c) - 1) : i < w + 1 <=> i < w \/ i = w
  BY <1>1
<1>3. w \in 0..(Number(dir, c) - 1)
  BY <1>1
<1>4. QED
  BY <1>2, <1>3, PicksShape, PickNumber DEF Prefix

LEMMA PrefixEnds ==
    ASSUME NEW c \in Calls, NEW dir \in Dirs
    PROVE  /\ Prefix(dir, c, 0) = {}
           /\ Prefix(dir, c, Number(dir, c)) = Picks(dir, c)
           /\ {f \in Picks(dir, c) : f[2] = Number(dir, c)} = {}
<1>1. Number(dir, c) \in Nat
  BY DirType
<1>2. \A i \in 0..(Number(dir, c) - 1) : ~(i < 0) /\ i < Number(dir, c) /\ i # Number(dir, c)
  BY <1>1
<1>3. QED
  BY <1>2, PicksShape, PickNumber DEF Prefix

LEMMA PicksSpread ==
    ASSUME NEW c \in Calls, NEW dir \in Dirs, NEW f \in Picks(dir, c)
    PROVE  LET n     == Sources[dir[2]]
               k     == Cardinality(Picks(dir, c))
               least == n \div k
               most  == (n + k - 1) \div k
           IN  /\ f[2] = 0 => f[3] = 0
               /\ f[2] = k - 1 => n - f[3] \in 1..most
               /\ \A g \in Picks(dir, c) : g[2] = f[2] + 1 => g[3] - f[3] \in least..most
<1> DEFINE n == Sources[dir[2]]
<1> DEFINE count == c.count[dir[2]]
<1> DEFINE k == Number(dir, c)
<1>1. n \in Nat /\ count \in Nat /\ k \in Nat /\ k = Wanted(n, count)
  BY DirType DEF Number
<1>2. Cardinality(Picks(dir, c)) = k
  BY <1>1, PrefixEnds, PrefixCounts
<1>3. \A e \in Picks(dir, c) : \E i \in 0..(k - 1) :
         e[1] = dir /\ e[2] = i /\ e[3] = EvenlySpaced(n, count)[i]
  BY PicksShape DEF PickOf
<1> HIDE DEF n, count, k
<1>4. \A e \in Picks(dir, c) : e[2] \in 0..(k - 1) /\ e[3] = EvenlySpaced(n, count)[e[2]]
  BY <1>3
<1>5. k # 0
  BY <1>1, <1>4
<1> SUFFICES /\ f[2] = 0 => f[3] = 0
             /\ f[2] = k - 1 => n - f[3] \in 1..((n + k - 1) \div k)
             /\ \A g \in Picks(dir, c) :
                   g[2] = f[2] + 1 => g[3] - f[3] \in (n \div k)..((n + k - 1) \div k)
  BY <1>2 DEF n
<1>6. CASE count >= n
  <2>1. k = n /\ \A e \in Picks(dir, c) : e[3] = e[2] /\ e[2] \in 0..(n - 1)
    BY <1>1, <1>4, <1>6, PicksAll DEF Wanted
  <2>2. n \div n = 1 /\ n % n = 0
    BY <1>1, <1>5, <2>1, DivUnique, n = n * 1 + 0
  <2>3. (n + n - 1) \div n = 1
    BY <1>1, <1>5, <2>1, <2>2, RoundedUp
  <2>4. QED
    BY <1>1, <2>1, <2>2, <2>3
<1>7. CASE ~(count >= n)
  <2>1. count < n /\ k = count
    BY <1>1, <1>7 DEF Wanted
  <2>2. \A e \in Picks(dir, c) : e[2] \in 0..(k - 1) /\ e[3] = Place(n, k, e[2])
    <3>1. \A i \in 0..(k - 1) : EvenlySpaced(n, k)[i] = Place(n, k, i)
      BY <1>1, <2>1, PicksSome
    <3>2. QED
      BY <1>4, <2>1, <3>1
  <2>3. Place(n, k, 0) = 0
    <3>1. <<0, n, k>> \notin RoundedDown
      BY <1>1, RoundsDown
    <3>2. (0 * n) \div k = 0
      BY <1>1, <1>5, DivUnique, 0 * n = k * 0 + 0
    <3>3. QED
      BY <3>1, <3>2 DEF Place
  <2>4. n - Place(n, k, k - 1) \in 1..((n + k - 1) \div k)
    BY <1>1, <1>5, <2>1, PlaceLast
  <2>5. ASSUME NEW g \in Picks(dir, c), g[2] = f[2] + 1
        PROVE  g[3] - f[3] \in (n \div k)..((n + k - 1) \div k)
    <3>1. f[2] \in Nat /\ f[2] + 1 < k
      BY <1>1, <2>2, <2>5
    <3>2. QED
      BY <1>1, <2>1, <2>2, <2>5, <3>1, PlaceSteps
  <2>6. QED
    BY <2>2, <2>3, <2>4, <2>5
<1>8. QED
  BY <1>6, <1>7

-----------------------------------------------------------------------------
(* The directories of a run.                                               *)

LEMMA Halves ==
    \A i, j \in Nat : (i + 1) \div 2 = (j + 1) \div 2 /\ i % 2 = j % 2 => i = j
OBVIOUS

LEMMA DirectoriesShape ==
    ASSUME NEW c \in Calls
    PROVE  /\ Directories(c.categories) \in Seq(Dirs) \ {<<>>}
           /\ Distinct(Directories(c.categories))
           /\ Among(Directories(c.categories)) = Asked(c)
           /\ Asked(c) \subseteq Dirs /\ Asked(c) # {}
<1> DEFINE s == c.categories
<1> DEFINE d == Directories(s)
<1> DEFINE n == Len(s)
<1>1. s \in Seq(Categories) /\ n \in Nat \ {0} /\ Distinct(s)
  BY CurationAssumption, EmptySeq
<1>2. \A k \in 1..n : s[k] \in Categories
  BY <1>1, ElementOfSeq
<1> HIDE DEF s
<1>3. d = [k \in 1..(2 * n) |->
             <<s[(k + 1) \div 2], IF k % 2 = 1 THEN "normal" ELSE "anomaly">>]
  BY DEF Directories
<1>4. \A k \in 1..(2 * n) : (k + 1) \div 2 \in 1..n /\ k % 2 \in {0, 1}
  BY <1>1
<1>5. d \in [1..(2 * n) -> Dirs]
  BY <1>2, <1>3, <1>4 DEF Dirs, Labels
<1>6. 2 * n \in Nat
  BY <1>1
<1>7. d \in Seq(Dirs)
  BY <1>5, <1>6, SeqDef
<1>8. Len(d) = 2 * n
  <2>1. DOMAIN d = 1..Len(d) /\ Len(d) \in Nat
    BY <1>7, LenProperties
  <2>2. DOMAIN d = 1..(2 * n)
    BY <1>5
  <2> DEFINE a == Len(d)
  <2> DEFINE b == 2 * n
  <2>3. a \in Nat /\ b \in Nat /\ b # 0
    BY <1>1, <1>6, <2>1
  <2>4. 1..a = 1..b
    BY <2>1, <2>2, Zenon
  <2> HIDE DEF a, b
  <2>5. a = b
    BY <2>3, <2>4
  <2>6. QED
    BY <2>5 DEF a, b
<1>9. Distinct(d)
  <2> SUFFICES ASSUME NEW i \in 1..(2 * n), NEW j \in 1..(2 * n), d[i] = d[j]
               PROVE  i = j
    BY <1>8 DEF Distinct
  <2>1. s[(i + 1) \div 2] = s[(j + 1) \div 2] /\ (i % 2 = 1 <=> j % 2 = 1)
    BY <1>3
  <2>2. (i + 1) \div 2 = (j + 1) \div 2
    BY <1>1, <1>4, <2>1 DEF Distinct
  <2>3. i % 2 = j % 2
    BY <1>4, <2>1
  <2>4. i \in Nat /\ j \in Nat
    BY <1>6
  <2>5. QED
    BY <2>2, <2>3, <2>4, Halves
<1>10. Among(d) = Among(s) \X Labels
  <2>1. ASSUME NEW k \in 1..(2 * n) PROVE d[k] \in Among(s) \X Labels
    BY <1>3, <1>4 DEF Among, Labels
  <2>2. ASSUME NEW k \in 1..n, NEW l \in Labels PROVE \E i \in 1..(2 * n) : d[i] = <<s[k], l>>
    <3>1. CASE l = "normal"
      <4> DEFINE i == 2 * k - 1
      <4>1. i \in 1..(2 * n) /\ (i + 1) \div 2 = k /\ i % 2 = 1
        BY <1>1
      <4> HIDE DEF i
      <4>2. d[i] = <<s[k], l>>
        BY <1>3, <3>1, <4>1
      <4>3. QED
        BY <4>1, <4>2
    <3>2. CASE l = "anomaly"
      <4> DEFINE i == 2 * k
      <4>1. i \in 1..(2 * n) /\ (i + 1) \div 2 = k /\ i % 2 = 0
        BY <1>1
      <4> HIDE DEF i
      <4>2. d[i] = <<s[k], l>>
        BY <1>3, <3>2, <4>1
      <4>3. QED
        BY <4>1, <4>2
    <3>3. QED
      BY <3>1, <3>2 DEF Labels
  <2> HIDE DEF d
  <2>3. Among(d) = {d[i] : i \in 1..(2 * n)}
    BY <1>8 DEF Among
  <2>4. ASSUME NEW x \in Among(s) \X Labels PROVE x \in Among(d)
    <3>1. PICK k \in 1..n, l \in Labels : x = <<s[k], l>>
      BY DEF Among
    <3>2. QED
      BY <2>2, <2>3, <3>1
  <2>5. QED
    BY <2>1, <2>3, <2>4
<1>11. Among(s) \subseteq Categories /\ Among(s) # {}
  BY <1>1, <1>2 DEF Among
<1>12. d # <<>>
  BY <1>1, <1>6, <1>8, EmptySeq
<1>13. Asked(c) = Among(s) \X Labels
  BY DEF Asked, s
<1>14. Among(s) \X Labels \subseteq Dirs /\ Among(s) \X Labels # {}
  <2>1. PICK x : x \in Among(s)
    BY <1>11
  <2>2. <<x, "normal">> \in Among(s) \X Labels
    BY <2>1 DEF Labels
  <2>3. QED
    BY <1>11, <2>2 DEF Dirs
<1> HIDE DEF d
<1>15. d \in Seq(Dirs) \ {<<>>} /\ Distinct(d) /\ Among(d) = Asked(c)
  BY <1>7, <1>9, <1>10, <1>12, <1>13
<1>16. QED
  BY <1>13, <1>14, <1>15 DEF d, s

LEMMA TailAmong ==
    ASSUME NEW t \in Seq(Dirs), t # <<>>, Distinct(t)
    PROVE  /\ Head(t) \in Among(t) /\ Head(t) \in Dirs
           /\ Tail(t) \in Seq(Dirs) /\ Distinct(Tail(t))
           /\ Among(Tail(t)) = Among(t) \ {Head(t)}
<1>1. /\ Len(t) \in Nat \ {0} /\ Head(t) = t[1] /\ Head(t) \in Dirs
      /\ Tail(t) \in Seq(Dirs) /\ Len(Tail(t)) = Len(t) - 1
      /\ \A i \in 1..(Len(t) - 1) : Tail(t)[i] = t[i + 1]
  BY EmptySeq, HeadTailProperties
<1>2. \A i \in 1..Len(t) : i # 1 => t[i] # t[1]
  BY <1>1 DEF Distinct
<1>3. Distinct(Tail(t))
  BY <1>1 DEF Distinct
<1>4. Among(Tail(t)) = Among(t) \ {Head(t)}
  <2>1. ASSUME NEW i \in 1..(Len(t) - 1) PROVE Tail(t)[i] \in Among(t) \ {t[1]}
    BY <1>1, <1>2 DEF Among
  <2>2. ASSUME NEW i \in 1..Len(t), t[i] # t[1]
        PROVE  i - 1 \in 1..(Len(t) - 1) /\ Tail(t)[i - 1] = t[i]
    BY <1>1, <2>2
  <2>3. Among(Tail(t)) = {Tail(t)[i] : i \in 1..(Len(t) - 1)}
    BY <1>1 DEF Among
  <2>4. ASSUME NEW x \in Among(t) \ {t[1]} PROVE x \in Among(Tail(t))
    <3>1. PICK i \in 1..Len(t) : x = t[i] /\ t[i] # t[1]
      BY DEF Among
    <3>2. QED
      BY <2>2, <2>3, <3>1
  <2>5. QED
    BY <1>1, <2>1, <2>3, <2>4
<1>5. QED
  BY <1>1, <1>3, <1>4 DEF Among

LEMMA PickType ==
    ASSUME NEW c \in Calls, NEW dir \in Dirs, NEW f \in Picks(dir, c)
    PROVE  f \in Dirs \X Nat \X Nat /\ f[1] = dir /\ f[3] < Sources[dir[2]]
<1>1. Number(dir, c) \in Nat /\ Sources[dir[2]] \in Nat
  BY DirType
<1>2. PICK i \in 0..(Number(dir, c) - 1) : f = PickOf(dir, c, i)
  BY PicksShape
<1>3. PickOf(dir, c, i)[3] \in 0..(Sources[dir[2]] - 1)
  BY PicksShape
<1>4. QED
  BY <1>1, <1>2, <1>3 DEF PickOf

\* What a run to its end selects are the picks of the directories asked for.
LEMMA SelectionShape ==
    ASSUME NEW c \in Calls
    PROVE  /\ Selection(c) = UNION {Picks(dir, c) : dir \in Asked(c)}
           /\ \A f \in Selection(c) : f[1] \in Asked(c) /\ f \in Picks(f[1], c)
<1>1. /\ Asked(c) \subseteq Dirs
      /\ Among(Directories(c.categories)) = Asked(c)
      /\ Directories(c.categories) \in Seq(Dirs)
  BY DirectoriesShape
<1>2. DOMAIN Directories(c.categories) = 1..Len(Directories(c.categories))
  BY <1>1, LenProperties
<1>3. Selection(c) = UNION {Picks(dir, c) : dir \in Asked(c)}
  BY <1>1, <1>2 DEF Selection, Among
<1>4. QED
  BY <1>1, <1>3, PickType

-----------------------------------------------------------------------------
(* A run.                                                                  *)

\* The files of the categories of a run are those in the directories it asks for.
LEMMA FilesAsked ==
    ASSUME NEW c \in Calls, NEW F, \A f \in F : FileType(f)
    PROVE  \A f \in F : f \in Of(c, F) <=> f[1] \in Asked(c)
<1> SUFFICES ASSUME NEW f \in F PROVE f \in Of(c, F) <=> f[1] \in Asked(c)
  OBVIOUS
<1>1. f[1] \in Dirs
  BY DEF FileType
<1>2. f[1] = <<f[1][1], f[1][2]>> /\ f[1][2] \in Labels
  BY <1>1 DEF Dirs
<1>3. f[1] \in Asked(c) <=> f[1][1] \in Among(c.categories)
  BY <1>2 DEF Asked
<1>4. QED
  BY <1>3 DEF Of, Among

LEMMA HeadDir ==
    ASSUME Running, todo # <<>>
    PROVE  Head(todo) \in Dirs /\ Head(todo) \in Among(todo) /\ Head(todo) \in Asked(call)
BY TailAmong DEF Running

LEMMA StopInv ==
    ASSUME CurationInv, Stop, UNCHANGED <<frames, manifest, last>> PROVE CurationInv'
BY DEF CurationInv, CurationTypeOK, ManifestIsExact, Of, Stop

LEMMA BeginRunInv == ASSUME CurationInv, Begin PROVE CurationInv'
<1>1. CurationTypeOK' /\ ManifestIsExact'
  BY DEF CurationInv, CurationTypeOK, ManifestIsExact, Of, Begin
<1>2. PICK c \in Calls : call' = c /\ todo' = Directories(c.categories)
  BY DEF Begin
<1>3. /\ todo' \in Seq(Dirs) /\ Distinct(todo') /\ todo' # <<>>
      /\ Among(todo') = Asked(call')
  BY <1>2, DirectoriesShape
<1>4. rows' = {} /\ step' = "pick"
  BY DEF Begin
<1>5. Running'
  BY <1>2, <1>3, <1>4 DEF Running, RowsIn, Doing
<1>6. QED
  BY <1>1, <1>5 DEF CurationInv

LEMMA PickInv == ASSUME CurationInv, Pick PROVE CurationInv'
<1>1. CASE Stop
  BY <1>1, StopInv DEF Pick
<1>2. CASE step' = "clear" /\ UNCHANGED <<call, todo, rows>>
  <2>1. CurationTypeOK' /\ ManifestIsExact'
    BY <1>2 DEF CurationInv, CurationTypeOK, ManifestIsExact, Of, Pick
  <2>2. Running'
    BY <1>2 DEF CurationInv, Running, RowsIn, Doing, InDir, Pick
  <2>3. QED
    BY <2>1, <2>2 DEF CurationInv
<1>3. QED
  BY <1>1, <1>2 DEF Pick

LEMMA ClearInv == ASSUME CurationInv, Clear PROVE CurationInv'
<1>1. Running /\ todo # <<>> /\ step = "clear"
  BY DEF CurationInv, Running, Clear
<1>2. Head(todo) \in Among(todo) /\ Head(todo) \in Dirs
  BY <1>1, HeadDir
<1>3. last' = NoCall /\ UNCHANGED <<manifest, call, todo, rows>>
  BY DEF Clear
<1>4. CurationTypeOK' /\ ManifestIsExact'
  BY <1>3 DEF CurationInv, CurationTypeOK, ManifestIsExact, Clear
<1>5. \A dir : dir # Head(todo) => InDir(dir)' = InDir(dir)
  BY DEF Clear, InDir
<1>6. CASE UNCHANGED step
  <2>1. Running'
    BY <1>1, <1>2, <1>3, <1>5, <1>6 DEF Running, RowsIn, Doing
  <2>2. QED
    BY <1>4, <2>1 DEF CurationInv
<1>7. CASE step' = "write" /\ InDir(Head(todo)) = {} /\ UNCHANGED frames
  <2>1. /\ RowsIn(Head(todo)) = {}
        /\ Prefix(Head(todo), call, 0) = {} /\ 0 \in 0..Number(Head(todo), call)
    BY <1>1, <1>2, PrefixEnds, DirType DEF Running, Doing
  <2>2. QED
    BY <1>1, <1>2, <1>3, <1>4, <1>5, <1>7, <2>1 DEF CurationInv, Running, RowsIn,
       Doing, InDir
<1>8. QED
  BY <1>6, <1>7 DEF Clear

LEMMA WriteInv == ASSUME CurationInv, Write PROVE CurationInv'
<1>1. Running /\ todo # <<>> /\ step = "write" /\ last = NoCall /\ call \in Calls
  BY DEF CurationInv, Running, Write
<1>2. PICK h \in Dirs : h = Head(todo) /\ h \in Among(todo) /\ h \in Asked(call)
  BY <1>1, HeadDir
<1>3. PICK w \in 0..Number(h, call) :
        RowsIn(h) = Prefix(h, call, w) /\ InDir(h) = Prefix(h, call, w)
  BY <1>1, <1>2 DEF Running
<1>4. Number(h, call) \in Nat /\ w \in Nat
  BY <1>1, <1>2, DirType
<1>5. Cardinality({r \in rows : r[1] = h}) = w
  <2>1. Cardinality(RowsIn(h)) = w
    BY <1>1, <1>3, PrefixCounts
  <2>2. QED
    BY <2>1 DEF RowsIn
<1> DEFINE next == {f \in Picks(h, call) : f[2] = w}
<1>6. /\ UNCHANGED <<manifest, call, last>>
      /\ IF next = {} THEN /\ todo' = Tail(todo) /\ step' = "pick"
                           /\ UNCHANGED <<frames, rows>>
         ELSE \E f \in next : /\ frames' = Put(f) /\ rows' = rows \cup {f}
                              /\ UNCHANGED <<todo, step>>
  BY <1>2, <1>5 DEF Write
<1>7. CASE w = Number(h, call)
  <2>1. next = {} /\ Prefix(h, call, w) = Picks(h, call)
    BY <1>1, <1>2, <1>7, PrefixEnds
  <2>2. todo' = Tail(todo) /\ step' = "pick" /\ UNCHANGED <<frames, rows, manifest, call, last>>
    BY <1>6, <2>1
  <2>3. /\ todo' \in Seq(Dirs) /\ Distinct(todo')
        /\ Among(todo') = Among(todo) \ {h}
    BY <1>1, <1>2, <2>2, TailAmong DEF Running
  <2>4. RowsIn(h) = Picks(h, call) /\ InDir(h) = Picks(h, call)
    BY <1>3, <2>1
  <2> HIDE DEF next
  <2>5. \A dir : RowsIn(dir)' = RowsIn(dir) /\ InDir(dir)' = InDir(dir)
    BY <2>2 DEF RowsIn, InDir
  <2>6. Doing' = {} /\ Doing = {h}
    BY <1>1, <1>2, <2>2 DEF Doing
  <2>7. Running'
    BY <1>1, <1>2, <2>2, <2>3, <2>4, <2>5, <2>6 DEF Running
  <2>8. CurationTypeOK' /\ ManifestIsExact'
    BY <2>2 DEF CurationInv, CurationTypeOK, ManifestIsExact, Of
  <2>9. QED
    BY <2>7, <2>8 DEF CurationInv
<1>8. CASE w # Number(h, call)
  <2>1. /\ w < Number(h, call) /\ w + 1 \in 0..Number(h, call)
    BY <1>4, <1>8
  <2>2. PICK f : /\ f = PickOf(h, call, w) /\ next = {f}
                 /\ Prefix(h, call, w + 1) = Prefix(h, call, w) \cup {f}
    BY <1>1, <1>2, <1>4, <2>1, PrefixGrows
  <2> HIDE DEF next
  <2>3. frames' = Put(f) /\ rows' = rows \cup {f}
        /\ UNCHANGED <<todo, step, manifest, call, last>>
    BY <1>6, <2>2
  <2>4. f[1] = h /\ f[2] = w /\ FileType(f)
    <3>1. f \in Picks(h, call)
      BY <2>2 DEF next
    <3>2. QED
      BY <1>1, <1>2, <2>2, <3>1, PickType, PickNumber DEF FileType
  <2>5. RowsIn(h)' = RowsIn(h) \cup {f} /\ \A dir : dir # h => RowsIn(dir)' = RowsIn(dir)
    BY <2>3, <2>4 DEF RowsIn
  <2>6. InDir(h)' = InDir(h) \cup {f} /\ \A dir : dir # h => InDir(dir)' = InDir(dir)
    <3>1. \A g \in InDir(h) : g[2] < w
      BY <1>3 DEF Prefix
    <3>2. \A g \in InDir(h) : g[2] # w
      <4> SUFFICES ASSUME NEW g \in InDir(h), g[2] = w PROVE FALSE
        OBVIOUS
      <4>1. w < w
        BY <3>1
      <4>2. QED
        BY <1>4, <4>1
    <3>3. QED
      BY <2>3, <2>4, <3>2 DEF InDir, Put
  <2>7. RowsIn(h)' = Prefix(h, call, w + 1) /\ InDir(h)' = Prefix(h, call, w + 1)
    BY <1>3, <2>2, <2>5, <2>6
  <2>8. Doing' = {h} /\ Doing = {h} /\ Head(todo) = h
    BY <1>1, <1>2, <2>3 DEF Doing
  <2>9. \A r \in rows' : r[1] \in Asked(call)
    BY <1>1, <1>2, <2>3, <2>4 DEF Running
  <2>10. Running'
    <3>1. \A dir \in Asked(call) \ Among(todo) :
             RowsIn(dir)' = Picks(dir, call) /\ InDir(dir)' = Picks(dir, call)
      BY <1>1, <1>2, <2>5, <2>6 DEF Running
    <3>2. \A dir \in Among(todo) \ {h} : RowsIn(dir)' = {}
      BY <1>1, <2>5, <2>8 DEF Running
    <3>3. \A dir, i : Prefix(dir, call, i)' = Prefix(dir, call, i)
                      /\ Number(dir, call)' = Number(dir, call)
                      /\ Picks(dir, call)' = Picks(dir, call)
      BY <2>3 DEF Prefix, Number, Picks
    <3>4. \E i \in 0..Number(h, call) :
             RowsIn(h)' = Prefix(h, call, i) /\ InDir(h)' = Prefix(h, call, i)
      BY <2>1, <2>7
    <3>5. QED
      BY <1>1, <2>3, <2>8, <2>9, <3>1, <3>2, <3>3, <3>4 DEF Running
  <2>11. CurationTypeOK' /\ ManifestIsExact'
    BY <1>1, <2>3, <2>4 DEF CurationInv, CurationTypeOK, ManifestIsExact, Put
  <2>12. QED
    BY <2>10, <2>11 DEF CurationInv
<1>9. QED
  BY <1>7, <1>8

LEMMA OpenManifestInv == ASSUME CurationInv, OpenManifest PROVE CurationInv'
<1>1. Running /\ todo = <<>> /\ call \in Calls
  BY DEF CurationInv, Running, OpenManifest
<1>2. Among(todo) = {}
  BY <1>1, EmptySeq DEF Among
<1>3. last = NoCall
  BY <1>1, <1>2, DirectoriesShape DEF Running
<1>4. CurationTypeOK' /\ ManifestIsExact'
  BY <1>3 DEF CurationInv, CurationTypeOK, ManifestIsExact, OpenManifest
<1>5. Running'
  BY <1>1, <1>2, <1>3 DEF Running, RowsIn, Doing, InDir, OpenManifest
<1>6. QED
  BY <1>4, <1>5 DEF CurationInv

LEMMA WriteManifestInv == ASSUME CurationInv, WriteManifest PROVE CurationInv'
<1>1. Running /\ todo = <<>> /\ call \in Calls
  BY DEF CurationInv, Running, WriteManifest
<1>2. Among(todo) = {}
  BY <1>1, EmptySeq DEF Among
<1>3. \A dir \in Asked(call) : RowsIn(dir) = Picks(dir, call) /\ InDir(dir) = Picks(dir, call)
  BY <1>1, <1>2 DEF Running
<1>4. rows = Selection(call)
  <2>1. \A r \in rows : r[1] \in Asked(call)
    BY <1>1 DEF Running
  <2>2. \A r \in rows : r \in Picks(r[1], call)
    BY <1>3, <2>1 DEF RowsIn
  <2>3. \A dir \in Asked(call) : Picks(dir, call) \subseteq rows
    BY <1>3 DEF RowsIn
  <2>4. QED
    BY <1>1, <2>1, <2>2, <2>3, SelectionShape
<1>5. Of(call, frames) = Selection(call)
  <2>1. \A f \in frames : f[1] \in Asked(call) => f \in Picks(f[1], call)
    BY <1>3 DEF InDir
  <2>2. \A dir \in Asked(call) : Picks(dir, call) \subseteq frames
    BY <1>3 DEF InDir
  <2>3. \A f \in frames : f \in Of(call, frames) <=> f[1] \in Asked(call)
    BY FilesAsked, <1>1 DEF CurationInv, CurationTypeOK
  <2>4. Of(call, frames) \subseteq frames
    BY DEF Of
  <2>5. QED
    BY <1>1, <2>1, <2>2, <2>3, <2>4, SelectionShape
<1>6. /\ manifest' = rows /\ last' = call /\ frames' = frames
      /\ step' = "idle" /\ rows' = {} /\ call' = NoCall
  BY DEF WriteManifest, Stop
<1>7. ManifestIsExact'
  BY <1>4, <1>5, <1>6 DEF ManifestIsExact, Of
<1>8. CurationTypeOK'
  BY <1>1, <1>6 DEF CurationInv, CurationTypeOK
<1>9. QED
  BY <1>6, <1>7, <1>8 DEF CurationInv

LEMMA CurationStutter == ASSUME CurationInv, UNCHANGED curating PROVE CurationInv'
BY DEF CurationInv, CurationTypeOK, ManifestIsExact, Of, Running, RowsIn, Doing, InDir,
   curating

LEMMA CurationStarts == CurationInit => CurationInv
<1> SUFFICES ASSUME CurationInit PROVE CurationInv
  OBVIOUS
<1>1. PICK c \in Calls : frames = Selection(c) /\ last = c
  BY DEF CurationInit
<1>2. /\ manifest = frames /\ rows = {} /\ step = "idle" /\ call = NoCall
  BY DEF CurationInit
<1>3. \A f \in Selection(c) : FileType(f)
  BY SelectionShape, PickType, DirectoriesShape DEF FileType
<1>4. \A f \in frames : f \in Of(c, frames)
  BY <1>1, <1>3, SelectionShape, FilesAsked
<1>5. Of(c, frames) = Selection(c)
  BY <1>1, <1>4 DEF Of
<1>6. CurationTypeOK /\ ManifestIsExact
  BY <1>1, <1>2, <1>3, <1>5 DEF CurationTypeOK, ManifestIsExact
<1>7. QED
  BY <1>2, <1>6 DEF CurationInv

LEMMA CurationStep == ASSUME CurationInv, [Next]_vars PROVE CurationInv'
<1>1. CASE Curate
  BY <1>1, BeginRunInv, PickInv, ClearInv, WriteInv, OpenManifestInv, WriteManifestInv,
     StopInv DEF Curate, Interrupt
<1>2. CASE UNCHANGED curating
  BY <1>2, CurationStutter
<1>3. QED
  BY <1>1, <1>2 DEF Next, BuildImage, vars

LEMMA FramesExact == ASSUME PodInv, CurationInv PROVE FramesAreExact
<1>1. TypeOK
  BY DEF PodInv, CurationInv, CurationTypeOK, FileType, TypeOK, Dirs
<1>2. SpreadAcrossTheList
  <2> SUFFICES ASSUME last # NoCall, NEW f \in Of(last, frames)
               PROVE  LET n     == Sources[f[1][2]]
                          k     == Cardinality(InDir(f[1]))
                          least == n \div k
                          most  == (n + k - 1) \div k
                      IN  /\ f[2] = 0 => f[3] = 0
                          /\ f[2] = k - 1 => n - f[3] \in 1..most
                          /\ \A g \in InDir(f[1]) :
                                g[2] = f[2] + 1 => g[3] - f[3] \in least..most
    BY DEF SpreadAcrossTheList
  <2>1. last \in Calls /\ Of(last, frames) = Selection(last)
    BY DEF CurationInv, CurationTypeOK, ManifestIsExact
  <2>2. PICK dir \in Dirs : dir = f[1] /\ dir \in Asked(last) /\ f \in Picks(dir, last)
    BY <2>1, SelectionShape, DirectoriesShape
  <2>3. InDir(dir) = Picks(dir, last)
    <3>1. \A g \in frames : g \in Of(last, frames) <=> g[1] \in Asked(last)
      BY <2>1, FilesAsked DEF CurationInv, CurationTypeOK
    <3>2. \A g \in InDir(dir) : g \in Picks(dir, last)
      BY <2>1, <2>2, <3>1, SelectionShape DEF InDir
    <3>3. \A g \in Picks(dir, last) : g \in Of(last, frames) /\ g[1] = dir
      BY <2>1, <2>2, SelectionShape, PickType
    <3>4. Of(last, frames) \subseteq frames
      BY DEF Of
    <3>5. QED
      BY <3>2, <3>3, <3>4 DEF InDir
  <2>4. QED
    BY <2>1, <2>2, <2>3, PicksSpread
<1>3. QED
  BY <1>1, <1>2 DEF CurationInv, FramesAreExact

-----------------------------------------------------------------------------
(* What holds for any lines, data set, command lines and number of cameras.*)

IInv == PodInv /\ CurationInv

THEOREM Invariance == Spec => []IInv
<1>1. Init => IInv
  BY PodInit, CurationStarts DEF Init, IInv
<1>2. IInv /\ [Next]_vars => IInv'
  BY PodStep, CurationStep DEF IInv
<1>3. QED
  BY <1>1, <1>2, PTL DEF Spec

\* The pod is Ready, and a stream watched, only with a model for every line, each
\* from a whole file, wherever earlier pods were killed.
THEOREM ModelsBehindReady == Spec => []ReadyWithEveryModel
<1>1. IInv => ReadyWithEveryModel
  BY DEF IInv, PodInv
<1>2. QED
  BY Invariance, <1>1, PTL

\* The cameras publish exactly as many streams as were asked for, and a pod that
\* serves watches those that are published, each for its own line.
THEOREM StreamsAddUp == Spec => []EveryStreamWatched
<1>1. IInv => EveryStreamWatched
  BY StreamsWatched DEF IInv
<1>2. QED
  BY Invariance, <1>1, PTL

\* A saved model is never fitted again nor spoiled, and none is saved for a line
\* without a good frame.
THEOREM EarnedModels == Spec => ModelsAreEarned
<1>1. IInv /\ [Next]_vars =>
        [\A c \in Categories : weights[c] = "whole" =>
            weights'[c] = "whole" /\ ~(task' = "fit" /\ current' = c)]_analyzer
  BY FittedOnceStep DEF IInv
<1>2. IInv /\ [Next]_vars =>
        [\A c \in Categories : weights[c] = "absent" /\ weights'[c] # "absent" => train[c]]_vars
  BY FromFramesStep DEF IInv
<1>3. QED
  BY Invariance, <1>1, <1>2, PTL DEF Spec, ModelsAreEarned, FittedOnce, NoModelFromNothing

\* After a run that went to its end the frames and the manifest are exactly what the
\* command line asks for, spread over the whole list, whatever earlier or interrupted
\* runs left and however the picks are rounded.
THEOREM FramesStayExact == Spec => []FramesAreExact
<1>1. IInv => FramesAreExact
  BY FramesExact DEF IInv
<1>2. QED
  BY Invariance, <1>1, PTL
=============================================================================
