--------------------------- MODULE ScheduleProofs ---------------------------
(***************************************************************************)
(* Facts about module Schedule, for every set of schedules that answers as *)
(* NextAssumption says, every cap of the scan and every pair of times.     *)
(***************************************************************************)
EXTENDS Schedule, FiniteSetTheorems, TLAPS

-----------------------------------------------------------------------------
(* What a schedule answers.                                                *)

\* A schedule that fires has its next tick after the time it is asked about.
LEMMA NextTick ==
    ASSUME NEW s \in Schedules, fires(s), NEW u \in Times
    PROVE  Next[s][u] \in Nat /\ Next[s][u] > u /\ Next[s][u] \in ticksOf(s)
<1>1. Next[s][u] \in Nat \cup {Zero} /\ Next[s][u] > u
    BY NextAssumption
<1>2. u >= 0 /\ Next[s][u] \in Nat /\ Next[s][u] # Zero
    BY <1>1, TimeAssumption DEF Times, Zero
<1> QED
    BY <1>1, <1>2 DEF ticksOf

\* One that never fires answers with the zero time, and has no ticks.
LEMMA NeverFires ==
    ASSUME NEW s \in Schedules, ~fires(s)
    PROVE  /\ \A u \in Times \cup {Zero} : Next[s][u] = Zero
           /\ ticksOf(s) = {}
BY NextAssumption DEF fires, ticksOf

\* The series of ticks after e is itself closed, and within every closed set of
\* ticks.
LEMMA SeriesClosed ==
    ASSUME NEW s \in Schedules, fires(s), NEW e \in Times
    PROVE  /\ series[s][e] \subseteq ticksOf(s)
           /\ closed(s, e, series[s][e])
           /\ \A T \in SUBSET ticksOf(s) : closed(s, e, T) => series[s][e] \subseteq T
<1>1. series[s][e] = {t \in ticksOf(s) : \A T \in SUBSET ticksOf(s) : closed(s, e, T) => t \in T}
    BY DEF series
<1>2. Next[s][e] \in series[s][e]
    BY <1>1, NextTick DEF closed
<1>3. ASSUME NEW t \in series[s][e] \cap Times PROVE Next[s][t] \in series[s][e]
    <2>1. ASSUME NEW T \in SUBSET ticksOf(s), closed(s, e, T) PROVE Next[s][t] \in T
        BY <1>1, <1>3, <2>1 DEF closed
    <2> QED
        BY <1>1, <1>3, <2>1, NextTick
<1> QED
    BY <1>1, <1>2, <1>3 DEF closed

\* Ticks are times, be it after MaxTime; one that never fires has no series.
LEMMA SeriesType ==
    ASSUME NEW s \in Schedules, NEW e \in Times
    PROVE  /\ ticksOf(s) \subseteq Nat
           /\ series[s][e] \subseteq ticksOf(s)
           /\ ~fires(s) => series[s][e] = {}
<1>1. ticksOf(s) \subseteq Nat
    BY NextAssumption DEF ticksOf
<1>2. series[s][e] \subseteq ticksOf(s)
    BY DEF series
<1> QED
    BY <1>1, <1>2, NeverFires

\* The series starts with the next tick after e, and so lies after e.
LEMMA SeriesStart ==
    ASSUME NEW s \in Schedules, fires(s), NEW e \in Times, NEW k \in series[s][e]
    PROVE  Next[s][e] <= k /\ e < k
<1> DEFINE T == {t \in ticksOf(s) : Next[s][e] <= t}
<1>1. Next[s][e] \in Nat /\ Next[s][e] > e
    BY NextTick
<1>2. closed(s, e, T)
    <2>1. Next[s][e] \in T
        BY <1>1, NextTick
    <2>2. ASSUME NEW t \in T \cap Times PROVE Next[s][t] \in T
        <3>1. Next[s][t] \in Nat /\ Next[s][t] > t /\ Next[s][t] \in ticksOf(s)
            BY NextTick
        <3> QED
            BY <1>1, <2>2, <3>1 DEF Times
    <2> QED
        BY <2>1, <2>2 DEF closed
<1>3. k \in T
    BY <1>2, SeriesClosed
<1> QED
    BY <1>1, <1>3, SeriesType, TimeAssumption DEF Times

\* A tick of the series after u is not before the next tick after u: none is
\* passed over.  (Every set that is closed holds the series; the ticks up to u
\* and those from the next tick after u on are closed, if no tick before u has
\* its next one after u, which in turn goes from tick to tick.)
LEMMA NoTickBetween ==
    ASSUME NEW s \in Schedules, fires(s), NEW e \in Times,
           NEW u \in Times, u \in series[s][e] \cup {e},
           NEW k \in series[s][e], u < k
    PROVE  Next[s][u] <= k
<1> DEFINE S == series[s][e]
           inOrder(t) == \A j \in S \cap Times : j < t => Next[s][j] <= t
           T == {t \in S : inOrder(t)}
<1>1. /\ S \subseteq ticksOf(s) /\ S \subseteq Nat /\ closed(s, e, S)
      /\ \A C \in SUBSET ticksOf(s) : closed(s, e, C) => S \subseteq C
      /\ \A t \in S : Next[s][e] <= t
    BY SeriesClosed, SeriesType, SeriesStart
<1>2. \A t \in S \cap Times : Next[s][t] \in S /\ Next[s][t] \in Nat /\ Next[s][t] > t
    BY <1>1, NextTick DEF closed
<1>3. Next[s][e] \in S /\ Next[s][e] \in Nat
    BY <1>1, NextTick DEF closed
<1> HIDE DEF S
<1>4. ASSUME NEW t \in T \cap Times, NEW j \in S
      PROVE  j <= t \/ Next[s][t] <= j
    <2> DEFINE D == {i \in S : i <= t \/ Next[s][t] <= i}
    <2>1. Next[s][e] \in D
        BY <1>1, <1>3
    <2>2. ASSUME NEW i \in D \cap Times PROVE Next[s][i] \in D
        <3>1. /\ i \in Nat /\ Next[s][i] \in Nat /\ Next[s][i] > i /\ Next[s][i] \in S
              /\ t \in Nat /\ Next[s][t] \in Nat /\ Next[s][t] > t
            BY <1>1, <1>2
        <3>2. CASE i < t
            BY <1>4, <2>2, <3>1, <3>2
        <3>3. CASE i = t
            BY <3>1, <3>3
        <3>4. CASE i > t
            BY <2>2, <3>1, <3>4
        <3> QED
            BY <3>1, <3>2, <3>3, <3>4
    <2>3. closed(s, e, D)
        BY <2>1, <2>2 DEF closed
    <2>4. S \subseteq D
        BY <1>1, <2>3
    <2> QED
        BY <2>4
<1>5. closed(s, e, T)
    <2>1. Next[s][e] \in T
        <3>1. ASSUME NEW j \in S \cap Times, j < Next[s][e] PROVE FALSE
            BY <1>1, <1>3, <3>1
        <3> QED
            BY <1>3, <3>1
    <2>2. ASSUME NEW t \in T \cap Times PROVE Next[s][t] \in T
        <3>1. Next[s][t] \in S /\ Next[s][t] \in Nat /\ Next[s][t] > t /\ t \in Nat
            BY <1>1, <1>2
        <3>2. ASSUME NEW j \in S \cap Times, j < Next[s][t]
              PROVE  Next[s][j] <= Next[s][t]
            <4>1. j \in Nat /\ j <= t
                BY <1>1, <1>4, <3>1, <3>2
            <4>2. CASE j < t
                <5>1. Next[s][j] <= t /\ Next[s][j] \in Nat
                    BY <1>2, <2>2, <4>2
                <5> QED
                    BY <3>1, <5>1
            <4>3. CASE j = t
                BY <3>1, <4>3
            <4> QED
                BY <3>1, <4>1, <4>2, <4>3
        <3> QED
            BY <3>1, <3>2
    <2> QED
        BY <2>1, <2>2 DEF closed
<1>6. S \subseteq T
    <2>1. T \in SUBSET ticksOf(s)
        BY <1>1
    <2> QED
        BY <1>1, <1>5, <2>1
<1>7. k \in S /\ inOrder(k)
    BY <1>6 DEF S
<1> QED
    BY <1>1, <1>7 DEF S

-----------------------------------------------------------------------------
(* Counting the missed ticks.                                              *)

\* The missed ticks up to a time.
upTo(s, e, n, u) == {k \in missedTicks(s, e, n) : k <= u}

LEMMA MissedFinite ==
    ASSUME NEW s \in Schedules, NEW e \in Times, NEW n \in Times
    PROVE  /\ missedTicks(s, e, n) \subseteq Times
           /\ IsFiniteSet(missedTicks(s, e, n))
           /\ Cardinality(missedTicks(s, e, n)) \in Nat
           /\ \A u : /\ IsFiniteSet(upTo(s, e, n, u))
                     /\ Cardinality(upTo(s, e, n, u)) \in Nat
                     /\ Cardinality(upTo(s, e, n, u)) <= Cardinality(missedTicks(s, e, n))
<1>1. series[s][e] \subseteq Nat
    BY SeriesType
<1>2. missedTicks(s, e, n) \subseteq Times
    BY <1>1, TimeAssumption DEF missedTicks, Times
<1>3. IsFiniteSet(Times)
    BY FS_Interval, TimeAssumption DEF Times
<1>4. IsFiniteSet(missedTicks(s, e, n))
    BY <1>2, <1>3, FS_Subset
<1>5. \A u : upTo(s, e, n, u) \subseteq missedTicks(s, e, n)
    BY DEF upTo
<1> QED
    BY <1>2, <1>4, <1>5, FS_Subset, FS_CardinalityType

LEMMA MissedTick ==
    ASSUME NEW s \in Schedules, NEW e \in Times, NEW n \in Times,
           NEW k \in missedTicks(s, e, n)
    PROVE  k \in Times /\ k \in ticksOf(s) /\ e < k /\ k <= n /\ e < n
<1>1. k \in series[s][e] /\ k <= n
    BY DEF missedTicks
<1>2. k \in ticksOf(s) /\ e < k
    BY <1>1, SeriesType, SeriesStart
<1>3. k \in Times
    BY MissedFinite
<1> QED
    BY <1>1, <1>2, <1>3, TimeAssumption DEF Times

\* The next tick is the one missed tick more.
LEMMA OneMore ==
    ASSUME NEW s \in Schedules, fires(s), NEW e \in Times, NEW n \in Times,
           NEW u \in Times, u \in series[s][e] \cup {e}, Next[s][u] <= n
    PROVE  /\ Next[s][u] \in missedTicks(s, e, n)
           /\ Cardinality(upTo(s, e, n, Next[s][u])) = Cardinality(upTo(s, e, n, u)) + 1
<1> DEFINE next1 == Next[s][u]
<1>1. next1 \in Nat /\ next1 > u /\ next1 \in series[s][e]
    BY NextTick, SeriesClosed DEF closed
<1>2. next1 \in missedTicks(s, e, n)
    BY <1>1 DEF missedTicks, Times
<1>3. ASSUME NEW k \in missedTicks(s, e, n)
      PROVE  k \in Nat /\ (k <= u \/ next1 <= k)
    <2>1. k \in series[s][e] /\ k \in Times
        BY MissedFinite DEF missedTicks
    <2>2. u < k => next1 <= k
        BY <2>1, NoTickBetween
    <2> QED
        BY <2>1, <2>2 DEF Times
<1>4. upTo(s, e, n, next1) = upTo(s, e, n, u) \cup {next1}
    BY <1>1, <1>2, <1>3 DEF upTo, Times
<1>5. next1 \notin upTo(s, e, n, u)
    BY <1>1 DEF upTo, Times
<1> HIDE DEF next1
<1>6. Cardinality(upTo(s, e, n, next1)) = Cardinality(upTo(s, e, n, u)) + 1
    BY <1>4, <1>5, MissedFinite, FS_AddElement
<1> QED
    BY <1>2, <1>6 DEF next1

\* No two missed ticks have as many missed ticks up to them.
LEMMA RankIsUnique ==
    ASSUME NEW s \in Schedules, NEW e \in Times, NEW n \in Times,
           NEW a \in missedTicks(s, e, n), NEW b \in missedTicks(s, e, n),
           Cardinality(upTo(s, e, n, a)) = Cardinality(upTo(s, e, n, b))
    PROVE  a = b
<1>1. a \in Times /\ b \in Times
    BY MissedFinite
<1>2. \A c, d \in missedTicks(s, e, n) :
          c <= d => upTo(s, e, n, c) \subseteq upTo(s, e, n, d)
    BY MissedFinite DEF upTo, Times
<1>3. \A c \in missedTicks(s, e, n) : c \in upTo(s, e, n, c)
    BY MissedFinite DEF upTo, Times
<1>4. upTo(s, e, n, a) = upTo(s, e, n, b)
    <2>1. CASE a <= b
        BY <1>2, <2>1, MissedFinite, FS_Subset
    <2>2. CASE b <= a
        BY <1>2, <2>2, MissedFinite, FS_Subset
    <2> QED
        BY <1>1, <2>1, <2>2 DEF Times
<1>5. a <= b /\ b <= a
    BY <1>3, <1>4 DEF upTo
<1> QED
    BY <1>1, <1>5 DEF Times

\* What lastMissed is, told by rank.
LEMMA LastMissedByRank ==
    ASSUME NEW s \in Schedules, fires(s), NEW e \in Times, NEW n \in Times,
           NEW k \in missedTicks(s, e, n),
           Cardinality(upTo(s, e, n, k)) =
               IF Cardinality(missedTicks(s, e, n)) > MaxMissedScans THEN MaxMissedScans + 1
               ELSE Cardinality(missedTicks(s, e, n))
    PROVE  lastMissed(s, e, n) = k
<1> DEFINE missed == missedTicks(s, e, n)
           scanned == IF capped(s, e, n) THEN MaxMissedScans + 1
                      ELSE Cardinality(missed)
<1>1. \A c \in missed : Cardinality(upTo(s, e, n, c)) = scanned <=> c = k
    BY RankIsUnique DEF capped
<1>2. (CHOOSE c \in missed : Cardinality({u \in missed : u <= c}) = scanned) = k
    BY <1>1 DEF upTo
<1>3. missed # {}
    OBVIOUS
<1> QED
    BY <1>2, <1>3 DEF lastMissed

\* Of finitely many times one is the latest.
LEMMA LatestExists ==
    ASSUME NEW T \in SUBSET Times, T # {}
    PROVE  \E m \in T : \A k \in T : k <= m
<1> DEFINE after(m) == {k \in T : m <= k}
           family == {after(m) : m \in T}
<1>1. IsFiniteSet(T)
    <2>1. IsFiniteSet(Times)
        BY FS_Interval, TimeAssumption DEF Times
    <2> QED
        BY <2>1, FS_Subset
<1>2. IsWellFoundedOn(StrictSubsetOrdering(T), SUBSET T)
    BY <1>1, FS_StrictSubsetOrderingWellFounded, FS_FiniteSubsetsOfFinite
<1>3. family \subseteq SUBSET T /\ family # {}
    OBVIOUS
<1> HIDE DEF family
<1>4. PICK A \in family : \A B \in family : <<B, A>> \notin StrictSubsetOrdering(T)
    BY <1>2, <1>3, WFMin
<1>5. PICK m \in T : A = after(m)
    BY <1>4 DEF family
<1>6. ASSUME NEW k \in T, m < k PROVE FALSE
    <2>1. after(k) \in family
        BY DEF family
    <2>2. after(k) \subseteq after(m) /\ m \in after(m) /\ m \notin after(k)
        <3>1. \A j \in T : j \in Int
            BY DEF Times
        <3> QED
            BY <1>6, <3>1
    <2>3. <<after(k), A>> \in StrictSubsetOrdering(T)
        BY <1>5, <2>2 DEF StrictSubsetOrdering
    <2> QED
        BY <1>4, <2>1, <2>3
<1> QED
    BY <1>6, TimeAssumption DEF Times

\* The series has a first tick after any time.
LEMMA LaterTick ==
    ASSUME NEW s \in Schedules, fires(s), NEW e \in Times, NEW n \in Times
    PROVE  \E k \in series[s][e] :
               k > n /\ \A j \in series[s][e] : j > n => k <= j
<1> DEFINE missed == missedTicks(s, e, n)
<1>1. /\ missed \subseteq Times /\ missed \subseteq series[s][e]
      /\ series[s][e] \subseteq Nat /\ closed(s, e, series[s][e])
    BY MissedFinite, SeriesType, SeriesClosed DEF missedTicks
<1>2. PICK u \in Times : u \in missed \cup {e} /\ \A j \in missed : j <= u
    <2>1. CASE missed = {}
        BY <2>1
    <2>2. CASE missed # {}
        <3>1. PICK m \in missed : \A j \in missed : j <= m
            BY <1>1, <2>2, LatestExists
        <3>2. m \in Times /\ m \in series[s][e] /\ e < m
            BY <1>1, <3>1, SeriesStart
        <3> QED
            BY <3>1, <3>2 DEF Times
    <2> QED
        BY <2>1, <2>2
<1> DEFINE k == Next[s][u]
<1>3. k \in series[s][e] /\ k \in Nat /\ k > u
    BY <1>1, <1>2, NextTick DEF closed
<1>4. k > n
    <2>1. k <= n => k \in missed
        BY <1>3 DEF missedTicks
    <2> QED
        BY <1>2, <1>3, <2>1 DEF Times
<1>5. ASSUME NEW j \in series[s][e], j > n PROVE k <= j
    <2>1. u < j
        <3>1. CASE u = e
            BY <3>1, SeriesStart
        <3>2. CASE u # e
            BY <1>1, <1>2, <1>5, <3>2 DEF missedTicks, Times
        <3> QED
            BY <3>1, <3>2
    <2> QED
        BY <1>1, <1>2, <1>5, <2>1, NoTickBetween
<1> QED
    BY <1>3, <1>4, <1>5

\* The next tick to wait for is in the series, the first after now, unless the
\* scan is capped.
LEMMA NextTickIs ==
    ASSUME NEW s \in Schedules, NEW e \in Times, NEW n \in Times
    PROVE  /\ nextTick(s, e, n) \in Nat \cup {Zero}
           /\ capped(s, e, n) => nextTick(s, e, n) = Next[s][n]
           /\ ~capped(s, e, n) =>
                /\ nextTick(s, e, n) \in series[s][e] /\ nextTick(s, e, n) > n
                /\ \A j \in series[s][e] : j > n => nextTick(s, e, n) <= j
<1>1. CASE capped(s, e, n)
    BY <1>1, NextAssumption DEF nextTick
<1>2. CASE ~capped(s, e, n)
    <2> DEFINE later == {t \in series[s][e] : t > n}
    <2>1. \E t \in later : \A u \in later : t <= u
        BY <1>2, LaterTick DEF capped
    <2>2. nextTick(s, e, n) = CHOOSE t \in later : \A u \in later : t <= u
        BY <1>2 DEF nextTick
    <2>3. nextTick(s, e, n) \in later /\ \A u \in later : nextTick(s, e, n) <= u
        <3> HIDE DEF later
        <3> QED
            BY <2>1, <2>2
    <2> QED
        BY <1>2, <2>3, SeriesType
<1> QED
    BY <1>1, <1>2

\* Do the ticks not depend on when one asks?  Those of five fields do not.
steady(s) == \A t, u \in Times : t <= u /\ u < Next[s][t] => Next[s][u] = Next[s][t]

\* For a schedule of five fields, the series after a time is simply its ticks
\* after that time.
THEOREM SteadySeries ==
    ASSUME NEW s \in Schedules, fires(s), steady(s), NEW e \in Times
    PROVE  series[s][e] = {k \in ticksOf(s) : e < k}
<1>1. ASSUME NEW v \in Times, e < Next[s][v] PROVE Next[s][v] \in series[s][e]
    <2> DEFINE missed == missedTicks(s, e, v)
    <2>1. /\ missed \subseteq Times /\ missed \subseteq series[s][e]
          /\ closed(s, e, series[s][e]) /\ \A j \in missed : e < j /\ j <= v
        BY MissedFinite, MissedTick, SeriesClosed DEF missedTicks
    <2>2. PICK u \in Times : u \in missed \cup {e} /\ \A j \in missed : j <= u
        <3>1. CASE missed = {}
            BY <3>1
        <3>2. CASE missed # {}
            <4>1. PICK m \in missed : \A j \in missed : j <= m
                BY <2>1, <3>2, LatestExists
            <4> QED
                BY <2>1, <4>1
        <3> QED
            BY <3>1, <3>2
    <2>3. Next[s][u] \in series[s][e] /\ Next[s][u] \in Nat /\ Next[s][u] > u
        BY <2>1, <2>2, NextTick DEF closed
    <2>4. v < Next[s][u]
        <3>1. Next[s][u] <= v => Next[s][u] \in missed
            BY <2>3 DEF missedTicks
        <3> QED
            BY <2>2, <2>3, <3>1 DEF Times
    <2>5. CASE u <= v
        BY <2>3, <2>4, <2>5 DEF steady
    <2>6. CASE v < u
        <3>1. u = e
            BY <2>1, <2>2, <2>6 DEF Times
        <3> QED
            BY <1>1, <2>3, <2>6, <3>1 DEF steady, Times
    <2> QED
        BY <2>5, <2>6 DEF Times
<1>2. \A k \in ticksOf(s) : e < k => k \in series[s][e]
    BY <1>1 DEF ticksOf
<1> QED
    BY <1>2, SeriesType, SeriesStart

\* A missed tick for every rank there is.
LEMMA RankExists ==
    ASSUME NEW s \in Schedules, NEW e \in Times, NEW n \in Times,
           NEW r \in 1 .. Cardinality(missedTicks(s, e, n))
    PROVE  \E k \in missedTicks(s, e, n) : Cardinality(upTo(s, e, n, k)) = r
<1> DEFINE missed == missedTicks(s, e, n)
           below(k) == upTo(s, e, n, k)
           family == {below(k) : k \in {j \in missed : Cardinality(below(j)) >= r}}
<1>1. /\ missed \subseteq Times /\ IsFiniteSet(missed) /\ Cardinality(missed) \in Nat
      /\ \A k : /\ below(k) \subseteq missed /\ IsFiniteSet(below(k))
                /\ Cardinality(below(k)) \in Nat
    BY MissedFinite DEF upTo
<1>2. IsWellFoundedOn(StrictSubsetOrdering(missed), SUBSET missed)
    BY <1>1, FS_StrictSubsetOrderingWellFounded, FS_FiniteSubsetsOfFinite
<1>3. missed # {}
    BY FS_EmptySet
<1>4. PICK latest \in missed : \A k \in missed : k <= latest
    BY <1>1, <1>3, LatestExists
<1>5. below(latest) = missed
    BY <1>4 DEF upTo
<1>6. family \subseteq SUBSET missed /\ family # {}
    BY <1>1, <1>4, <1>5
<1>7. PICK A \in family : \A B \in family : <<B, A>> \notin StrictSubsetOrdering(missed)
    <2> HIDE DEF family
    <2> QED
        BY <1>2, <1>6, WFMin
<1>8. PICK k \in missed : A = below(k) /\ Cardinality(below(k)) >= r
    BY <1>7
<1>9. ASSUME Cardinality(below(k)) > r PROVE FALSE
    <2> DEFINE rest == below(k) \ {k}
    <2>1. k \in below(k)
        BY <1>1, <1>8, TimeAssumption DEF upTo, Times
    <2>2. IsFiniteSet(rest) /\ Cardinality(rest) = Cardinality(below(k)) - 1
        BY <1>1, <2>1, FS_RemoveElement
    <2>3. Cardinality(rest) >= r /\ rest # {}
        BY <1>1, <1>9, <2>2, FS_EmptySet
    <2>4. PICK p \in rest : \A j \in rest : j <= p
        BY <1>1, <2>3, LatestExists
    <2>5. below(p) = rest /\ p \in missed
        BY <1>1, <1>8, <2>4, TimeAssumption DEF upTo, Times
    <2>6. below(p) \in family
        BY <2>3, <2>5
    <2>7. <<below(p), A>> \in StrictSubsetOrdering(missed)
        BY <1>1, <1>8, <2>1, <2>5 DEF StrictSubsetOrdering
    <2> QED
        BY <1>7, <2>6, <2>7
<1> QED
    BY <1>1, <1>8, <1>9

\* The tick that mostRecentScheduleTime returns for a schedule that fires is a
\* missed one if there is any; the cap makes it an earlier one, never a tick
\* outside of (earliest, now].
THEOREM LastMissedIsMissed ==
    ASSUME NEW s \in Schedules, NEW e \in Times, NEW n \in Times
    PROVE  IF ~fires(s) THEN lastMissed(s, e, n) = Zero
           ELSE IF missedTicks(s, e, n) = {} THEN lastMissed(s, e, n) = None
           ELSE lastMissed(s, e, n) \in missedTicks(s, e, n)
<1>1. CASE fires(s) /\ missedTicks(s, e, n) # {}
    <2> DEFINE size == Cardinality(missedTicks(s, e, n))
               scanned == IF size > MaxMissedScans THEN MaxMissedScans + 1 ELSE size
    <2>1. size \in Nat \ {0}
        BY <1>1, MissedFinite, FS_EmptySet
    <2>2. scanned \in 1 .. size
        BY <2>1, ScanAssumption
    <2>3. PICK k \in missedTicks(s, e, n) : Cardinality(upTo(s, e, n, k)) = scanned
        BY <2>2, RankExists
    <2>4. lastMissed(s, e, n) = k
        BY <1>1, <2>3, LastMissedByRank
    <2> QED
        BY <1>1, <2>4
<1> QED
    BY <1>1 DEF lastMissed
=============================================================================
