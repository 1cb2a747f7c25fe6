------------------------- MODULE ScheduleScanProofs -------------------------
(***************************************************************************)
(* Theorems about module ScheduleScan, for every set of schedules, every   *)
(* cap and every pair of times: what the loop of mostRecentScheduleTime    *)
(* returns, and that it computes the operators lastMissed and nextTick     *)
(* that module CheckSuite uses in its place.                               *)
(***************************************************************************)
EXTENDS ScheduleScan, ScheduleProofs

-----------------------------------------------------------------------------
(* The loop.                                                               *)

\* The last time the scan has got to.
base == IF last = None THEN earliest ELSE last

\* While a schedule that fires is scanned, the loop stands at the next tick
\* after its base and has counted the missed ticks up to there; at its end it
\* has run past now, or has counted one tick more than the cap.
ScansTicks ==
    fires(sched) =>
        /\ last # None => last \in missedTicks(sched, earliest, now)
        /\ count = Cardinality(upTo(sched, earliest, now, base))
        /\ ~tooMany => t = Next[sched][base] /\ count <= MaxMissedScans
        /\ tooMany => last # None /\ count = MaxMissedScans + 1 /\ next = Next[sched][now]
        /\ done /\ ~tooMany => t > now /\ next = t

\* A schedule that never fires keeps the scan at the zero time.
ScansNothing ==
    ~fires(sched) =>
        /\ t = Zero /\ last \in {None, Zero}
        /\ ~tooMany => count <= MaxMissedScans
        /\ done => tooMany /\ last = Zero /\ next = Zero

Inv ==
    /\ TypeOK
    /\ tooMany => done
    /\ ScansTicks
    /\ ScansNothing

\* Where the scan stands is a tick of the series, or earliest itself.
LEMMA BaseType ==
    ASSUME Inv, fires(sched)
    PROVE  base \in Times /\ base \in series[sched][earliest] \cup {earliest}
<1>1. /\ sched \in Schedules /\ earliest \in Times /\ now \in Times
      /\ last # None => last \in missedTicks(sched, earliest, now)
    BY DEF Inv, TypeOK, ScansTicks
<1>2. CASE last = None
    BY <1>1, <1>2 DEF base
<1>3. CASE last # None
    <2>1. last \in Times
        BY <1>1, <1>3, MissedTick
    <2> QED
        BY <1>1, <1>3, <2>1 DEF base, missedTicks
<1> QED
    BY <1>2, <1>3

\* The initial states satisfy the invariant.
LEMMA InvInit == Init => Inv
<1> SUFFICES ASSUME Init PROVE Inv
    OBVIOUS
<1>1. /\ sched \in Schedules /\ earliest \in Times /\ now \in Times
      /\ t = Next[sched][earliest] /\ base = earliest
      /\ count = 0 /\ last = None /\ next = None /\ tooMany = FALSE /\ done = FALSE
    BY DEF Init, base
<1>2. t \in Nat \cup {Zero}
    BY <1>1, NextAssumption
<1>3. TypeOK
    <2>1. count \in 0 .. MaxMissedScans + 1
        BY <1>1, ScanAssumption
    <2> QED
        BY <1>1, <1>2, <2>1 DEF TypeOK
<1>4. upTo(sched, earliest, now, earliest) = {}
    <2>1. ASSUME NEW k \in missedTicks(sched, earliest, now) PROVE ~(k <= earliest)
        <3>1. k \in Times /\ earliest < k
            BY <1>1, MissedTick
        <3> QED
            BY <1>1, <3>1, TimeAssumption DEF Times
    <2> QED
        BY <2>1 DEF upTo
<1>5. ScansTicks
    BY <1>1, <1>4, FS_EmptySet, ScanAssumption DEF ScansTicks
<1>6. ScansNothing
    BY <1>1, NeverFires, ScanAssumption DEF ScansNothing
<1> QED
    BY <1>1, <1>3, <1>5, <1>6 DEF Inv

\* A step of the scan that moves on, or stops at the cap, takes the next
\* missed tick.
LEMMA TakesTick ==
    ASSUME Inv, fires(sched), ~done, tickDue
    PROVE  /\ t \in missedTicks(sched, earliest, now)
           /\ Cardinality(upTo(sched, earliest, now, t)) = count + 1
           /\ t # None
<1>1. /\ sched \in Schedules /\ earliest \in Times /\ now \in Times
      /\ t = Next[sched][base]
      /\ count = Cardinality(upTo(sched, earliest, now, base))
    BY DEF Inv, TypeOK, ScansTicks
<1>2. base \in Times /\ base \in series[sched][earliest] \cup {earliest}
    BY BaseType
<1>3. Next[sched][base] <= now
    BY <1>1 DEF tickDue
<1>4. /\ t \in missedTicks(sched, earliest, now)
      /\ Cardinality(upTo(sched, earliest, now, t)) = count + 1
    BY <1>1, <1>2, <1>3, OneMore
<1>5. t \in Nat
    BY <1>1, <1>4, MissedFinite DEF Times
<1> QED
    BY <1>4, <1>5, NoneAssumption

\* Every iteration preserves the invariant.
LEMMA InvNext == Inv /\ [ScanNext]_vars => Inv'
<1> SUFFICES ASSUME Inv, [ScanNext]_vars PROVE Inv'
    OBVIOUS
<1>1. /\ sched \in Schedules /\ earliest \in Times /\ now \in Times
      /\ t \in Nat \cup {Zero} /\ count \in 0 .. MaxMissedScans + 1
    BY DEF Inv, TypeOK
<1>2. Zero # None /\ Zero \in Int /\ MaxMissedScans \in Nat
    BY NoneAssumption, ScanAssumption DEF Zero
<1>3. CASE Scan
    <2>1. /\ UNCHANGED <<sched, earliest, now, next, tooMany, done>>
          /\ last' = t /\ count' = count + 1 /\ t' = Next[sched][t]
          /\ ~done /\ tickDue /\ count + 1 <= MaxMissedScans /\ ~tooMany
        BY <1>1, <1>2, <1>3 DEF Scan, atCap, arguments, Inv
    <2>2. CASE fires(sched)
        <3>1. /\ t \in missedTicks(sched, earliest, now) /\ t # None /\ t \in Times
              /\ Cardinality(upTo(sched, earliest, now, t)) = count + 1
            BY <1>1, <2>1, <2>2, TakesTick, MissedFinite
        <3>2. base' = t
            BY <2>1, <3>1 DEF base
        <3>3. t' \in Nat
            BY <1>1, <2>1, <2>2, <3>1, NextTick
        <3>4. TypeOK'
            BY <1>1, <1>2, <2>1, <3>1, <3>3 DEF Inv, TypeOK
        <3>5. ScansTicks'
            BY <1>1, <2>1, <2>2, <3>1, <3>2 DEF ScansTicks
        <3> QED
            BY <2>1, <2>2, <3>4, <3>5 DEF Inv, ScansNothing
    <2>3. CASE ~fires(sched)
        <3>1. t = Zero /\ t' = Zero
            BY <1>1, <2>1, <2>3, NeverFires DEF Inv, ScansNothing
        <3>2. TypeOK'
            BY <1>1, <1>2, <2>1, <3>1 DEF Inv, TypeOK
        <3> QED
            BY <2>1, <2>3, <3>1, <3>2 DEF Inv, ScansTicks, ScansNothing
    <2> QED
        BY <2>2, <2>3
<1>4. CASE ReturnAtCap
    <2>1. /\ UNCHANGED <<sched, earliest, now, t>>
          /\ last' = t /\ count' = count + 1 /\ next' = Next[sched][now]
          /\ tooMany' = TRUE /\ done' = TRUE
          /\ ~done /\ tickDue /\ count + 1 > MaxMissedScans /\ ~tooMany
        BY <1>1, <1>2, <1>4 DEF ReturnAtCap, atCap, arguments, Inv
    <2>2. Next[sched][now] \in Nat \cup {Zero}
        BY <1>1, NextAssumption
    <2>3. CASE fires(sched)
        <3>1. /\ t \in missedTicks(sched, earliest, now) /\ t # None /\ t \in Times
              /\ Cardinality(upTo(sched, earliest, now, t)) = count + 1
            BY <1>1, <2>1, <2>3, TakesTick, MissedFinite
        <3>2. base' = t
            BY <2>1, <3>1 DEF base
        <3>3. count <= MaxMissedScans
            BY <2>1, <2>3 DEF Inv, ScansTicks
        <3>4. TypeOK'
            BY <1>1, <1>2, <2>1, <2>2, <3>1, <3>3 DEF Inv, TypeOK
        <3>5. ScansTicks'
            BY <1>1, <1>2, <2>1, <2>3, <3>1, <3>2, <3>3 DEF ScansTicks
        <3> QED
            BY <2>1, <2>3, <3>4, <3>5 DEF Inv, ScansNothing
    <2>4. CASE ~fires(sched)
        <3>1. t = Zero /\ Next[sched][now] = Zero /\ count <= MaxMissedScans
            BY <1>1, <2>1, <2>4, NeverFires DEF Inv, ScansNothing
        <3>2. TypeOK'
            BY <1>1, <1>2, <2>1, <3>1 DEF Inv, TypeOK
        <3> QED
            BY <2>1, <2>4, <3>1, <3>2 DEF Inv, ScansTicks, ScansNothing
    <2> QED
        BY <2>3, <2>4
<1>5. CASE Return
    <2>1. /\ UNCHANGED <<sched, earliest, now, t, count, last, tooMany>>
          /\ next' = t /\ done' = TRUE /\ ~done /\ ~(t <= now) /\ ~tooMany
        BY <1>5 DEF Return, tickDue, arguments, Inv
    <2>2. base' = base /\ t > now /\ t # Zero
        BY <1>1, <2>1, TimeAssumption DEF base, Times, Zero
    <2>3. fires(sched)
        BY <2>2 DEF Inv, ScansNothing
    <2>4. TypeOK'
        BY <1>1, <2>1 DEF Inv, TypeOK
    <2> QED
        BY <2>1, <2>2, <2>3, <2>4 DEF Inv, ScansTicks, ScansNothing
<1>6. CASE UNCHANGED vars
    BY <1>6 DEF vars, arguments, Inv, TypeOK, ScansTicks, ScansNothing, base
<1> QED
    BY <1>3, <1>4, <1>5, <1>6 DEF ScanNext

\* The invariant holds throughout.
LEMMA Invariance == Spec => []Inv
BY InvInit, InvNext, PTL DEF Spec

\* An uncapped scan that has ended has counted every missed tick.
LEMMA UncappedCountsAll ==
    ASSUME Inv, done, ~tooMany
    PROVE  /\ fires(sched)
           /\ upTo(sched, earliest, now, base) = missedTicks(sched, earliest, now)
           /\ last = None => missedTicks(sched, earliest, now) = {}
<1>1. fires(sched)
    BY DEF Inv, ScansNothing
<1>2. /\ sched \in Schedules /\ earliest \in Times /\ now \in Times
      /\ base \in Times /\ base \in series[sched][earliest] \cup {earliest}
      /\ t = Next[sched][base] /\ t > now
    BY <1>1, BaseType DEF Inv, TypeOK, ScansTicks
<1>3. ASSUME NEW k \in missedTicks(sched, earliest, now)
      PROVE  k <= base /\ earliest < k
    <2>1. k \in series[sched][earliest] /\ k \in Times /\ k <= now /\ earliest < k
        BY <1>1, <1>2, MissedTick DEF missedTicks
    <2>2. base < k => t <= k
        BY <1>1, <1>2, <2>1, NoTickBetween
    <2>3. t \in Nat
        BY <1>1, <1>2, NextTick
    <2> QED
        BY <1>2, <2>1, <2>2, <2>3 DEF Times
<1>4. upTo(sched, earliest, now, base) = missedTicks(sched, earliest, now)
    BY <1>3 DEF upTo
<1>5. ASSUME last = None PROVE missedTicks(sched, earliest, now) = {}
    BY <1>2, <1>3, <1>5, MissedFinite DEF base, Times
<1> QED
    BY <1>1, <1>4, <1>5

\* What the invariant says of the scan's results.
LEMMA MostRecent == Inv => MostRecentUnlessCapped
<1> SUFFICES ASSUME Inv, done, ~tooMany
             PROVE  IF last = None THEN missedTicks(sched, earliest, now) = {}
                    ELSE /\ last \in missedTicks(sched, earliest, now)
                         /\ \A s \in missedTicks(sched, earliest, now) : s <= last
    BY DEF MostRecentUnlessCapped
<1>1. last # None => last \in missedTicks(sched, earliest, now)
    BY UncappedCountsAll DEF Inv, ScansTicks
<1>2. last # None => \A s \in missedTicks(sched, earliest, now) : s <= last
    BY UncappedCountsAll DEF upTo, base
<1> QED
    BY <1>1, <1>2, UncappedCountsAll

\* The next tick of an uncapped scan is the first of the series after now.
LEMMA NextIsFirst ==
    ASSUME Inv, done, ~tooMany
    PROVE  /\ next \in series[sched][earliest] /\ next > now /\ next > earliest
           /\ \A k \in series[sched][earliest] : k > now => next <= k
<1>1. fires(sched)
    BY UncappedCountsAll
<1>2. /\ sched \in Schedules /\ earliest \in Times /\ now \in Times
      /\ base \in Times /\ base \in series[sched][earliest] \cup {earliest}
      /\ next = Next[sched][base] /\ next > now
      /\ upTo(sched, earliest, now, base) = missedTicks(sched, earliest, now)
      /\ last # None => last \in missedTicks(sched, earliest, now)
    BY <1>1, BaseType, UncappedCountsAll DEF Inv, TypeOK, ScansTicks
<1>3. next \in series[sched][earliest]
    BY <1>1, <1>2, SeriesClosed DEF closed
<1>4. ASSUME NEW k \in series[sched][earliest], k > now PROVE next <= k
    <2>1. CASE last = None
        BY <1>1, <1>2, <2>1, SeriesStart DEF base
    <2>2. CASE last # None
        <3>1. base <= now /\ k \in Nat
            BY <1>1, <1>2, <2>2, SeriesType DEF base, missedTicks
        <3>2. base < k
            BY <1>2, <1>4, <3>1 DEF Times
        <3> QED
            BY <1>1, <1>2, <3>2, NoTickBetween
    <2> QED
        BY <2>1, <2>2
<1> QED
    BY <1>1, <1>2, <1>3, <1>4, SeriesStart

LEMMA DueTick == Inv => ReturnsDueTick
<1> SUFFICES ASSUME Inv, done
             PROVE  IF fires(sched)
                    THEN /\ next > now
                         /\ last # None => last \in missedTicks(sched, earliest, now)
                         /\ ~tooMany =>
                              /\ next > earliest
                              /\ \A k \in series[sched][earliest] : k > now => next <= k
                    ELSE last = Zero /\ next = Zero /\ tooMany
    BY DEF ReturnsDueTick
<1>1. sched \in Schedules /\ now \in Times
    BY DEF Inv, TypeOK
<1>2. CASE ~fires(sched)
    BY <1>2 DEF Inv, ScansNothing
<1>3. CASE fires(sched) /\ tooMany
    BY <1>1, <1>3, NextTick DEF Inv, ScansTicks
<1>4. CASE fires(sched) /\ ~tooMany
    BY <1>4, NextIsFirst DEF Inv, ScansTicks
<1> QED
    BY <1>2, <1>3, <1>4

LEMMA ScanComputes == Inv => ScanIsLastMissed
<1> SUFFICES ASSUME Inv, done
             PROVE  /\ last = lastMissed(sched, earliest, now)
                    /\ next = nextTick(sched, earliest, now)
    BY DEF ScanIsLastMissed
<1>1. sched \in Schedules /\ earliest \in Times /\ now \in Times
    BY DEF Inv, TypeOK
<1>2. CASE ~fires(sched)
    <2>1. Next[sched][now] = Zero
        BY <1>1, <1>2, NeverFires
    <2> QED
        BY <1>2, <2>1 DEF Inv, ScansNothing, lastMissed, nextTick, capped
<1>3. ASSUME fires(sched), ~tooMany
      PROVE  /\ ~capped(sched, earliest, now)
             /\ count = Cardinality(missedTicks(sched, earliest, now))
             /\ next = nextTick(sched, earliest, now)
    <2>1. /\ count = Cardinality(missedTicks(sched, earliest, now))
          /\ count <= MaxMissedScans
        BY <1>3, UncappedCountsAll DEF Inv, ScansTicks
    <2>2. count \in Nat
        BY ScanAssumption DEF Inv, TypeOK
    <2>3. ~capped(sched, earliest, now)
        BY <1>3, <2>1, <2>2, ScanAssumption DEF capped
    <2>4. next = nextTick(sched, earliest, now)
        <3> DEFINE tick == nextTick(sched, earliest, now)
        <3> HIDE DEF tick
        <3>1. /\ tick \in series[sched][earliest] /\ tick > now
              /\ \A k \in series[sched][earliest] : k > now => tick <= k
            BY <1>1, <2>3, NextTickIs DEF tick
        <3>2. next <= tick /\ tick <= next
            BY <1>3, <3>1, NextIsFirst
        <3>3. next \in Nat /\ tick \in Nat
            BY <1>1, <1>3, <3>1, NextIsFirst, SeriesType
        <3> QED
            BY <3>2, <3>3 DEF tick
    <2> QED
        BY <2>1, <2>3, <2>4
<1>4. ASSUME fires(sched), tooMany
      PROVE  /\ capped(sched, earliest, now) /\ last # None
             /\ next = nextTick(sched, earliest, now)
    <2>1. /\ last # None /\ count = MaxMissedScans + 1 /\ next = Next[sched][now]
          /\ count = Cardinality(upTo(sched, earliest, now, last))
        BY <1>4 DEF Inv, ScansTicks, base
    <2>2. capped(sched, earliest, now)
        BY <1>1, <2>1, MissedFinite, ScanAssumption DEF capped
    <2> QED
        BY <2>1, <2>2 DEF nextTick
<1>5. CASE fires(sched) /\ last = None
    BY <1>3, <1>4, <1>5, UncappedCountsAll DEF lastMissed
<1>6. CASE fires(sched) /\ last # None
    <2>1. /\ last \in missedTicks(sched, earliest, now)
          /\ count = Cardinality(upTo(sched, earliest, now, last))
          /\ tooMany => count = MaxMissedScans + 1
        BY <1>6 DEF Inv, ScansTicks, base
    <2>2. count = IF Cardinality(missedTicks(sched, earliest, now)) > MaxMissedScans
                  THEN MaxMissedScans + 1
                  ELSE Cardinality(missedTicks(sched, earliest, now))
        BY <1>3, <1>4, <1>6, <2>1 DEF capped
    <2> QED
        BY <1>1, <1>3, <1>4, <1>6, <2>1, <2>2, LastMissedByRank
<1> QED
    BY <1>2, <1>3, <1>4, <1>5, <1>6

-----------------------------------------------------------------------------
(* Theorems.                                                               *)

\* The scan's state has its type, and it makes at most one iteration more than
\* its cap, however long ago the suite ran last.
THEOREM TypeCorrect == Spec => []TypeOK
<1>1. Inv => TypeOK
    BY DEF Inv
<1> QED
    BY <1>1, Invariance, PTL

\* A scan that is not capped passes over no missed tick.
THEOREM MostRecentCorrect == Spec => []MostRecentUnlessCapped
BY Invariance, MostRecent, PTL

\* What mostRecentScheduleTime returns was due, and the next tick it returns is
\* after now, and unless the scan was capped the first such of the series.
THEOREM DueTickCorrect == Spec => []ReturnsDueTick
BY Invariance, DueTick, PTL

\* The loop computes lastMissed and nextTick, which module CheckSuite uses for
\* it.
THEOREM ScanCorrect == Spec => []ScanIsLastMissed
BY Invariance, ScanComputes, PTL
=============================================================================
