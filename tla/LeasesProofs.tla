---------------------------- MODULE LeasesProofs ----------------------------
(***************************************************************************)
(* Theorems about the lease tables, for every set of claims, every budget  *)
(* and every lifetime the configuration accepts.                           *)
(*                                                                         *)
(* The section on cardinalities shows what the promotion loop of a release *)
(* takes from the queue: never more than fits, everything that fits, and   *)
(* the earliest first.  The inductive invariant adds to the properties of  *)
(* Leases where a tab row may be live and that arrivals are distinct.      *)
(***************************************************************************)
EXTENDS Reads, PoolView, FiniteSetTheorems, FunctionTheorems, WellFoundedInduction, TLAPS

-----------------------------------------------------------------------------
(* What the promotion loop takes from the queue.                           *)

\* The queued claims that arrived before c: `arrival < (SELECT arrival ...)`.
Ahead(state, c) == {d \in Queued(state) : arrival[d] < arrival[c]}

\* Arrival numbers say who came first: no two rows share one.
ArrivalOrder ==
  /\ \A c \in Claim : arrival[c] <= nextArrival
  /\ \A c, d \in Claim :
       /\ claimState[c] # "absent" /\ claimState[d] # "absent" /\ c # d
       => arrival[c] # arrival[d]

\* No two claims that wait in `state` arrived together.
DistinctQueue(state) ==
  \A c, d \in Queued(state) : c # d => arrival[c] # arrival[d]

\* Every set of claims is finite, so that it can be counted.
LEMMA ClaimsCount ==
  ASSUME NEW S \in SUBSET Claim
  PROVE  IsFiniteSet(S) /\ Cardinality(S) \in Nat
  BY LeasesAssumption, FS_Subset, FS_CardinalityType DEF LeasesAssumption

\* Fewer claims count no more.
LEMMA FewerCount ==
  ASSUME NEW S \in SUBSET Claim, NEW T \in SUBSET S
  PROVE  Cardinality(T) <= Cardinality(S)
  BY ClaimsCount, FS_Subset

\* Two sets of claims that differ only within a third differ by no more than it.
LEMMA TwoSetsCount ==
  ASSUME NEW S \in SUBSET Claim, NEW T \in SUBSET Claim, NEW U \in SUBSET Claim,
         S \subseteq T \cup U, T \subseteq S \cup U
  PROVE  /\ Cardinality(S) \in Nat /\ Cardinality(T) \in Nat /\ Cardinality(U) \in Nat
         /\ Cardinality(S) <= Cardinality(T) + Cardinality(U)
         /\ Cardinality(T) <= Cardinality(S) + Cardinality(U)
<1>1. \A A, B \in SUBSET Claim :
        Cardinality(A \cup B) <= Cardinality(A) + Cardinality(B)
  <2> SUFFICES ASSUME NEW A \in SUBSET Claim, NEW B \in SUBSET Claim
               PROVE  Cardinality(A \cup B) <= Cardinality(A) + Cardinality(B)
    OBVIOUS
  <2>1. IsFiniteSet(A) /\ IsFiniteSet(B) /\ A \cap B \in SUBSET Claim
    BY ClaimsCount
  <2>2. Cardinality(A \cup B)
          = Cardinality(A) + Cardinality(B) - Cardinality(A \cap B)
    BY <2>1, FS_Union
  <2>3. /\ Cardinality(A) \in Nat /\ Cardinality(B) \in Nat
        /\ Cardinality(A \cap B) \in Nat
    BY <2>1, ClaimsCount
  <2> QED
    BY <2>2, <2>3
<1>2. /\ T \cup U \in SUBSET Claim /\ S \cup U \in SUBSET Claim
      /\ Cardinality(S) \in Nat /\ Cardinality(T) \in Nat /\ Cardinality(U) \in Nat
      /\ Cardinality(T \cup U) \in Nat /\ Cardinality(S \cup U) \in Nat
  BY ClaimsCount
<1>3. /\ Cardinality(S) <= Cardinality(T \cup U)
      /\ Cardinality(T) <= Cardinality(S \cup U)
  BY <1>2, FewerCount
<1>4. /\ Cardinality(T \cup U) <= Cardinality(T) + Cardinality(U)
      /\ Cardinality(S \cup U) <= Cardinality(S) + Cardinality(U)
  BY <1>1
<1> QED
  BY <1>2, <1>3, <1>4

\* A position is a number from 1 up: the count of those ahead, and one.
LEMMA PositionType ==
  ASSUME NEW state, NEW c \in Claim
  PROVE  /\ Ahead(state, c) \in SUBSET Claim
         /\ QueuePosition(state, c) = Cardinality(Ahead(state, c)) + 1
         /\ QueuePosition(state, c) \in Nat \ {0}
<1>1. Ahead(state, c) \in SUBSET Claim
  BY DEF Ahead, Queued
<1>2. QueuePosition(state, c) = Cardinality(Ahead(state, c)) + 1
  BY DEF QueuePosition, Ahead
<1> QED
  BY <1>1, <1>2, ClaimsCount

\* Whoever arrived no later stands no further back.
LEMMA EarlierIsNoFurtherBack ==
  ASSUME arrival \in [Claim -> Nat], NEW state,
         NEW c \in Claim, NEW d \in Claim, arrival[c] <= arrival[d]
  PROVE  QueuePosition(state, c) <= QueuePosition(state, d)
<1>1. Ahead(state, c) \subseteq Ahead(state, d)
  BY DEF Ahead, Queued
<1>2. Cardinality(Ahead(state, c)) <= Cardinality(Ahead(state, d))
  BY <1>1, PositionType, FewerCount
<1> QED
  BY <1>2, PositionType, ClaimsCount

\* A queued claim that arrived earlier stands strictly in front.
LEMMA EarlierIsInFront ==
  ASSUME arrival \in [Claim -> Nat], NEW state,
         NEW c \in Queued(state), NEW d \in Claim, arrival[c] < arrival[d]
  PROVE  QueuePosition(state, c) < QueuePosition(state, d)
<1> c \in Claim
  BY DEF Queued
<1>1. Ahead(state, c) \cup {c} \subseteq Ahead(state, d)
  BY DEF Ahead, Queued
<1>2. c \notin Ahead(state, c)
  BY DEF Ahead
<1>3. IsFiniteSet(Ahead(state, c)) /\ Cardinality(Ahead(state, c)) \in Nat
  BY PositionType, ClaimsCount
<1>4. Cardinality(Ahead(state, c) \cup {c}) = Cardinality(Ahead(state, c)) + 1
  BY <1>2, <1>3, FS_AddElement
<1>5. Cardinality(Ahead(state, c) \cup {c}) <= Cardinality(Ahead(state, d))
  BY <1>1, PositionType, FewerCount
<1> QED
  BY <1>3, <1>4, <1>5, PositionType, ClaimsCount

\* The loop never takes more claims than there are leases to give.
LEMMA PromotionFits ==
  ASSUME arrival \in [Claim -> Nat], NEW state, DistinctQueue(state),
         Cardinality(Active(state)) <= Budget
  PROVE  Cardinality(Active(state) \cup Promotable(state)) <= Budget
<1> DEFINE free  == Budget - Cardinality(Active(state))
           place == [c \in Promotable(state) |-> QueuePosition(state, c)]
<1>1. /\ Active(state) \in SUBSET Claim
      /\ Promotable(state) \in SUBSET Claim
      /\ Promotable(state) \subseteq Queued(state)
  BY DEF Active, Promotable, Queued
<1>2. Cardinality(Active(state)) \in Nat /\ Budget \in Nat /\ free \in Nat
  BY <1>1, ClaimsCount, LeasesAssumption DEF LeasesAssumption
<1>3. place \in Injection(Promotable(state), 1 .. free)
  <2>1. \A c \in Promotable(state) : place[c] \in 1 .. free
    BY <1>1, <1>2, PositionType DEF Promotable, Admits
  <2>2. ASSUME NEW c \in Promotable(state), NEW d \in Promotable(state),
               place[c] = place[d]
        PROVE  c = d
    <3> SUFFICES ASSUME c # d PROVE FALSE
      OBVIOUS
    <3>1. arrival[c] \in Nat /\ arrival[d] \in Nat /\ arrival[c] # arrival[d]
      BY <1>1 DEF DistinctQueue
    <3>2. place[c] \in Nat /\ place[d] \in Nat
      BY <2>1
    <3>3. CASE arrival[c] < arrival[d]
      <4>1. place[c] < place[d]
        BY <1>1, <3>3, EarlierIsInFront
      <4> QED
        BY <4>1, <2>2, <3>2
    <3>4. CASE arrival[d] < arrival[c]
      <4>1. place[d] < place[c]
        BY <1>1, <3>4, EarlierIsInFront
      <4> QED
        BY <4>1, <2>2, <3>2
    <3> QED
      BY <3>1, <3>3, <3>4
  <2> QED
    BY <2>1, <2>2 DEF Injection, IsInjective
<1>4. Cardinality(Promotable(state)) <= free
  <2>1. IsFiniteSet(1 .. free) /\ Cardinality(1 .. free) = free
    BY <1>2, FS_Interval
  <2> HIDE DEF free, place
  <2> QED
    BY <1>3, <2>1, FS_Injection
<1>5. Cardinality(Active(state) \cup Promotable(state))
        <= Cardinality(Active(state)) + Cardinality(Promotable(state))
  <2>1. Cardinality(Active(state) \cap Promotable(state)) \in Nat
    BY <1>1, ClaimsCount
  <2>2. Cardinality(Active(state) \cup Promotable(state))
          = Cardinality(Active(state)) + Cardinality(Promotable(state))
              - Cardinality(Active(state) \cap Promotable(state))
    BY <1>1, ClaimsCount, FS_Union
  <2>3. Cardinality(Promotable(state)) \in Nat
    BY <1>1, ClaimsCount
  <2> QED
    BY <1>2, <2>1, <2>2, <2>3
<1> QED
  BY <1>1, <1>2, <1>4, <1>5, ClaimsCount

\* A set of claims has a member that arrived first.
LEMMA Earliest ==
  ASSUME arrival \in [Claim -> Nat], NEW S \in SUBSET Claim, S # {}
  PROVE  \E c \in S : \A d \in S : arrival[c] <= arrival[d]
<1> DEFINE times == {arrival[c] : c \in S}
<1>1. times \subseteq Nat /\ times # {}
  OBVIOUS
<1>2. PICK first \in times :
        \A t \in times : ~ (<<t, first>> \in OpToRel(<, Nat))
  <2> HIDE DEF times
  <2> QED
    BY <1>1, NatLessThanWellFounded, WFMin
<1>3. \A t \in times : ~(t < first) /\ t \in Nat /\ first \in Nat
  <2> SUFFICES ASSUME NEW t \in times, t < first PROVE FALSE
    BY <1>1
  <2>1. t \in Nat /\ first \in Nat
    BY <1>1
  <2>2. <<t, first>> \in OpToRel(<, Nat)
    BY <2>1, Zenon DEF OpToRel
  <2> QED
    BY <1>2, <2>2
<1> QED
  BY <1>3

\* The loop leaves nobody waiting while one more lease would fit.
LEMMA PromotionFills ==
  ASSUME arrival \in [Claim -> Nat], NEW state, NEW c \in Queued(state),
         c \notin Promotable(state)
  PROVE  ~Admits(Cardinality(Active(state) \cup Promotable(state)))
<1> DEFINE free  == Budget - Cardinality(Active(state))
           stuck == Queued(state) \ Promotable(state)
<1>1. /\ Active(state) \in SUBSET Claim
      /\ Promotable(state) \in SUBSET Claim
      /\ stuck \in SUBSET Claim /\ stuck # {}
      /\ Active(state) \cap Promotable(state) = {}
  BY DEF Active, Promotable, Queued
<1>2. Cardinality(Active(state)) \in Nat /\ Budget \in Nat
  BY <1>1, ClaimsCount, LeasesAssumption DEF LeasesAssumption
<1>3. PICK q \in stuck : \A d \in stuck : arrival[q] <= arrival[d]
  <2> HIDE DEF stuck
  <2> QED
    BY <1>1, Earliest
<1>4. Ahead(state, q) \subseteq Promotable(state)
  <2> SUFFICES ASSUME NEW d \in Ahead(state, q), d \notin Promotable(state)
               PROVE  FALSE
    OBVIOUS
  <2>1. d \in stuck /\ d \in Claim /\ q \in Claim /\ arrival[d] < arrival[q]
    BY DEF Ahead, Queued
  <2> QED
    BY <1>3, <2>1
<1>5. Cardinality(Ahead(state, q)) >= free
  <2>1. q \in Claim /\ q \in Queued(state) /\ q \notin Promotable(state)
    BY DEF Queued
  <2>2. ~Admits(Cardinality(Active(state)) + QueuePosition(state, q) - 1)
    BY <2>1 DEF Promotable
  <2>3. QueuePosition(state, q) = Cardinality(Ahead(state, q)) + 1
        /\ Cardinality(Ahead(state, q)) \in Nat
    BY <2>1, PositionType, ClaimsCount
  <2> QED
    BY <1>2, <2>2, <2>3 DEF Admits
<1>6. Cardinality(Ahead(state, q)) <= Cardinality(Promotable(state))
  BY <1>1, <1>4, FewerCount
<1>7. Cardinality(Active(state) \cup Promotable(state))
        = Cardinality(Active(state)) + Cardinality(Promotable(state))
  <2>1. Cardinality(Active(state) \cup Promotable(state))
          = Cardinality(Active(state)) + Cardinality(Promotable(state))
              - Cardinality({})
    BY <1>1, ClaimsCount, FS_Union
  <2> QED
    BY <1>1, <1>2, <2>1, ClaimsCount, FS_EmptySet
<1>8. Cardinality(Ahead(state, q)) \in Nat /\ Cardinality(Promotable(state)) \in Nat
  <2>1. Ahead(state, q) \in SUBSET Claim
    BY <1>1, <1>4
  <2> QED
    BY <1>1, <2>1, ClaimsCount
<1> QED
  BY <1>2, <1>5, <1>6, <1>7, <1>8 DEF Admits

\* Of those who wait, the loop takes nobody before an earlier one.
LEMMA PromotionInOrder ==
  ASSUME arrival \in [Claim -> Nat], NEW state,
         NEW c \in Queued(state), c \notin Promotable(state),
         NEW d \in Promotable(state)
  PROVE  arrival[d] < arrival[c]
<1>1. c \in Claim /\ d \in Claim
  BY DEF Queued, Promotable
<1> SUFFICES ASSUME arrival[c] <= arrival[d] PROVE FALSE
  BY <1>1
<1>2. QueuePosition(state, c) <= QueuePosition(state, d)
  BY <1>1, EarlierIsNoFurtherBack
<1>3. Cardinality(Active(state)) \in Nat /\ Budget \in Nat
  <2>1. Active(state) \in SUBSET Claim
    BY DEF Active
  <2> QED
    BY <2>1, ClaimsCount, LeasesAssumption DEF LeasesAssumption
<1>4. /\ Cardinality(Active(state)) + QueuePosition(state, d) - 1 + 1 <= Budget
      /\ ~(Cardinality(Active(state)) + QueuePosition(state, c) - 1 + 1 <= Budget)
  BY DEF Promotable, Admits
<1> QED
  BY <1>1, <1>2, <1>3, <1>4, PositionType

-----------------------------------------------------------------------------
(* The inductive invariant.                                                *)

\* Where the live row may be among the tab rows of one claim.  Rows are written
\* in the order of their numbers, so the live one is the last one written.
Shaped(state, rows) ==
  /\ state \in {"absent", "queued"} => \A n \in TabNo : rows[n] = "absent"
  /\ state # "active" => \A n \in TabNo : rows[n] \notin LiveTab
  /\ state = "active" => \E n \in TabNo :
                          /\ rows[n] \in LiveTab
                          /\ \A m \in TabNo \ {n} : rows[m] \notin LiveTab
                          /\ \A m \in TabNo : m > n => rows[m] = "absent"

TabShape == \A c \in Claim : Shaped(claimState[c], tabState[c])

IInv ==
  /\ TypeOK
  /\ ArrivalOrder
  /\ BudgetRespected
  /\ TtlFitsState
  /\ TabShape

\* What the sweep leaves of each column it writes.
LEMMA SweepFacts ==
  ASSUME TypeOK
  PROVE  /\ Swept \in [Claim -> ClaimState]
         /\ SweptTabs \in [Claim -> [TabNo -> TabState]]
         /\ \A c \in Claim : GiveUpTabs(tabState[c]) \in [TabNo -> TabState]
         /\ \A c \in Claim : Swept[c] # claimState[c] =>
              claimState[c] \in LiveClaim /\ Swept[c] = "expired"
  BY DEF TypeOK, Swept, SweptTabs, GiveUpTabs, GivenUp, TabState, LiveTab,
         ClaimState, LiveClaim, FinalClaim, Lapsed

\* Init is a state of empty tables.
LEMMA InitInv == Init => IInv
<1> SUFFICES ASSUME Init PROVE IInv
  OBVIOUS
<1>1. TypeOK
  BY LeasesAssumption DEF LeasesAssumption, Init, TypeOK, ClaimState, TabState, Lifetime
<1>2. BudgetRespected
  <2>1. Active(claimState) = {}
    BY DEF Init, Active
  <2> QED
    BY <2>1, FS_EmptySet, LeasesAssumption DEF BudgetRespected, LeasesAssumption
<1>3. ArrivalOrder /\ TtlFitsState /\ TabShape
  BY DEF Init, ArrivalOrder, TtlFitsState, TabShape, Shaped, LiveTab
<1> QED
  BY <1>1, <1>2, <1>3 DEF IInv

\* Each row keeps values of its columns.
LEMMA TypeStep == TypeOK /\ [Next]_vars => TypeOK'
<1> SUFFICES ASSUME TypeOK, [Next]_vars PROVE TypeOK'
  OBVIOUS
<1> USE SweepFacts, LeasesAssumption
<1>1. 1 \in TabNo /\ "opening" \in TabState
  BY DEF LeasesAssumption, TabNo, TabState, LiveTab
<1>2. ASSUME NEW c \in Claim, Request(c) PROVE TypeOK'
  BY <1>1, <1>2 DEF Request, TypeOK, LeasesAssumption, ClaimState, LiveClaim, Lifetime
<1>3. ASSUME NEW c \in Claim, Status(c) PROVE TypeOK'
  BY <1>3 DEF Status, Extend, TypeOK
<1>4. ASSUME NEW c \in Claim, NEW n \in TabNo, TabReplace(c, n) PROVE TypeOK'
  <2>1. n + 1 \in TabNo
    BY <1>4 DEF TabReplace, TabNo, LeasesAssumption
  <2>2. GivenUp(tabState[c][n]) \in TabState
    BY DEF TypeOK, GivenUp, TabState, LiveTab
  <2> QED
    BY <1>1, <1>4, <2>1, <2>2 DEF TabReplace, Extend, TypeOK
<1>5. ASSUME NEW c \in Claim, Release(c) PROVE TypeOK'
  <2>1. claimState' \in [Claim -> ClaimState]
    BY <1>5 DEF Release, ClaimState, LiveClaim, FinalClaim
  <2>2. left' \in [Claim -> Lifetime] /\ ttl' \in [Claim -> Lifetime]
    BY <1>5 DEF Release, PromotedTtl, TypeOK, Lifetime, LeasesAssumption
  <2>3. tabState' \in [Claim -> [TabNo -> TabState]]
    BY <1>1, <1>5 DEF Release, TypeOK
  <2> QED
    BY <1>5, <2>1, <2>2, <2>3 DEF Release, TypeOK
<1>6. ASSUME NEW c \in Claim, ReleaseEnded(c) PROVE TypeOK'
  BY <1>6 DEF ReleaseEnded, TypeOK
<1>7. ASSUME NEW c \in Claim, NEW n \in TabNo,
             PageOpened(c, n) \/ PageClosed(c, n)
      PROVE  TypeOK'
  <2>1. PICK row \in TabState : tabState' = [tabState EXCEPT ![c][n] = row]
    BY <1>7 DEF PageOpened, PageClosed, TabState, LiveTab
  <2> QED
    BY <1>7, <2>1 DEF PageOpened, PageClosed, TypeOK
<1>8. CASE Tick
  <2>1. \A ticks \in Lifetime : Countdown(ticks) \in Lifetime
    BY DEF Countdown, Lifetime, LeasesAssumption
  <2> QED
    BY <1>8, <2>1 DEF Tick, TypeOK
<1>9. CASE UNCHANGED vars
  BY <1>9 DEF vars, TypeOK
<1> QED
  BY <1>2, <1>3, <1>4, <1>5, <1>6, <1>7, <1>8, <1>9
  DEF Next, KeyedCall, PageCall, PageRecorded

\* A request takes the next number; no other step writes one.
LEMMA ArrivalStep == TypeOK /\ ArrivalOrder /\ [Next]_vars => ArrivalOrder'
<1> SUFFICES ASSUME TypeOK, ArrivalOrder, [Next]_vars PROVE ArrivalOrder'
  OBVIOUS
<1> USE SweepFacts
<1>1. ASSUME NEW c \in Claim, Request(c) PROVE ArrivalOrder'
  <2>1. \A d \in Claim \ {c} : /\ arrival'[d] = arrival[d]
                               /\ claimState'[d] = "absent" <=> claimState[d] = "absent"
    BY <1>1 DEF Request, TypeOK, LiveClaim
  <2>2. nextArrival' = nextArrival + 1 /\ arrival'[c] = nextArrival + 1
    BY <1>1 DEF Request, TypeOK
  <2>3. \A d \in Claim : arrival[d] \in Nat /\ arrival[d] <= nextArrival
    BY DEF ArrivalOrder, TypeOK
  <2>4. nextArrival \in Nat
    BY DEF TypeOK
  <2>5. \A d \in Claim : arrival'[d] <= nextArrival'
    BY <2>1, <2>2, <2>3, <2>4
  <2>6. ASSUME NEW d \in Claim, NEW e \in Claim, d # e,
               claimState'[d] # "absent", claimState'[e] # "absent"
        PROVE  arrival'[d] # arrival'[e]
    <3>1. CASE d = c \/ e = c
      BY <2>1, <2>2, <2>3, <2>4, <2>6, <3>1
    <3>2. CASE d # c /\ e # c
      BY <2>1, <2>6, <3>2 DEF ArrivalOrder
    <3> QED
      BY <3>1, <3>2
  <2> QED
    BY <2>5, <2>6 DEF ArrivalOrder
<1>2. ASSUME UNCHANGED <<arrival, nextArrival>>,
             \A d \in Claim : claimState'[d] = "absent" <=> claimState[d] = "absent"
      PROVE  ArrivalOrder'
  BY <1>2 DEF ArrivalOrder
<1>3. ASSUME NEW c \in Claim,
             \/ Status(c) \/ Release(c) \/ ReleaseEnded(c)
             \/ \E n \in TabNo : TabReplace(c, n) \/ PageOpened(c, n) \/ PageClosed(c, n)
      PROVE  ArrivalOrder'
  <2>1. UNCHANGED <<arrival, nextArrival>>
    BY <1>3 DEF Status, Release, ReleaseEnded, TabReplace, PageOpened, PageClosed
  <2>2. \A d \in Claim : Swept[d] = "absent" <=> claimState[d] = "absent"
    BY DEF LiveClaim
  <2>3. ASSUME NEW d \in Claim
        PROVE  claimState'[d] = "absent" <=> claimState[d] = "absent"
    BY <1>3, <2>2
    DEF Status, Release, ReleaseEnded, TabReplace, PageOpened, PageClosed,
        Promotable, Queued, LiveClaim
  <2> QED
    BY <1>2, <2>1, <2>3
<1>4. CASE Tick \/ UNCHANGED vars
  BY <1>2, <1>4 DEF Tick, vars
<1> QED
  BY <1>1, <1>3, <1>4 DEF Next, KeyedCall, PageCall, PageRecorded

\* A request activates one lease beside those it counted, a release as many as
\* PromotionFits allows, and no other step activates any.
LEMMA BudgetStep ==
  TypeOK /\ ArrivalOrder /\ BudgetRespected /\ [Next]_vars => BudgetRespected'
<1> SUFFICES ASSUME TypeOK, ArrivalOrder, BudgetRespected, [Next]_vars
             PROVE  BudgetRespected'
  OBVIOUS
<1> DEFINE before == Active(claimState)
           after  == Active(claimState)'
<1>1. before \in SUBSET Claim /\ after \in SUBSET Claim
  BY DEF Active
<1>2. Cardinality(before) <= Budget
  BY DEF BudgetRespected
<1>3. /\ Active(Swept) \subseteq before
      /\ Cardinality(Active(Swept)) <= Budget
  <2>1. Active(Swept) \subseteq before
    BY SweepFacts DEF Active
  <2>2. Cardinality(Active(Swept)) <= Cardinality(before)
    BY <1>1, <2>1, FewerCount
  <2>3. Cardinality(Active(Swept)) \in Nat /\ Cardinality(before) \in Nat /\ Budget \in Nat
    BY <1>1, <2>1, ClaimsCount, LeasesAssumption DEF LeasesAssumption
  <2> QED
    BY <1>2, <2>1, <2>2, <2>3
<1>4. ASSUME NEW S \in SUBSET Claim, after \subseteq S, Cardinality(S) <= Budget
      PROVE  BudgetRespected'
  <2>1. Cardinality(after) <= Cardinality(S)
    BY <1>4, FewerCount
  <2>2. Cardinality(after) \in Nat /\ Cardinality(S) \in Nat /\ Budget \in Nat
    BY <1>1, ClaimsCount, LeasesAssumption DEF LeasesAssumption
  <2> QED
    BY <1>4, <2>1, <2>2 DEF BudgetRespected
<1> Active(Swept) \in SUBSET Claim
  BY DEF Active
<1>5. ASSUME NEW c \in Claim, Request(c) PROVE BudgetRespected'
  <2>1. CASE Admits(Cardinality(Active(Swept)))
    <3>1. after \subseteq Active(Swept) \cup {c}
      BY <1>5, SweepFacts DEF Request, Active
    <3>2. c \notin Active(Swept)
      BY <1>5, SweepFacts DEF Request, Active, LiveClaim
    <3>3. Cardinality(Active(Swept) \cup {c}) = Cardinality(Active(Swept)) + 1
      BY <3>2, ClaimsCount, FS_AddElement
    <3>4. Active(Swept) \cup {c} \in SUBSET Claim
      BY DEF Active
    <3> QED
      BY <1>4, <2>1, <3>1, <3>3, <3>4 DEF Admits
  <2>2. CASE ~Admits(Cardinality(Active(Swept)))
    <3>1. after \subseteq Active(Swept)
      BY <1>5, <2>2, SweepFacts DEF Request, Active
    <3> QED
      BY <1>3, <1>4, <3>1
  <2> QED
    BY <2>1, <2>2
<1>6. ASSUME NEW c \in Claim, Release(c) PROVE BudgetRespected'
  <2> DEFINE ended == [Swept EXCEPT ![c] = "released"]
  <2>1. after \subseteq Active(ended) \cup Promotable(ended)
    BY <1>6 DEF Release, Active
  <2>2. /\ Active(ended) \subseteq Active(Swept)
        /\ Active(ended) \cup Promotable(ended) \in SUBSET Claim
    BY SweepFacts DEF Active, Promotable, Queued
  <2>3. DistinctQueue(ended)
    BY SweepFacts DEF DistinctQueue, Queued, ArrivalOrder
  <2>4. Cardinality(Active(ended)) <= Budget
    <3>1. Cardinality(Active(ended)) <= Cardinality(Active(Swept))
      BY <2>2, FewerCount
    <3>2. Cardinality(Active(ended)) \in Nat /\ Cardinality(Active(Swept)) \in Nat
          /\ Budget \in Nat
      BY <2>2, ClaimsCount, LeasesAssumption DEF LeasesAssumption
    <3> QED
      BY <1>3, <3>1, <3>2
  <2>5. arrival \in [Claim -> Nat]
    BY DEF TypeOK
  <2> HIDE DEF ended
  <2>6. Cardinality(Active(ended) \cup Promotable(ended)) <= Budget
    BY <2>3, <2>4, <2>5, PromotionFits
  <2> QED
    BY <1>4, <2>1, <2>2, <2>6
<1>7. ASSUME NEW c \in Claim, Status(c) \/ ReleaseEnded(c)
                             \/ \E n \in TabNo : TabReplace(c, n)
      PROVE  BudgetRespected'
  <2>1. after \subseteq Active(Swept)
    BY <1>7 DEF Status, ReleaseEnded, TabReplace, Active
  <2> QED
    BY <1>3, <1>4, <2>1
<1>8. ASSUME UNCHANGED claimState PROVE BudgetRespected'
  BY <1>8 DEF BudgetRespected, Active
<1> QED
  BY <1>5, <1>6, <1>7, <1>8
  DEF Next, KeyedCall, PageCall, PageRecorded, PageOpened, PageClosed, Tick, vars

\* A row that is granted or promoted is given the lifetime of a lease and a row
\* that is queued the lifetime of a place; no other step writes ttl.
LEMMA TtlStep == TypeOK /\ TtlFitsState /\ [Next]_vars => TtlFitsState'
<1> SUFFICES ASSUME TypeOK, TtlFitsState, [Next]_vars PROVE TtlFitsState'
  OBVIOUS
<1> USE SweepFacts
<1>1. ASSUME NEW c \in Claim, Request(c) PROVE TtlFitsState'
  BY <1>1 DEF Request, TtlFitsState, TypeOK
<1>2. ASSUME NEW c \in Claim, Release(c) PROVE TtlFitsState'
  BY <1>2 DEF Release, PromotedTtl, Promotable, Queued, TtlFitsState, TypeOK
<1>3. ASSUME NEW c \in Claim, Status(c) \/ ReleaseEnded(c)
                             \/ \E n \in TabNo : TabReplace(c, n)
      PROVE  TtlFitsState'
  BY <1>3 DEF Status, ReleaseEnded, TabReplace, TtlFitsState
<1>4. ASSUME UNCHANGED <<claimState, ttl>> PROVE TtlFitsState'
  BY <1>4 DEF TtlFitsState
<1> QED
  BY <1>1, <1>2, <1>3, <1>4
  DEF Next, KeyedCall, PageCall, PageRecorded, PageOpened, PageClosed, Tick, vars

\* Giving the rows of a claim up leaves none live, and reopens none.
LEMMA GivenUpRows ==
  ASSUME NEW rows \in [TabNo -> TabState]
  PROVE  \A n \in TabNo : /\ GiveUpTabs(rows)[n] \notin LiveTab
                          /\ rows[n] \notin LiveTab => GiveUpTabs(rows)[n] = rows[n]
  BY DEF GiveUpTabs, GivenUp, TabState, LiveTab

\* The sweep keeps the shape: it gives up the rows of every lease it ends.
LEMMA SweptShape ==
  ASSUME TypeOK, TabShape
  PROVE  \A c \in Claim : Shaped(Swept[c], SweptTabs[c])
<1> SUFFICES ASSUME NEW c \in Claim PROVE Shaped(Swept[c], SweptTabs[c])
  OBVIOUS
<1>1. CASE Lapsed(c)
  <2>1. Swept[c] = "expired" /\ SweptTabs[c] = GiveUpTabs(tabState[c])
    BY <1>1 DEF Swept, SweptTabs
  <2>2. tabState[c] \in [TabNo -> TabState]
    BY DEF TypeOK
  <2> QED
    BY <2>1, <2>2, GivenUpRows DEF Shaped
<1>2. CASE ~Lapsed(c)
  BY <1>2 DEF Swept, SweptTabs, TabShape
<1> QED
  BY <1>1, <1>2

\* A first row reserved among none is the one live row of an active lease.
LEMMA GrantedShape ==
  ASSUME NEW rows \in [TabNo -> TabState], \A n \in TabNo : rows[n] = "absent"
  PROVE  Shaped("active", [rows EXCEPT ![1] = "opening"])
<1>1. 1 \in TabNo
  BY LeasesAssumption DEF TabNo, LeasesAssumption
<1> QED
  BY <1>1 DEF Shaped, LiveTab, TabNo

\* A replacement gives the live row up and reserves the one after it.
LEMMA ReplacedShape ==
  ASSUME NEW rows \in [TabNo -> TabState], Shaped("active", rows),
         NEW n \in TabNo, rows[n] \in LiveTab, n + 1 \in TabNo
  PROVE  Shaped("active", [rows EXCEPT ![n] = GivenUp(rows[n]), ![n + 1] = "opening"])
<1> DEFINE after == [rows EXCEPT ![n] = GivenUp(rows[n]), ![n + 1] = "opening"]
<1>1. n \in Nat /\ n + 1 # n /\ TabNo \subseteq Nat
  BY LeasesAssumption DEF TabNo, LeasesAssumption
<1>2. /\ \A m \in TabNo \ {n} : rows[m] \notin LiveTab
      /\ \A m \in TabNo : m > n => rows[m] = "absent"
  BY DEF Shaped
<1>3. after[n + 1] = "opening" /\ after[n] = GivenUp(rows[n])
      /\ \A m \in TabNo \ {n, n + 1} : after[m] = rows[m]
  BY <1>1
<1>4. GivenUp(rows[n]) \notin LiveTab
  BY DEF GivenUp, LiveTab
<1>5. \A m \in TabNo \ {n + 1} : after[m] \notin LiveTab
  BY <1>2, <1>3, <1>4
<1>6. \A m \in TabNo : m > n + 1 => after[m] = "absent"
  <2> SUFFICES ASSUME NEW m \in TabNo, m > n + 1 PROVE after[m] = "absent"
    OBVIOUS
  <2>1. m > n /\ m # n /\ m # n + 1
    BY <1>1
  <2> QED
    BY <1>2, <1>3, <2>1
<1> HIDE DEF after
<1>7. Shaped("active", after)
  BY <1>3, <1>5, <1>6 DEF Shaped, LiveTab
<1> QED
  BY <1>7 DEF after

\* The rows of a claim change shape with its state, or not at all.
LEMMA TabStep == TypeOK /\ TabShape /\ [Next]_vars => TabShape'
<1> SUFFICES ASSUME TypeOK, TabShape, [Next]_vars,
                    NEW d \in Claim
             PROVE  Shaped(claimState'[d], tabState'[d])
  BY DEF TabShape, Shaped
<1>1. /\ Shaped(claimState[d], tabState[d])
      /\ Shaped(Swept[d], SweptTabs[d])
  BY SweptShape DEF TabShape
<1>2. /\ tabState[d] \in [TabNo -> TabState]
      /\ SweptTabs[d] \in [TabNo -> TabState]
  BY SweepFacts DEF TypeOK
<1>3. ASSUME NEW c \in Claim, Request(c)
      PROVE  Shaped(claimState'[d], tabState'[d])
  <2>1. CASE d # c
    <3>1. claimState'[d] = Swept[d] /\ tabState'[d] = SweptTabs[d]
      BY <1>3, <2>1, SweepFacts DEF Request
    <3> QED
      BY <1>1, <3>1
  <2>2. CASE d = c
    <3>1. /\ SweptTabs[c] = tabState[c]
          /\ \A n \in TabNo : tabState[c][n] = "absent"
      BY <1>1, <1>3, <2>2 DEF Request, SweptTabs, Lapsed, LiveClaim, Shaped
    <3>2. CASE Admits(Cardinality(Active(Swept)))
      <4>1. /\ claimState'[c] = "active"
            /\ tabState'[c] = [SweptTabs[c] EXCEPT ![1] = "opening"]
        BY <1>3, <3>2, SweepFacts DEF Request
      <4> QED
        BY <1>2, <2>2, <3>1, <4>1, GrantedShape
    <3>3. CASE ~Admits(Cardinality(Active(Swept)))
      <4>1. claimState'[c] = "queued" /\ tabState'[c] = SweptTabs[c]
        BY <1>3, <3>3, SweepFacts DEF Request
      <4> QED
        BY <2>2, <3>1, <4>1 DEF Shaped, LiveTab
    <3> QED
      BY <3>2, <3>3
  <2> QED
    BY <2>1, <2>2
<1>4. ASSUME NEW c \in Claim, Status(c) \/ ReleaseEnded(c)
      PROVE  Shaped(claimState'[d], tabState'[d])
  BY <1>1, <1>4 DEF Status, ReleaseEnded
<1>5. ASSUME NEW c \in Claim, NEW n \in TabNo, TabReplace(c, n)
      PROVE  Shaped(claimState'[d], tabState'[d])
  <2>1. CASE d # c
    <3>1. claimState'[d] = Swept[d] /\ tabState'[d] = SweptTabs[d]
      BY <1>5, <2>1, SweepFacts DEF TabReplace
    <3> QED
      BY <1>1, <3>1
  <2>2. CASE d = c
    <3>1. Swept[c] \in LiveClaim /\ tabState[c][n] \in LiveTab
      BY <1>5 DEF TabReplace
    <3>2. ~Lapsed(c)
      BY <3>1 DEF Swept, LiveClaim
    <3>3. SweptTabs[c] = tabState[c] /\ Swept[c] = claimState[c]
      BY <3>2 DEF SweptTabs, Swept
    <3>4. claimState[c] = "active"
      BY <1>1, <2>2, <3>1 DEF Shaped
    <3>5. n + 1 \in TabNo
      BY <1>5, LeasesAssumption DEF TabReplace, TabNo, LeasesAssumption
    <3>6. Shaped("active", [tabState[c] EXCEPT ![n] = GivenUp(tabState[c][n]),
                                               ![n + 1] = "opening"])
      BY <1>1, <1>2, <2>2, <3>1, <3>4, <3>5, ReplacedShape
    <3>7. tabState'[c] = [SweptTabs[c] EXCEPT ![n] = GivenUp(tabState[c][n]),
                                              ![n + 1] = "opening"]
      BY <1>5, SweepFacts DEF TabReplace
    <3>8. claimState'[c] = Swept[c]
      BY <1>5 DEF TabReplace
    <3> QED
      BY <2>2, <3>3, <3>4, <3>6, <3>7, <3>8
  <2> QED
    BY <2>1, <2>2
<1>6. ASSUME NEW c \in Claim, Release(c)
      PROVE  Shaped(claimState'[d], tabState'[d])
  <2> DEFINE ended == [Swept EXCEPT ![c] = "released"]
  <2>1. CASE d \in Promotable(ended)
    <3>1. ended[d] = "queued" /\ d # c
      BY <2>1, SweepFacts DEF Promotable, Queued
    <3>2. claimState[d] = "queued" /\ \A n \in TabNo : tabState[d][n] = "absent"
      BY <1>1, <3>1, SweepFacts DEF Shaped
    <3>3. /\ claimState'[d] = "active"
          /\ tabState'[d] = [tabState[d] EXCEPT ![1] = "opening"]
      BY <1>6, <2>1, <3>1 DEF Release
    <3> QED
      BY <1>2, <3>2, <3>3, GrantedShape
  <2>2. CASE d \notin Promotable(ended) /\ d = c
    <3>1. claimState'[c] = "released" /\ tabState'[c] = GiveUpTabs(tabState[c])
      BY <1>6, <2>2, SweepFacts DEF Release
    <3> QED
      BY <1>2, <2>2, <3>1, GivenUpRows DEF Shaped
  <2>3. CASE d \notin Promotable(ended) /\ d # c
    <3>1. claimState'[d] = Swept[d] /\ tabState'[d] = SweptTabs[d]
      BY <1>6, <2>3, SweepFacts DEF Release
    <3> QED
      BY <1>1, <3>1
  <2> QED
    BY <2>1, <2>2, <2>3
<1>7. ASSUME NEW c \in Claim, NEW n \in TabNo, PageOpened(c, n)
      PROVE  Shaped(claimState'[d], tabState'[d])
  BY <1>1, <1>2, <1>7 DEF PageOpened, Shaped, LiveTab, TypeOK
<1>8. ASSUME NEW c \in Claim, NEW n \in TabNo, PageClosed(c, n)
      PROVE  Shaped(claimState'[d], tabState'[d])
  BY <1>1, <1>2, <1>8 DEF PageClosed, Shaped, LiveTab, TypeOK
<1>9. CASE Tick \/ UNCHANGED vars
  BY <1>1, <1>9 DEF Tick, vars
<1> QED
  BY <1>3, <1>4, <1>5, <1>6, <1>7, <1>8, <1>9
  DEF Next, KeyedCall, PageCall, PageRecorded

-----------------------------------------------------------------------------
(* The invariants of every behaviour.                                      *)

\* The conjuncts of the inductive invariant carry one another over a step.
LEMMA InvStep == IInv /\ [Next]_vars => IInv'
  BY TypeStep, ArrivalStep, BudgetStep, TtlStep, TabStep DEF IInv

\* The tables of every reachable state satisfy the inductive invariant.
THEOREM Invariance == Spec => []IInv
  BY InitInv, InvStep, PTL DEF Spec

\* Every row holds values of its columns, whatever is called in what order.
THEOREM TypeCorrect == Spec => []TypeOK
<1>1. IInv => TypeOK
  BY DEF IInv
<1> QED
  BY <1>1, Invariance, PTL

\* No order of claims, releases and lapses makes more leases active than
\* BROKER_TAB_BUDGET, however many a release promotes at once.
THEOREM BudgetHolds == Spec => []BudgetRespected
<1>1. IInv => BudgetRespected
  BY DEF IInv
<1> QED
  BY <1>1, Invariance, PTL

\* A renewal always extends by the lifetime of the state the claim is in.
THEOREM TtlHolds == Spec => []TtlFitsState
<1>1. IInv => TtlFitsState
  BY DEF IInv
<1> QED
  BY <1>1, Invariance, PTL

\* An active lease owns exactly one live tab row and no other claim owns one,
\* whatever grants, promotes, replaces or reclaims it.
THEOREM TabIdentityHolds == Spec => []TabIdentity
<1>1. IInv => TabIdentity
  <2> SUFFICES ASSUME IInv, NEW c \in Claim
               PROVE  IF claimState[c] = "active"
                        THEN \E n \in TabNo : LiveTabs(c) = {n}
                        ELSE LiveTabs(c) = {}
    BY DEF TabIdentity
  <2>1. Shaped(claimState[c], tabState[c])
    BY DEF IInv, TabShape
  <2>2. CASE claimState[c] = "active"
    <3>1. PICK n \in TabNo : /\ tabState[c][n] \in LiveTab
                             /\ \A m \in TabNo \ {n} : tabState[c][m] \notin LiveTab
      BY <2>1, <2>2 DEF Shaped
    <3>2. LiveTabs(c) = {n}
      BY <3>1 DEF LiveTabs
    <3> QED
      BY <2>2, <3>2
  <2>3. CASE claimState[c] # "active"
    BY <2>1, <2>3 DEF Shaped, LiveTabs
  <2> QED
    BY <2>2, <2>3
<1> QED
  BY <1>1, Invariance, PTL

-----------------------------------------------------------------------------
(* What a step may never do.                                               *)

\* Steps that neither sweep nor decide leave every claim row but its deadline.
LEMMA QuietSteps ==
  ASSUME Tick \/ UNCHANGED vars
           \/ \E c \in Claim, n \in TabNo : PageOpened(c, n) \/ PageClosed(c, n)
  PROVE  UNCHANGED <<claimState, ttl, arrival, nextArrival>>
  BY DEF Tick, vars, PageOpened, PageClosed

\* Of the claims queued before and after a release, none arrived before one
\* that the release promoted.
THEOREM PromotionsAreFifo == Spec => PromotionIsFifo
<1> DEFINE A == \A c, d \in Claim :
                  /\ claimState[c] = "queued" /\ claimState'[c] = "queued"
                  /\ claimState[d] = "queued" /\ claimState'[d] = "active"
                  => arrival[d] < arrival[c]
<1>1. IInv /\ [Next]_vars => A
  <2> SUFFICES ASSUME IInv, [Next]_vars, NEW c \in Claim, NEW d \in Claim,
                      claimState[c] = "queued", claimState'[c] = "queued",
                      claimState[d] = "queued", claimState'[d] = "active"
               PROVE  arrival[d] < arrival[c]
    OBVIOUS
  <2>1. TypeOK /\ arrival \in [Claim -> Nat]
    BY DEF IInv, TypeOK
  <2>2. Swept[d] # "active"
    BY <2>1, SweepFacts
  <2>3. ASSUME NEW e \in Claim, Release(e) PROVE arrival[d] < arrival[c]
    <3> DEFINE ended == [Swept EXCEPT ![e] = "released"]
    <3>1. d \in Promotable(ended)
      BY <2>1, <2>2, <2>3, SweepFacts DEF Release
    <3>2. c \in Queued(ended) /\ c \notin Promotable(ended)
      BY <2>1, <2>3, SweepFacts DEF Release, Queued
    <3> HIDE DEF ended
    <3> QED
      BY <2>1, <3>1, <3>2, PromotionInOrder
  <2>4. ASSUME NEW e \in Claim, Request(e) PROVE FALSE
    BY <2>1, <2>2, <2>4, SweepFacts DEF Request
  <2>5. ASSUME NEW e \in Claim, Status(e) \/ ReleaseEnded(e)
                               \/ \E n \in TabNo : TabReplace(e, n)
        PROVE  FALSE
    BY <2>2, <2>5 DEF Status, ReleaseEnded, TabReplace
  <2>6. ASSUME UNCHANGED claimState PROVE FALSE
    BY <2>6
  <2> QED
    BY <2>3, <2>4, <2>5, <2>6, QuietSteps
    DEF Next, KeyedCall, PageCall, PageRecorded
<1> QED
  BY <1>1, Invariance, PTL DEF Spec, PromotionIsFifo

\* Nobody comes to stand ahead of a claim that waits: a newcomer takes the
\* highest number, and the others can only drop out.
THEOREM PositionsImprove == Spec => PositionOnlyImproves
<1>1. IInv /\ [Next]_vars =>
        \A c \in Claim :
          claimState[c] = "queued" /\ claimState'[c] = "queued"
          => QueuePosition(claimState, c)' <= QueuePosition(claimState, c)
  <2> SUFFICES ASSUME IInv, [Next]_vars, NEW c \in Claim,
                      claimState[c] = "queued", claimState'[c] = "queued"
               PROVE  QueuePosition(claimState, c)' <= QueuePosition(claimState, c)
    OBVIOUS
  <2> DEFINE before == Ahead(claimState, c)
             after  == Ahead(claimState, c)'
  <2>1. TypeOK /\ ArrivalOrder
    BY DEF IInv
  <2>2. after \subseteq before
    <3> SUFFICES ASSUME NEW d \in Claim, claimState'[d] = "queued",
                        arrival'[d] < arrival'[c]
                 PROVE  claimState[d] = "queued" /\ arrival[d] < arrival[c]
      BY DEF Ahead, Queued
    <3>1. ASSUME NEW e \in Claim, Request(e)
          PROVE  claimState[d] = "queued" /\ arrival[d] < arrival[c]
      <4>1. /\ c # e /\ arrival'[c] = arrival[c]
            /\ arrival'[e] = nextArrival + 1
            /\ arrival[c] <= nextArrival
            /\ arrival[c] \in Nat /\ nextArrival \in Nat
        BY <2>1, <3>1 DEF Request, TypeOK, ArrivalOrder
      <4>2. d # e
        BY <4>1
      <4>3. arrival'[d] = arrival[d] /\ claimState'[d] = Swept[d]
        BY <2>1, <3>1, <4>2, SweepFacts DEF Request, TypeOK
      <4> QED
        BY <2>1, <4>1, <4>3, SweepFacts
    <3>2. ASSUME UNCHANGED arrival,
                 claimState'[d] = "queued" => claimState[d] = "queued"
          PROVE  claimState[d] = "queued" /\ arrival[d] < arrival[c]
      BY <3>2
    <3>3. ASSUME NEW e \in Claim, Release(e)
          PROVE  claimState[d] = "queued" /\ arrival[d] < arrival[c]
      <4>1. claimState'[d] = [Swept EXCEPT ![e] = "released"][d]
        BY <3>3 DEF Release
      <4> QED
        BY <2>1, <3>2, <3>3, <4>1, SweepFacts DEF Release
    <3>4. ASSUME NEW e \in Claim, Status(e) \/ ReleaseEnded(e)
                                 \/ \E n \in TabNo : TabReplace(e, n)
          PROVE  claimState[d] = "queued" /\ arrival[d] < arrival[c]
      BY <2>1, <3>2, <3>4, SweepFacts DEF Status, ReleaseEnded, TabReplace
    <3> QED
      BY <3>1, <3>2, <3>3, <3>4, QuietSteps DEF Next, KeyedCall, PageCall, PageRecorded
  <2>3. before \in SUBSET Claim /\ after \in SUBSET Claim
    BY DEF Ahead, Queued
  <2>4. Cardinality(after) <= Cardinality(before)
    BY <2>2, <2>3, FewerCount
  <2>5. QueuePosition(claimState, c) = Cardinality(before) + 1
    BY DEF QueuePosition, Ahead
  <2>6. QueuePosition(claimState, c)' = Cardinality(after) + 1
    BY DEF QueuePosition, Ahead, Queued
  <2> QED
    BY <2>3, <2>4, <2>5, <2>6, ClaimsCount
<1> QED
  BY <1>1, Invariance, PTL DEF Spec, PositionOnlyImproves

\* A lease that has ended keeps the state it ended in, and a tab row that is
\* closed is never written again.
THEOREM EndsAreFinal == Spec => EndedStaysEnded
<1>1. IInv /\ [Next]_vars =>
        \A c \in Claim :
          /\ claimState[c] \in FinalClaim => claimState'[c] = claimState[c]
          /\ \A n \in TabNo :
               tabState[c][n] = "closed" => tabState'[c][n] = "closed"
  <2> SUFFICES ASSUME IInv, [Next]_vars, NEW d \in Claim
               PROVE  /\ claimState[d] \in FinalClaim => claimState'[d] = claimState[d]
                      /\ \A m \in TabNo :
                           tabState[d][m] = "closed" => tabState'[d][m] = "closed"
    OBVIOUS
  <2> DEFINE Final  == claimState[d] \in FinalClaim => claimState'[d] = claimState[d]
             Closed == \A m \in TabNo :
                         tabState[d][m] = "closed" => tabState'[d][m] = "closed"
  <2>1. TypeOK /\ TabShape
    BY DEF IInv
  <2>2. claimState[d] \in FinalClaim => Swept[d] = claimState[d]
    BY DEF Swept, Lapsed, LiveClaim, FinalClaim, IInv, TypeOK
  <2>3. /\ tabState[d] \in [TabNo -> TabState]
        /\ Shaped(claimState[d], tabState[d])
    BY <2>1 DEF TypeOK, TabShape
  <2>4. \A m \in TabNo : tabState[d][m] = "closed" =>
          /\ SweptTabs[d][m] = "closed"
          /\ GiveUpTabs(tabState[d])[m] = "closed"
          /\ claimState[d] \notin {"absent", "queued"}
    BY <2>1, <2>3, GivenUpRows DEF SweptTabs, Shaped, LiveTab
  <2>5. ASSUME NEW c \in Claim, Request(c) PROVE Final /\ Closed
    <3>1. Final
      BY <2>1, <2>2, <2>5, SweepFacts DEF Request, FinalClaim
    <3>2. d # c => tabState'[d] = SweptTabs[d]
      BY <2>1, <2>5, SweepFacts DEF Request
    <3> QED
      BY <2>4, <2>5, <3>1, <3>2 DEF Request
  <2>6. ASSUME NEW c \in Claim, Status(c) \/ ReleaseEnded(c) PROVE Final /\ Closed
    BY <2>2, <2>4, <2>6 DEF Status, ReleaseEnded
  <2>7. ASSUME NEW c \in Claim, NEW n \in TabNo, TabReplace(c, n)
        PROVE  Final /\ Closed
    <3>1. Final
      BY <2>2, <2>7 DEF TabReplace
    <3>2. CASE d # c
      <4>1. tabState'[d] = SweptTabs[d]
        BY <2>1, <2>7, <3>2, SweepFacts DEF TabReplace
      <4> QED
        BY <2>4, <3>1, <4>1
    <3>3. CASE d = c
      <4>1. tabState[c][n] \in LiveTab /\ claimState[c] = "active"
        BY <2>3, <2>7, <3>3 DEF TabReplace, Shaped
      <4>2. n + 1 \in TabNo /\ n + 1 > n
        BY <2>7, LeasesAssumption DEF TabReplace, TabNo, LeasesAssumption
      <4>3. tabState[c][n + 1] = "absent"
        <5>1. PICK k \in TabNo : /\ \A m \in TabNo \ {k} : tabState[c][m] \notin LiveTab
                                 /\ \A m \in TabNo : m > k => tabState[c][m] = "absent"
          BY <2>3, <3>3, <4>1 DEF Shaped
        <5>2. k = n
          BY <4>1, <5>1
        <5> QED
          BY <4>2, <5>1, <5>2
      <4>4. \A m \in TabNo \ {n, n + 1} : tabState'[c][m] = SweptTabs[c][m]
        BY <2>1, <2>7, SweepFacts DEF TabReplace
      <4>5. \A m \in {n, n + 1} : tabState[c][m] # "closed"
        BY <4>1, <4>3 DEF LiveTab
      <4> QED
        BY <2>4, <3>1, <3>3, <4>4, <4>5
    <3> QED
      BY <3>2, <3>3
  <2>8. ASSUME NEW c \in Claim, Release(c) PROVE Final /\ Closed
    <3> DEFINE ended == [Swept EXCEPT ![c] = "released"]
    <3>1. CASE d \in Promotable(ended)
      <4>1. claimState[d] = "queued"
        BY <2>1, <3>1, SweepFacts DEF Promotable, Queued
      <4> QED
        BY <2>4, <4>1 DEF FinalClaim
    <3>2. CASE d \notin Promotable(ended) /\ d = c
      <4>1. claimState[d] \notin FinalClaim
        BY <2>2, <2>8, <3>2 DEF Release, LiveClaim, FinalClaim
      <4>2. tabState'[d] = GiveUpTabs(tabState[d])
        BY <2>8, <3>2 DEF Release
      <4> QED
        BY <2>4, <4>1, <4>2
    <3>3. CASE d \notin Promotable(ended) /\ d # c
      <4>1. claimState'[d] = Swept[d] /\ tabState'[d] = SweptTabs[d]
        BY <2>1, <2>8, <3>3, SweepFacts DEF Release
      <4> QED
        BY <2>2, <2>4, <4>1
    <3> QED
      BY <3>1, <3>2, <3>3
  <2>9. ASSUME NEW c \in Claim, NEW n \in TabNo,
               PageOpened(c, n) \/ PageClosed(c, n)
        PROVE  Final /\ Closed
    BY <2>1, <2>9 DEF PageOpened, PageClosed, TypeOK
  <2>10. CASE Tick \/ UNCHANGED vars
    BY <2>10 DEF Tick, vars
  <2> QED
    BY <2>5, <2>6, <2>7, <2>8, <2>9, <2>10
    DEF Next, KeyedCall, PageCall, PageRecorded
<1> QED
  BY <1>1, Invariance, PTL DEF Spec, EndedStaysEnded

\* Whatever grants, promotes or renews a lease has reclaimed every lease whose
\* expiry had passed.
THEOREM SweepsFirst == Spec => SweepPrecedesDecision
<1> DEFINE Decides == \E c \in Claim : /\ claimState'[c] = "active"
                                       /\ claimState[c] # "active" \/ left'[c] > left[c]
           Reclaims == \A d \in Claim : Lapsed(d) => claimState'[d] = "expired"
<1>1. IInv /\ [Next]_vars => (Decides => Reclaims)
  <2> SUFFICES ASSUME IInv, [Next]_vars, Decides, NEW d \in Claim, Lapsed(d)
               PROVE  claimState'[d] = "expired"
    OBVIOUS
  <2>1. TypeOK
    BY DEF IInv
  <2>2. Swept[d] = "expired" /\ claimState[d] \in LiveClaim
    BY DEF Swept, Lapsed
  <2>3. ASSUME NEW c \in Claim, Request(c) PROVE claimState'[d] = "expired"
    BY <2>1, <2>2, <2>3, SweepFacts DEF Request, LiveClaim
  <2>4. ASSUME NEW c \in Claim, Status(c) \/ ReleaseEnded(c)
                               \/ \E n \in TabNo : TabReplace(c, n)
        PROVE  claimState'[d] = "expired"
    BY <2>2, <2>4 DEF Status, ReleaseEnded, TabReplace
  <2>5. ASSUME NEW c \in Claim, Release(c) PROVE claimState'[d] = "expired"
    <3> DEFINE ended == [Swept EXCEPT ![c] = "released"]
    <3>1. d # c
      BY <2>2, <2>5 DEF Release, LiveClaim
    <3>2. ended[d] = "expired"
      BY <2>1, <2>2, <3>1, SweepFacts
    <3>3. d \notin Promotable(ended)
      BY <3>2 DEF Promotable, Queued
    <3> QED
      BY <2>5, <3>2, <3>3 DEF Release
  <2>6. ASSUME UNCHANGED claimState, \A c \in Claim : ~(left'[c] > left[c])
        PROVE  FALSE
    BY <2>6
  <2>7. ASSUME NEW c \in Claim, NEW n \in TabNo, PageOpened(c, n) \/ PageClosed(c, n)
        PROVE  FALSE
    <3>1. \A e \in Claim : left[e] \in Int
      BY <2>1, LeasesAssumption DEF TypeOK, Lifetime, LeasesAssumption
    <3> QED
      BY <2>6, <2>7, <3>1 DEF PageOpened, PageClosed
  <2>8. CASE Tick \/ UNCHANGED vars
    <3>1. \A e \in Claim : left[e] \in Nat
      BY <2>1, LeasesAssumption DEF TypeOK, Lifetime, LeasesAssumption
    <3>2. \A e \in Claim : left'[e] <= left[e]
      BY <2>8, <3>1 DEF Tick, vars, Countdown
    <3>3. \A e \in Claim : left'[e] \in Int
      BY <2>8, <3>1 DEF Tick, vars, Countdown
    <3> QED
      BY <2>6, <2>8, <3>1, <3>2, <3>3 DEF Tick, vars
  <2> QED
    BY <2>3, <2>4, <2>5, <2>7, <2>8 DEF Next, KeyedCall, PageCall, PageRecorded
<1> QED
  BY <1>1, Invariance, PTL DEF Spec, SweepPrecedesDecision

\* A release leaves no capacity idle beside a queue, nor does a request: only a
\* sweep that reclaimed an active lease does, in a call that released nothing.
THEOREM IdleOnlyAfterLapse == Spec => CapacityIdlesOnlyAfterLapse
<1> DEFINE Spared  == \A c \in Claim :
                        claimState[c] \in LiveClaim => claimState'[c] # "released"
           Reclaim == \E c \in Claim :
                        claimState[c] = "active" /\ claimState'[c] = "expired"
<1>1. IInv /\ [Next]_vars => (CapacityIdle' => Spared /\ (CapacityIdle \/ Reclaim))
  <2> SUFFICES ASSUME IInv, [Next]_vars, CapacityIdle'
               PROVE  Spared /\ (CapacityIdle \/ Reclaim)
    OBVIOUS
  <2>1. TypeOK /\ arrival \in [Claim -> Nat]
    BY DEF IInv, TypeOK
  <2>2. /\ Queued(claimState') # {}
        /\ Admits(Cardinality(Active(claimState')))
    BY DEF CapacityIdle, Queued, Active, Admits
  <2>3. ASSUME \A c \in Claim : claimState'[c] = Swept[c]
        PROVE  Spared /\ (CapacityIdle \/ Reclaim)
    <3>1. Spared
      BY <2>1, <2>3, SweepFacts DEF LiveClaim
    <3>2. Queued(claimState') \subseteq Queued(claimState)
      BY <2>1, <2>3, SweepFacts DEF Queued
    <3>3. ASSUME ~Reclaim PROVE Active(claimState') = Active(claimState)
      BY <2>1, <2>3, <3>3, SweepFacts DEF Active
    <3> QED
      BY <2>2, <3>1, <3>2, <3>3 DEF CapacityIdle
  <2>4. ASSUME NEW c \in Claim, Request(c)
        PROVE  Spared /\ (CapacityIdle \/ Reclaim)
    <3>1. claimState[c] = "absent" /\ \A d \in Claim \ {c} : claimState'[d] = Swept[d]
      BY <2>1, <2>4, SweepFacts DEF Request
    <3>2. Spared
      BY <2>1, <3>1, SweepFacts DEF LiveClaim
    <3>3. CASE Admits(Cardinality(Active(Swept)))
      <4>1. claimState'[c] = "active"
        BY <2>1, <2>4, <3>3, SweepFacts DEF Request
      <4>2. Queued(claimState') \subseteq Queued(claimState)
        BY <2>1, <3>1, <4>1, SweepFacts DEF Queued
      <4>3. ASSUME ~Reclaim PROVE Active(Swept) = Active(claimState)
        BY <2>1, <3>1, <4>3, SweepFacts DEF Active
      <4> QED
        BY <2>2, <3>2, <3>3, <4>2, <4>3 DEF CapacityIdle
    <3>4. CASE ~Admits(Cardinality(Active(Swept)))
      <4>1. claimState'[c] = "queued"
        BY <2>1, <2>4, <3>4, SweepFacts DEF Request
      <4>2. Active(claimState') = Active(Swept)
        BY <2>1, <3>1, <4>1, SweepFacts DEF Active
      <4> QED
        BY <2>2, <3>4, <4>2
    <3> QED
      BY <3>3, <3>4
  <2>5. ASSUME NEW c \in Claim, Release(c) PROVE FALSE
    <3> DEFINE ended == [Swept EXCEPT ![c] = "released"]
    <3>1. Active(claimState') = Active(ended) \cup Promotable(ended)
      BY <2>1, <2>5, SweepFacts DEF Release, Active, Promotable, Queued
    <3>2. PICK d \in Claim : claimState'[d] = "queued"
      BY <2>2 DEF Queued
    <3>3. d \in Queued(ended) /\ d \notin Promotable(ended)
      BY <2>1, <2>5, <3>2, SweepFacts DEF Release, Queued
    <3> HIDE DEF ended
    <3> QED
      BY <2>1, <2>2, <3>1, <3>3, PromotionFills
  <2>6. ASSUME NEW c \in Claim, Status(c) \/ ReleaseEnded(c)
                               \/ \E n \in TabNo : TabReplace(c, n)
        PROVE  Spared /\ (CapacityIdle \/ Reclaim)
    BY <2>3, <2>6 DEF Status, ReleaseEnded, TabReplace
  <2>7. ASSUME UNCHANGED claimState PROVE Spared /\ (CapacityIdle \/ Reclaim)
    <3>1. CapacityIdle
      BY <2>2, <2>7 DEF CapacityIdle
    <3> QED
      BY <2>7, <3>1 DEF LiveClaim
  <2> QED
    BY <2>4, <2>5, <2>6, <2>7, QuietSteps DEF Next, KeyedCall, PageCall, PageRecorded
<1> QED
  BY <1>1, Invariance, PTL DEF Spec, CapacityIdlesOnlyAfterLapse

-----------------------------------------------------------------------------
(* What the reads show.                                                    *)

\* Of the rows of a claim that are left there is an oldest.
LEMMA RowsHaveAnOldest ==
  ASSUME NEW rows \in SUBSET TabNo, rows # {}
  PROVE  \E n \in rows : \A k \in rows : n <= k
<1>1. rows \subseteq Nat
  BY LeasesAssumption DEF TabNo, LeasesAssumption
<1>2. PICK n \in rows : \A k \in rows : ~ (<<k, n>> \in OpToRel(<, Nat))
  BY <1>1, NatLessThanWellFounded, WFMin
<1>3. \A k \in rows : ~(k < n)
  <2> SUFFICES ASSUME NEW k \in rows, k < n PROVE FALSE
    OBVIOUS
  <2>1. k \in Nat /\ n \in Nat
    BY <1>1
  <2>2. <<k, n>> \in OpToRel(<, Nat)
    BY <2>1, Zenon DEF OpToRel
  <2> QED
    BY <1>2, <2>2
<1> QED
  BY <1>1, <1>3

\* A read shows of each state what a sweep would leave in it.
LEMMA ShownIsSwept ==
  ASSUME TypeOK
  PROVE  Shown("active") = Active(Swept) /\ Shown("queued") = Queued(Swept)
BY DEF TypeOK, Shown, Derived, HasElapsed, Active, Queued, Swept, Lapsed, LiveClaim

\* The list by time and id and the line by arrival put the same claims ahead of
\* one, up to those that asked in its millisecond.
LEMMA ListedWithinItsInstant ==
  ASSUME arrival \in [Claim -> Nat], DistinctQueue(Swept),
         Shown("queued") = Queued(Swept),
         NEW at \in Timings, NEW id \in IdOrders, NEW c \in Shown("queued")
  PROVE  PositionShown(at, id, c) - QueuePosition(Swept, c)
           \in -Cardinality(Beside(at, c)) .. Cardinality(Beside(at, c))
<1> DEFINE listed == ListedAhead(at, id, c)
           ahead  == {d \in Queued(Swept) : arrival[d] < arrival[c]}
           beside == Beside(at, c)
<1>1. /\ listed \in SUBSET Claim
      /\ ahead \in SUBSET Claim
      /\ beside \in SUBSET Claim
  BY DEF ListedAhead, Beside, Queued, Shown
<1>2. /\ QueueDepth \in Nat
      /\ at \in [Shown("queued") -> 1 .. QueueDepth]
      /\ \A d, e \in Shown("queued") : arrival[d] < arrival[e] => at[d] <= at[e]
  <2>1. QueueDepth \in Nat
    <3>1. Shown("queued") \in SUBSET Claim
      BY DEF Shown
    <3> QED
      BY <3>1, ClaimsCount DEF QueueDepth
  <2> QED
    BY <2>1 DEF Timings
<1>3. \A d \in Shown("queued") : at[d] \in Nat /\ arrival[d] \in Nat
  <2> SUFFICES ASSUME NEW d \in Shown("queued") PROVE at[d] \in Nat /\ arrival[d] \in Nat
    OBVIOUS
  <2>1. at[d] \in 1 .. QueueDepth
    BY <1>2
  <2>2. d \in Claim
    BY DEF Shown
  <2> QED
    BY <1>2, <2>1, <2>2
<1>4. listed \subseteq ahead \cup beside
  <2> SUFFICES ASSUME NEW d \in listed, d \notin beside PROVE d \in ahead
    OBVIOUS
  <2>1. d \in Shown("queued") /\ (at[d] < at[c] \/ (at[d] = at[c] /\ id[d] < id[c]))
    BY DEF ListedAhead
  <2>2. CASE at[d] < at[c]
    <3>1. ~(arrival[c] < arrival[d]) /\ d # c
      BY <1>2, <1>3, <2>1, <2>2
    <3>2. arrival[c] # arrival[d]
      BY <2>1, <3>1 DEF DistinctQueue
    <3> QED
      BY <1>3, <2>1, <3>1, <3>2
  <2>3. CASE at[d] = at[c] /\ id[d] < id[c]
    <3>1. d = c
      BY <2>1, <2>3 DEF Beside
    <3>2. QueueDepth \in Nat /\ id \in [Shown("queued") -> 1 .. QueueDepth]
      BY <1>2 DEF IdOrders
    <3>3. id[c] \in 1 .. QueueDepth
      BY <3>2
    <3> QED
      BY <2>3, <3>1, <3>2, <3>3
  <2> QED
    BY <2>1, <2>2, <2>3
<1>5. ahead \subseteq listed \cup beside
  <2> SUFFICES ASSUME NEW d \in ahead, d \notin beside PROVE d \in listed
    OBVIOUS
  <2>1. d \in Shown("queued") /\ arrival[d] < arrival[c]
    OBVIOUS
  <2>2. at[d] <= at[c] /\ d # c
    BY <1>2, <1>3, <2>1
  <2>3. at[d] # at[c]
    BY <2>1, <2>2 DEF Beside
  <2> QED
    BY <1>3, <2>1, <2>2, <2>3 DEF ListedAhead
<1>6. /\ Cardinality(listed) \in Nat
      /\ Cardinality(ahead) \in Nat
      /\ Cardinality(beside) \in Nat
      /\ Cardinality(listed) <= Cardinality(ahead) + Cardinality(beside)
      /\ Cardinality(ahead) <= Cardinality(listed) + Cardinality(beside)
  BY <1>1, <1>4, <1>5, TwoSetsCount
<1>7. /\ PositionShown(at, id, c) = Cardinality(listed) + 1
      /\ QueuePosition(Swept, c) = Cardinality(ahead) + 1
  BY DEF PositionShown, QueuePosition
<1> HIDE DEF listed, ahead, beside
<1>8. \A shown, served, near :
        shown = Cardinality(listed) + 1 /\ served = Cardinality(ahead) + 1
          /\ near = Cardinality(beside)
          => shown - served \in -near .. near
  BY <1>6
<1>9. Cardinality(beside) = Cardinality(Beside(at, c))
  BY DEF beside
<1> QED
  BY <1>7, <1>8, <1>9

\* Whatever a reader is told of room, of who waits and of tabs in use is what a
\* call decided at that moment would find, and a place in line is off by no
\* more than those who asked in the same millisecond.
THEOREM ReadsForetell == Spec => []ReadsForetellDecisions
<1>1. IInv => ReadsForetellDecisions
  <2> SUFFICES ASSUME IInv PROVE ReadsForetellDecisions
    OBVIOUS
  <2>1. TypeOK /\ TabShape
    BY DEF IInv
  <2>2. Shown("active") = Active(Swept) /\ Shown("queued") = Queued(Swept)
    BY <2>1, ShownIsSwept
  <2>3. Cardinality(Active(Swept)) \in Nat /\ Budget \in Nat
    <3>1. Active(Swept) \in SUBSET Claim
      BY DEF Active
    <3> QED
      BY <3>1, ClaimsCount, LeasesAssumption DEF LeasesAssumption
  <2>4. RoomAdvised <=> Admits(Cardinality(Active(Swept)))
    BY <2>2, <2>3 DEF RoomAdvised, TabsInUse, Admits
  <2>5. \A at \in Timings, id \in IdOrders, c \in Shown("queued") :
          PositionShown(at, id, c) - QueuePosition(Swept, c)
            \in -Cardinality(Beside(at, c)) .. Cardinality(Beside(at, c))
    <3>1. arrival \in [Claim -> Nat]
      BY <2>1 DEF TypeOK
    <3>2. DistinctQueue(Swept)
      BY <2>1, SweepFacts DEF IInv, ArrivalOrder, DistinctQueue, Queued
    <3> QED
      BY <2>2, <3>1, <3>2, ListedWithinItsInstant
  <2>7. \A c \in Shown("active") : TabShown(c) # 0
    <3> SUFFICES ASSUME NEW c \in Shown("active") PROVE TabShown(c) # 0
      OBVIOUS
    <3>1. c \in Claim /\ claimState[c] = "active"
      BY <2>1 DEF Shown, Derived
    <3>2. RowsLeft(c) \in SUBSET TabNo /\ RowsLeft(c) # {}
      BY <2>1, <3>1 DEF TabShape, Shaped, RowsLeft
    <3>3. TabShown(c) \in RowsLeft(c)
      BY <3>2, RowsHaveAnOldest DEF TabShown
    <3> QED
      BY <3>2, <3>3 DEF TabNo
  <2>8. {c \in Shown("active") : TabShown(c) # 0} = Shown("active")
    BY <2>7
  <2>9. LiveTabsShown = TabsInUse
    BY <2>8 DEF LiveTabsShown, TabsInUse
  <2> QED
    BY <2>2, <2>4, <2>5, <2>9 DEF ReadsForetellDecisions
<1> QED
  BY <1>1, Invariance, PTL

-----------------------------------------------------------------------------
(* The tables implement the pool.                                          *)

\* The claims a call finds lapsed, and puts out.
Silent == {c \in Claim : Lapsed(c)}

\* The places that are told in a state are those of its queue.
LineOf(state) == [c \in Queued(state) |-> QueuePosition(state, c)]

\* When some have left the queue, counting up the old positions of the others
\* gives the places they have in what is left.
LEMMA TheRestClosesUp ==
  ASSUME arrival \in [Claim -> Nat], NEW state, DistinctQueue(state), NEW after,
         Queued(after) \subseteq Queued(state), NEW c \in Queued(after)
  PROVE  Cardinality({d \in Queued(after) :
                        QueuePosition(state, d) <= QueuePosition(state, c)})
           = QueuePosition(after, c)
<1> DEFINE upTo == {d \in Queued(after) : QueuePosition(state, d) <= QueuePosition(state, c)}
<1>1. c \in Claim /\ Queued(after) \subseteq Claim
  BY DEF Queued
<1>2. ASSUME NEW d \in Queued(after)
      PROVE  QueuePosition(state, d) <= QueuePosition(state, c)
               <=> arrival[d] < arrival[c] \/ d = c
  <2>1. d \in Claim /\ d \in Queued(state) /\ c \in Queued(state)
    BY <1>1
  <2>2. /\ QueuePosition(state, d) \in Nat /\ QueuePosition(state, c) \in Nat
        /\ arrival[d] \in Nat /\ arrival[c] \in Nat
    BY <1>1, <2>1, PositionType
  <2>3. CASE arrival[d] < arrival[c]
    <3>1. QueuePosition(state, d) < QueuePosition(state, c)
      BY <1>1, <2>1, <2>3, EarlierIsInFront
    <3> QED
      BY <2>2, <2>3, <3>1
  <2>4. CASE arrival[c] < arrival[d]
    <3>1. QueuePosition(state, c) < QueuePosition(state, d)
      BY <1>1, <2>1, <2>4, EarlierIsInFront
    <3> QED
      BY <2>2, <2>4, <3>1
  <2>5. CASE arrival[c] = arrival[d]
    <3>1. d = c
      BY <2>1, <2>5 DEF DistinctQueue
    <3> QED
      BY <2>2, <3>1
  <2> QED
    BY <2>2, <2>3, <2>4, <2>5
<1>3. upTo = Ahead(after, c) \cup {c}
  <2>1. \A d \in Queued(after) : d \in upTo <=> arrival[d] < arrival[c] \/ d = c
    BY <1>2
  <2>2. Ahead(after, c) = {d \in Queued(after) : arrival[d] < arrival[c]}
    BY DEF Ahead
  <2>3. upTo \subseteq Queued(after)
    OBVIOUS
  <2> HIDE DEF upTo
  <2> QED
    BY <2>1, <2>2, <2>3
<1>4. c \notin Ahead(after, c)
  BY <1>1 DEF Ahead
<1>5. IsFiniteSet(Ahead(after, c))
  BY <1>1, PositionType, ClaimsCount
<1>6. Cardinality(upTo) = Cardinality(Ahead(after, c)) + 1
  BY <1>3, <1>4, <1>5, FS_AddElement
<1> QED
  BY <1>1, <1>6, PositionType

\* The pool counts as the tables do.
LEMMA PoolCounts == ASSUME NEW S PROVE Pool!Cardinality(S) = Cardinality(S)
BY DEF Pool!Cardinality, Cardinality, Pool!IsFiniteSet, IsFiniteSet

\* What the line of the pool is without some is the queue they have left.
LEMMA LineWithout ==
  ASSUME arrival \in [Claim -> Nat], DistinctQueue(claimState),
         NEW S, NEW after, Queued(after) = Queued(claimState) \ S
  PROVE  Pool!Without(S) = LineOf(after)
<1> DEFINE line == LineOf(claimState)
<1>1. Pool!Without(S) = [c \in (DOMAIN line) \ S |->
                           Pool!Cardinality({d \in (DOMAIN line) \ S : line[d] <= line[c]})]
  BY DEF Pool!Without, Pool!Waiting, LineOf
<1>2. DOMAIN line = Queued(claimState) /\ (DOMAIN line) \ S = Queued(after)
  BY DEF LineOf
<1>3. ASSUME NEW c \in Queued(after)
      PROVE  Cardinality({d \in Queued(after) : line[d] <= line[c]}) = QueuePosition(after, c)
  <2>1. {d \in Queued(after) : line[d] <= line[c]}
          = {d \in Queued(after) :
               QueuePosition(claimState, d) <= QueuePosition(claimState, c)}
    BY <1>2 DEF LineOf
  <2> QED
    BY <2>1, TheRestClosesUp
<1> HIDE DEF line
<1>4. Pool!Without(S) = [c \in Queued(after) |->
                           Cardinality({d \in Queued(after) : line[d] <= line[c]})]
  BY <1>1, <1>2, PoolCounts
<1> QED
  BY <1>3, <1>4 DEF LineOf

\* What the tables make of the pool before and after a step.
LEMMA PoolBefore ==
  ASSUME TypeOK
  PROVE  /\ Pool!Waiting = Queued(claimState)
         /\ Pool!Present = Active(claimState) \cup Queued(claimState)
         /\ Silent \subseteq Pool!Present
         /\ Active(Swept) = Active(claimState) \ Silent
         /\ Queued(Swept) = Queued(claimState) \ Silent
         /\ \A c \in Claim : Swept[c] \in FinalClaim <=> claimState[c] \in FinalClaim \/ c \in Silent
<1>1. Pool!Waiting = Queued(claimState)
  BY DEF Pool!Waiting
<1>2. Silent \subseteq Active(claimState) \cup Queued(claimState)
  BY DEF Silent, Lapsed, LiveClaim, Active, Queued
<1>3. /\ Active(Swept) = Active(claimState) \ Silent
      /\ Queued(Swept) = Queued(claimState) \ Silent
  BY DEF TypeOK, Active, Queued, Swept, Silent
<1>4. \A c \in Claim : Swept[c] \in FinalClaim <=> claimState[c] \in FinalClaim \/ c \in Silent
  BY DEF TypeOK, Swept, Silent, FinalClaim
<1> QED
  BY <1>1, <1>2, <1>3, <1>4 DEF Pool!Present

\* The claims that are no more.
Gone == {c \in Claim : claimState[c] \in FinalClaim}

\* A call that only sweeps and renews puts out the silent.
LEMMA SweepReclaims ==
  ASSUME IInv, claimState' = Swept, arrival' = arrival
  PROVE  Pool!Next
<1>1. TypeOK /\ arrival \in [Claim -> Nat] /\ DistinctQueue(claimState)
  BY DEF IInv, TypeOK, ArrivalOrder, DistinctQueue, Queued
<1>2. Active(claimState') = Active(claimState) \ Silent
  BY <1>1, PoolBefore
<1>3. LineOf(claimState)' = Pool!Without(Silent)
  <2>1. LineOf(claimState)' = LineOf(Swept)
    BY DEF LineOf, Queued, QueuePosition
  <2> QED
    BY <1>1, <2>1, PoolBefore, LineWithout
<1>4. Gone' = Gone \cup Silent
  <2>1. Silent \subseteq Claim
    BY DEF Silent
  <2> QED
    BY <1>1, <2>1, PoolBefore DEF Gone
<1>5. PICK silent : silent = Silent
  OBVIOUS
<1>6. silent \in SUBSET Pool!Present
  BY <1>1, <1>5, PoolBefore
<1>7. Pool!Reclaim(silent)
  BY <1>2, <1>3, <1>4, <1>5 DEF Pool!Reclaim, LineOf, Gone, Active, Queued
<1> QED
  BY <1>6, <1>7 DEF Pool!Next

\* A newcomer is told the place behind everybody.
LEMMA RequestArrives ==
  ASSUME IInv, NEW c \in Claim, Request(c)
  PROVE  Pool!Next
<1>1. TypeOK /\ arrival \in [Claim -> Nat] /\ DistinctQueue(claimState)
  BY DEF IInv, TypeOK, ArrivalOrder, DistinctQueue, Queued
<1>2. /\ claimState[c] = "absent" /\ c \notin Silent /\ Swept[c] = "absent"
      /\ c \notin Active(claimState) \cup Queued(claimState) \cup Gone
  BY <1>1 DEF Request, Silent, Lapsed, LiveClaim, Swept, Active, Queued, Gone, FinalClaim
<1>3. \A d \in Claim \ {c} : claimState'[d] = Swept[d] /\ arrival'[d] = arrival[d]
  BY <1>1, SweepFacts DEF Request
<1>4. claimState' \in [Claim -> ClaimState] /\ arrival' \in [Claim -> Nat]
  <2>1. TypeOK'
    BY <1>1, TypeStep DEF Next
  <2> QED
    BY <2>1 DEF TypeOK
<1>5. \A d \in Claim \ {c} : arrival'[d] < arrival'[c]
  BY <1>1 DEF Request, IInv, ArrivalOrder, TypeOK
<1>6. Gone' = Gone \cup Silent
  <2>1. claimState'[c] \in {"active", "queued"}
    BY <1>1, SweepFacts DEF Request
  <2>2. Silent \subseteq Claim
    BY DEF Silent
  <2> QED
    BY <1>1, <1>2, <1>3, <2>1, <2>2, PoolBefore DEF Gone, FinalClaim
\* The places of those who waited are what they would be without the newcomer.
<1>7. ASSUME NEW d \in Queued(Swept)
      PROVE  QueuePosition(claimState, d)' = QueuePosition(Swept, d)
  <2>1. d \in Claim \ {c}
    BY <1>2 DEF Queued
  <2>2. {e \in Queued(claimState') : arrival'[e] < arrival'[d]}
          = {e \in Queued(Swept) : arrival[e] < arrival[d]}
    <3>1. \A e \in Claim \ {c} : e \in Queued(claimState') <=> e \in Queued(Swept)
      BY <1>3 DEF Queued
    <3>2. c \notin Queued(Swept) /\ ~(arrival'[c] < arrival'[d])
      BY <1>2, <1>4, <1>5, <2>1 DEF Queued
    <3>3. Queued(claimState') \subseteq Claim /\ Queued(Swept) \subseteq Claim
      BY DEF Queued
    <3> QED
      BY <1>3, <2>1, <3>1, <3>2, <3>3
  <2> QED
    BY <2>2 DEF QueuePosition, Queued
<1>8. PICK silent : silent = Silent
  OBVIOUS
<1>9. silent \in SUBSET Pool!Present
  BY <1>1, <1>8, PoolBefore
<1>10. CASE Admits(Cardinality(Active(Swept)))
  <2>1. claimState' = [Swept EXCEPT ![c] = "active"]
    BY <1>10 DEF Request
  <2>2. Active(claimState') = Active(Swept) \cup {c} /\ Queued(claimState') = Queued(Swept)
    BY <1>1, <1>2, <2>1, SweepFacts DEF Active, Queued
  <2>3. LineOf(claimState)' = LineOf(Swept)
    BY <1>7, <2>2 DEF LineOf, Queued
  <2>4. Pool!Without(Silent) = LineOf(Swept)
    BY <1>1, PoolBefore, LineWithout
  <2>5. Pool!Cardinality(Active(claimState) \ Silent) < Budget
    <3>1. Active(Swept) \in SUBSET Claim
      BY DEF Active
    <3>2. Cardinality(Active(Swept)) \in Nat /\ Budget \in Nat
      BY <3>1, ClaimsCount, LeasesAssumption DEF LeasesAssumption
    <3>3. Pool!Cardinality(Active(claimState) \ Silent) = Cardinality(Active(Swept))
      BY <1>1, PoolBefore, PoolCounts
    <3> QED
      BY <1>10, <3>2, <3>3 DEF Admits
  <2>6. Active(claimState)' = (Active(claimState) \ Silent) \cup {c}
    BY <1>1, <2>2, PoolBefore DEF Active
  <2>7. Pool!Arrive(c, silent)
    BY <1>1, <1>8, <1>2, <1>6, <2>3, <2>4, <2>5, <2>6, PoolBefore
    DEF Pool!Arrive, LineOf, Gone
  <2> QED
    BY <1>9, <2>7 DEF Pool!Next
<1>11. CASE ~Admits(Cardinality(Active(Swept)))
  <2>1. claimState' = [Swept EXCEPT ![c] = "queued"]
    BY <1>11 DEF Request
  <2>2. Active(claimState') = Active(Swept) /\ Queued(claimState') = Queued(Swept) \cup {c}
    BY <1>1, <1>2, <2>1, SweepFacts DEF Active, Queued
  <2>3. QueuePosition(claimState, c)' = Cardinality(Queued(Swept)) + 1
    <3>1. {e \in Queued(claimState') : arrival'[e] < arrival'[c]} = Queued(Swept)
      <4>1. Queued(Swept) \subseteq Claim \ {c} /\ ~(arrival'[c] < arrival'[c])
        BY <1>2, <1>4 DEF Queued
      <4> QED
        BY <1>5, <2>2, <4>1
    <3> QED
      BY <3>1 DEF QueuePosition, Queued
  <2>4. Pool!Without(Silent) = LineOf(Swept)
    BY <1>1, PoolBefore, LineWithout
  <2>5. LineOf(claimState)'
          = [d \in Queued(Swept) \cup {c} |->
               IF d = c THEN Cardinality(Queued(Swept)) + 1 ELSE Pool!Without(Silent)[d]]
    <3>1. LineOf(claimState)'
            = [d \in Queued(Swept) \cup {c} |-> QueuePosition(claimState, d)']
      BY <2>2 DEF LineOf, Queued
    <3>2. \A d \in Queued(Swept) : LineOf(Swept)[d] = QueuePosition(claimState, d)' /\ d # c
      BY <1>2, <1>7 DEF LineOf, Queued
    <3> QED
      BY <2>3, <2>4, <3>1, <3>2
  <2>6. ~(Pool!Cardinality(Active(claimState) \ Silent) < Budget)
    <3>1. Active(Swept) \in SUBSET Claim
      BY DEF Active
    <3>2. Cardinality(Active(Swept)) \in Nat /\ Budget \in Nat
      BY <3>1, ClaimsCount, LeasesAssumption DEF LeasesAssumption
    <3>3. Pool!Cardinality(Active(claimState) \ Silent) = Cardinality(Active(Swept))
      BY <1>1, PoolBefore, PoolCounts
    <3> QED
      BY <1>11, <3>2, <3>3 DEF Admits
  <2>7. Active(claimState)' = Active(claimState) \ Silent
    BY <1>1, <2>2, PoolBefore DEF Active
  <2>8. Pool!Cardinality(Queued(claimState) \ Silent) = Cardinality(Queued(Swept))
    BY <1>1, PoolBefore, PoolCounts
  <2>9. Pool!Arrive(c, silent)
    BY <1>1, <1>8, <1>2, <1>6, <2>5, <2>6, <2>7, <2>8, PoolBefore
    DEF Pool!Arrive, LineOf, Gone
  <2> QED
    BY <1>9, <2>9 DEF Pool!Next
<1> QED
  BY <1>10, <1>11

\* A release lets in the front of the line for as long as places are free.
LEMMA ReleaseLeaves ==
  ASSUME IInv, NEW c \in Claim, Release(c)
  PROVE  Pool!Next
<1> DEFINE ended == [Swept EXCEPT ![c] = "released"]
<1>1. TypeOK /\ arrival \in [Claim -> Nat] /\ DistinctQueue(claimState)
  BY DEF IInv, TypeOK, ArrivalOrder, DistinctQueue, Queued
<1>2. PICK silent : silent = Silent
  OBVIOUS
<1>3. PICK out : out = silent \cup {c}
  OBVIOUS
<1>4. /\ silent \in SUBSET Pool!Present
      /\ c \in Pool!Present \ silent
      /\ arrival' = arrival
  BY <1>1, <1>2, PoolBefore DEF Release, Silent, Swept, LiveClaim, Active, Queued
<1>5. /\ Active(ended) = Active(claimState) \ out
      /\ Queued(ended) = Queued(claimState) \ out
  <2>1. \A d \in Claim : ended[d] = IF d = c THEN "released" ELSE Swept[d]
    BY <1>1, SweepFacts
  <2>2. /\ Active(ended) = Active(Swept) \ {c}
        /\ Queued(ended) = Queued(Swept) \ {c}
    <3> HIDE DEF ended
    <3> QED
      BY <2>1 DEF Active, Queued
  <2> HIDE DEF ended
  <2> QED
    BY <1>1, <1>2, <1>3, <2>2, PoolBefore
<1>6. claimState' = [d \in Claim |-> IF d \in Promotable(ended) THEN "active" ELSE ended[d]]
  BY DEF Release
<1>7. \A d \in Claim : ended[d] \in FinalClaim <=> claimState[d] \in FinalClaim \/ d \in out
  BY <1>1, <1>2, <1>3, SweepFacts, PoolBefore DEF FinalClaim
<1> HIDE DEF ended
<1>8. Promotable(ended) \subseteq Queued(ended) /\ Queued(ended) \subseteq Claim
  BY DEF Promotable, Queued
<1>9. /\ Active(claimState)' = Active(ended) \cup Promotable(ended)
      /\ Queued(claimState') = Queued(ended) \ Promotable(ended)
  BY <1>6, <1>8 DEF Active, Queued
<1>10. Gone' = Gone \cup out
  <2>1. out \subseteq Claim
    BY <1>2, <1>3 DEF Silent
  <2>2. \A d \in Claim : claimState'[d] \in FinalClaim <=> ended[d] \in FinalClaim
    BY <1>6, <1>8 DEF FinalClaim, Queued
  <2> QED
    BY <1>7, <2>1, <2>2 DEF Gone
<1>11. Pool!Without(out) = LineOf(ended)
  BY <1>1, <1>5, LineWithout
<1>12. Promotable(ended)
         = {d \in Queued(claimState) \ out :
              Pool!Without(out)[d] <= Budget - Pool!Cardinality(Active(claimState) \ out)}
  <2>1. Cardinality(Active(ended)) \in Nat /\ Budget \in Nat
    <3>1. Active(ended) \in SUBSET Claim
      BY DEF Active
    <3> QED
      BY <3>1, ClaimsCount, LeasesAssumption DEF LeasesAssumption
  <2>2. Pool!Cardinality(Active(claimState) \ out) = Cardinality(Active(ended))
    BY <1>5, PoolCounts
  <2>3. ASSUME NEW d \in Queued(ended)
        PROVE  /\ Pool!Without(out)[d] = QueuePosition(ended, d)
               /\ d \in Promotable(ended)
                    <=> QueuePosition(ended, d) <= Budget - Cardinality(Active(ended))
    <3>1. QueuePosition(ended, d) \in Nat
      BY <1>8, PositionType
    <3> QED
      BY <1>11, <2>1, <3>1 DEF LineOf, Promotable, Admits
  <2> QED
    BY <1>5, <1>8, <2>2, <2>3
<1>13. PICK called : called = Promotable(ended)
  OBVIOUS
<1>14. LineOf(claimState)' = Pool!Without(out \cup called)
  <2>1. LineOf(claimState)' = LineOf(claimState')
    BY <1>4 DEF LineOf, Queued, QueuePosition
  <2>2. PICK after : after = claimState'
    OBVIOUS
  <2>3. Queued(after) = Queued(claimState) \ (out \cup called)
    BY <1>5, <1>9, <1>13, <2>2
  <2> QED
    BY <1>1, <2>1, <2>2, <2>3, LineWithout
<1>15. Pool!Leave(c, silent)
  BY <1>1, <1>3, <1>4, <1>5, <1>9, <1>10, <1>12, <1>13, <1>14, PoolBefore
  DEF Pool!Leave, LineOf, Gone
<1> QED
  BY <1>4, <1>15 DEF Pool!Next

\* Every step of the tables is one of the pool or leaves it as it was.
LEMMA StepIsAPoolStep ==
  ASSUME IInv, [Next]_vars
  PROVE  [Pool!Next]_(Pool!vars)
<1>1. ASSUME UNCHANGED <<claimState, arrival>> PROVE UNCHANGED Pool!vars
  <2>1. /\ Active(claimState)' = Active(claimState)
        /\ LineOf(claimState)' = LineOf(claimState)
        /\ Gone' = Gone
    BY <1>1 DEF Active, LineOf, Queued, QueuePosition, Gone
  <2> QED
    BY <2>1 DEF Pool!vars, LineOf, Gone
<1>2. ASSUME NEW c \in Claim,
             Status(c) \/ ReleaseEnded(c) \/ \E n \in TabNo : TabReplace(c, n)
      PROVE  Pool!Next
  BY <1>2, SweepReclaims DEF Status, ReleaseEnded, TabReplace
<1>3. ASSUME NEW c \in Claim, Request(c) \/ Release(c) PROVE Pool!Next
  BY <1>3, RequestArrives, ReleaseLeaves
<1> QED
  BY <1>1, <1>2, <1>3, QuietSteps DEF Next, KeyedCall, PageCall, PageRecorded

\* The lease tables implement the pool: whatever a transaction sweeps, counts
\* and orders, callers see silent ones put out, newcomers served or lined up,
\* and a freed place go to the front of the line.
THEOREM PoolIsImplemented == Spec => ImplementsPool
<1>1. Init => Pool!Init
  <2> SUFFICES ASSUME Init PROVE Pool!Init
    OBVIOUS
  <2>1. Active(claimState) = {} /\ Queued(claimState) = {} /\ Gone = {}
    BY DEF Init, Active, Queued, Gone, FinalClaim
  <2> QED
    BY <2>1 DEF Pool!Init, Gone
<1>2. IInv /\ [Next]_vars => [Pool!Next]_(Pool!vars)
  BY StepIsAPoolStep
<1> QED
  BY <1>1, <1>2, Invariance, PTL DEF Spec, ImplementsPool, Pool!Spec
=============================================================================
