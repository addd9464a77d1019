------------------------------- MODULE Leases -------------------------------
(***************************************************************************)
(* The lease tables of the broker: `claims`, `claim_arrival` and `tabs`,   *)
(* and the arbitration transactions that change them (src/src/service).    *)
(*                                                                         *)
(* Every caller process opens the same store, and BEGIN IMMEDIATE admits   *)
(* one writer at a time, so one arbitration call is one action here.  The  *)
(* call first sweeps every lease whose expiry has passed, then decides,    *)
(* and both commit together.  A refusal throws, which rolls back the sweep *)
(* as well: a refused call leaves the state as it was, and is a stutter.   *)
(*                                                                         *)
(* What a browser row holds is Arbitration's, which adds its guards and    *)
(* its columns to these actions.                                           *)
(***************************************************************************)
EXTENDS Integers, FiniteSets

CONSTANTS
  Claim,          \* every claim id ever minted; each is used for one row
  Budget,         \* BROKER_TAB_BUDGET: how many leases may be active
  LeaseSeconds,   \* lifetime of an active lease, counted in clock ticks
  QueueSeconds,   \* lifetime of a place in the queue, counted in clock ticks
  MaxTabs         \* bound: tab rows one lease may own over its life

\* config/environment.ts accepts positive integers only for the three settings.
ASSUME LeasesAssumption ==
  /\ IsFiniteSet(Claim)
  /\ Budget \in Nat \ {0}
  /\ LeaseSeconds \in Nat \ {0}
  /\ QueueSeconds \in Nat \ {0}
  /\ MaxTabs \in Nat \ {0}

VARIABLES
  claimState,     \* claims.state, "absent" before the row is inserted
  left,           \* ticks until claims.expires_at, 0 once it has passed
  ttl,            \* claims.ttl_seconds
  arrival,        \* claims.arrival
  nextArrival,    \* claim_arrival.next
  tabState        \* tabState[c][n]: state of the n-th tab row of claim c

vars == <<claimState, left, ttl, arrival, nextArrival, tabState>>

TabNo == 1 .. MaxTabs

LiveClaim  == {"queued", "active"}
FinalClaim == {"released", "expired", "revoked"}   \* only reconcile revokes
LiveTab    == {"opening", "open"}

ClaimState == {"absent"} \cup LiveClaim \cup FinalClaim
TabState   == {"absent", "closing", "closed"} \cup LiveTab

\* How long any lease can have left.
Lifetime == (0 .. LeaseSeconds) \cup (0 .. QueueSeconds)

-----------------------------------------------------------------------------
(* Reading the tables.                                                     *)

Active(state) == {c \in Claim : state[c] = "active"}
Queued(state) == {c \in Claim : state[c] = "queued"}

\* Whether one more lease fits beside the `active` ones.
Admits(active) == active + 1 <= Budget

\* One more than the queued claims that arrived earlier.
QueuePosition(state, c) ==
  Cardinality({ahead \in Queued(state) : arrival[ahead] < arrival[c]}) + 1

PromotableCountedOnce(state) ==
  {c \in Queued(state) : Admits(Cardinality(Active(state)))}

PromotableHeadOnly(state) ==
  {c \in Queued(state) : /\ Admits(Cardinality(Active(state)))
                         /\ QueuePosition(state, c) = 1}

PromotableNobody(state) == {}

\* The claims the promotion loop takes from the front of the queue: it stops
\* when the budget is full or the queue is empty, so it takes the claim at
\* position p exactly when p more leases fit.
Promotable(state) ==
  {c \in Queued(state) :
     Admits(Cardinality(Active(state)) + QueuePosition(state, c) - 1)}

\* The live tab rows of a claim.
LiveTabs(c) == {n \in TabNo : tabState[c][n] \in LiveTab}

-----------------------------------------------------------------------------
(* The sweep that opens every arbitration transaction.                     *)

Lapsed(c) == claimState[c] \in LiveClaim /\ left[c] = 0

GivenUpIfOpen(row) == IF row = "open" THEN "closing" ELSE row

\* A row that names a page must have the page closed; one that was never
\* opened is already finished.  Every other row is left alone.
GivenUp(row) ==
  CASE row = "open"    -> "closing"
    [] row = "opening" -> "closed"
    [] OTHER           -> row

GiveUpTabs(rows) == [n \in TabNo |-> GivenUp(rows[n])]

SweptQueueOnly ==
  [c \in Claim |-> IF Lapsed(c) /\ claimState[c] = "queued"
                     THEN "expired" ELSE claimState[c]]

Swept ==
  [c \in Claim |-> IF Lapsed(c) THEN "expired" ELSE claimState[c]]

SweptTabs ==
  [c \in Claim |-> IF Lapsed(c) THEN GiveUpTabs(tabState[c]) ELSE tabState[c]]

\* Every call that carries a live key moves its expiry to now + ttl.
Extend(c) == left' = [left EXCEPT ![c] = ttl[c]]

\* A promoted claim is put on the lifetime of a lease.
PromotedTtl(promoted) ==
  [c \in Claim |-> IF c \in promoted THEN LeaseSeconds ELSE ttl[c]]

-----------------------------------------------------------------------------
(* The arbitration operations.                                             *)

\* browser_claim: granted at once if a lease fits, queued at the back if not.
Request(c) ==
  /\ claimState[c] = "absent"
  /\ LET granted  == Admits(Cardinality(Active(Swept)))
         lifetime == IF granted THEN LeaseSeconds ELSE QueueSeconds
     IN /\ claimState' =
             [Swept EXCEPT ![c] = IF granted THEN "active" ELSE "queued"]
        /\ left' = [left EXCEPT ![c] = lifetime]
        /\ ttl'  = [ttl EXCEPT ![c] = lifetime]
        /\ tabState' = IF granted THEN [SweptTabs EXCEPT ![c][1] = "opening"]
                                  ELSE SweptTabs
  /\ nextArrival' = nextArrival + 1
  /\ arrival' = [arrival EXCEPT ![c] = nextArrival']

\* browser_status, and the part every keyed call shares: resolve and extend.
Status(c) ==
  /\ Swept[c] \in LiveClaim
  /\ claimState' = Swept
  /\ tabState' = SweptTabs
  /\ Extend(c)
  /\ UNCHANGED <<ttl, arrival, nextArrival>>

\* navigate, act, read, evaluate and capture: a status on a tab of the lease
\* itself.  What they do to the page happens after the commit.
PageCall(c, n) ==
  /\ SweptTabs[c][n] \in LiveTab
  /\ Status(c)

\* browser_tab_replace: the old row is given up and a new one reserved.
TabReplace(c, n) ==
  /\ Swept[c] \in LiveClaim
  /\ tabState[c][n] \in LiveTab
  /\ n < MaxTabs
  /\ claimState' = Swept
  /\ tabState' = [SweptTabs EXCEPT ![c][n] = GivenUp(tabState[c][n]),
                                   ![c][n + 1] = "opening"]
  /\ Extend(c)
  /\ UNCHANGED <<ttl, arrival, nextArrival>>

\* browser_release of a live lease: end it, give up its tab, then promote from
\* the front of the queue for as long as capacity exists.
Release(c) ==
  /\ Swept[c] \in LiveClaim
  /\ LET ended    == [Swept EXCEPT ![c] = "released"]
         promoted == Promotable(ended)
     IN /\ claimState' =
             [d \in Claim |-> IF d \in promoted THEN "active" ELSE ended[d]]
        /\ left' = [d \in Claim |->
                      CASE d \in promoted -> LeaseSeconds
                        [] d = c          -> 0
                        [] OTHER          -> left[d]]
        /\ ttl' = PromotedTtl(promoted)
        /\ tabState' =
             [d \in Claim |->
                CASE d \in promoted -> [tabState[d] EXCEPT ![1] = "opening"]
                  [] d = c          -> GiveUpTabs(tabState[c])
                  [] OTHER          -> SweptTabs[d]]
  /\ UNCHANGED <<arrival, nextArrival>>

\* browser_release of a lease that has ended, be it by this call's own sweep:
\* it answers without a refusal, so the sweep commits; nothing is promoted.
ReleaseEnded(c) ==
  /\ Swept[c] \in FinalClaim
  /\ claimState' = Swept
  /\ tabState' = SweptTabs
  /\ UNCHANGED <<left, ttl, arrival, nextArrival>>

-----------------------------------------------------------------------------
(* Writes made after a commit, each a statement of its own without a       *)
(* sweep.                                                                  *)

PageOpenedAnyRow(c, n) ==
  /\ tabState[c][n] # "absent"
  /\ tabState' = [tabState EXCEPT ![c][n] = "open"]
  /\ UNCHANGED <<claimState, left, ttl, arrival, nextArrival>>

\* recordTabOpened: the first page call on an unopened tab has opened a page.
PageOpened(c, n) ==
  /\ tabState[c][n] = "opening"
  /\ tabState' = [tabState EXCEPT ![c][n] = "open"]
  /\ UNCHANGED <<claimState, left, ttl, arrival, nextArrival>>

\* recordTabClosed, or settleUnopenedTab when the page is nowhere to be found.
PageClosed(c, n) ==
  /\ tabState[c][n] = "closing"
  /\ tabState' = [tabState EXCEPT ![c][n] = "closed"]
  /\ UNCHANGED <<claimState, left, ttl, arrival, nextArrival>>

\* A deadline in the past is 0 ticks away.
Countdown(ticks) == IF ticks > 0 THEN ticks - 1 ELSE 0

\* The clock of the machine, which every process shares.
Tick ==
  /\ left' = [c \in Claim |-> Countdown(left[c])]
  /\ UNCHANGED <<claimState, ttl, arrival, nextArrival, tabState>>

-----------------------------------------------------------------------------
Init ==
  /\ claimState = [c \in Claim |-> "absent"]
  /\ left = [c \in Claim |-> 0]
  /\ ttl = [c \in Claim |-> 0]
  /\ arrival = [c \in Claim |-> 0]
  /\ nextArrival = 0
  /\ tabState = [c \in Claim |-> [n \in TabNo |-> "absent"]]

\* What a caller may ask with the key it was given for claim c.
KeyedCall(c) ==
  \/ Status(c)
  \/ Release(c)
  \/ ReleaseEnded(c)
  \/ \E n \in TabNo : PageCall(c, n) \/ TabReplace(c, n)

PageRecorded(c) == \E n \in TabNo : PageOpened(c, n) \/ PageClosed(c, n)

Next ==
  \/ \E c \in Claim : Request(c) \/ KeyedCall(c) \/ PageRecorded(c)
  \/ Tick

Spec == Init /\ [][Next]_vars

-----------------------------------------------------------------------------
(* Properties.                                                             *)

\* Every row holds values of its columns.
TypeOK ==
  /\ claimState \in [Claim -> ClaimState]
  /\ left \in [Claim -> Lifetime]
  /\ ttl \in [Claim -> Lifetime]
  /\ arrival \in [Claim -> Nat]
  /\ nextArrival \in Nat
  /\ tabState \in [Claim -> [TabNo -> TabState]]

\* No interleaving of claims, releases and lapses makes more leases active
\* than the budget, whatever the queue held when capacity came back.
BudgetRespected == Cardinality(Active(claimState)) <= Budget

\* The identity of SCHEMA section 1.4: an active lease owns exactly one live
\* tab row, across grants, promotions, replacements and reclamation, and no
\* other claim owns one.
TabIdentity ==
  \A c \in Claim :
    IF claimState[c] = "active" THEN \E n \in TabNo : LiveTabs(c) = {n}
                                ELSE LiveTabs(c) = {}

\* A renewal extends by the lifetime the caller was last told: a queue place by
\* the queue's, and a promoted lease by the lease's (section 1.3).
TtlFitsState ==
  \A c \in Claim : /\ claimState[c] = "queued" => ttl[c] = QueueSeconds
                   /\ claimState[c] = "active" => ttl[c] = LeaseSeconds

\* A call that grants, promotes or renews any lease has first reclaimed every
\* lease whose expiry had passed, so no lapsed lease, its own included, is
\* revived and none is counted against a newcomer.
SweepPrecedesDecision ==
  [][(\E c \in Claim : /\ claimState'[c] = "active"
                       /\ claimState[c] # "active" \/ left'[c] > left[c])
       => \A d \in Claim : Lapsed(d) => claimState'[d] = "expired"]_vars

\* A promotion passes over nobody who is still waiting: of two queued claims
\* the one that stays queued arrived later.
PromotionIsFifo ==
  [][\A c, d \in Claim :
       /\ claimState[c] = "queued" /\ claimState'[c] = "queued"
       /\ claimState[d] = "queued" /\ claimState'[d] = "active"
       => arrival[d] < arrival[c]]_vars

\* SCHEMA section 2.5: "A caller's position only ever improves", whoever else
\* comes, lapses, leaves or is promoted while it waits.
PositionOnlyImproves ==
  [][\A c \in Claim :
       claimState[c] = "queued" /\ claimState'[c] = "queued"
       => QueuePosition(claimState, c)' <= QueuePosition(claimState, c)]_vars

\* Somebody waits while a lease would fit.
CapacityIdle ==
  Queued(claimState) # {} /\ Admits(Cardinality(Active(claimState)))

\* Capacity is left idle beside a queue only by a sweep that reclaimed an
\* active lease in a call that released nothing: no request, and no release
\* whatever it frees and sweeps, strands a caller who waits.
CapacityIdlesOnlyAfterLapse ==
  [][CapacityIdle' =>
       /\ \A c \in Claim :
            claimState[c] \in LiveClaim => claimState'[c] # "released"
       /\ \/ CapacityIdle
          \/ \E c \in Claim :
               claimState[c] = "active" /\ claimState'[c] = "expired"]_vars

\* An ended lease stays ended as it ended, and a closed tab row stays closed:
\* no later call, sweep or late answer of a browser brings either back.
EndedStaysEnded ==
  [][\A c \in Claim :
       /\ claimState[c] \in FinalClaim => claimState'[c] = claimState[c]
       /\ \A n \in TabNo :
            tabState[c][n] = "closed" => tabState'[c][n] = "closed"]_vars

-----------------------------------------------------------------------------
(* Liveness, for callers that keep to the protocol: as long as leases are  *)
(* held, one of the holders gives its lease back in the end.  Nothing in   *)
(* the service makes them, so this is an assumption about callers.         *)

HolderReleases(c) == claimState[c] = "active" /\ Release(c)

FairSpec == Spec /\ WF_vars(\E c \in Claim : HolderReleases(c))

\* Whoever waits is granted a lease, unless they give their place up, whoever
\* else comes and goes, as long as all call in before their deadlines.
Served(c) ==
  claimState[c] = "queued" ~> \/ claimState[c] \in {"active", "released"}
                              \/ \E d \in Claim : Lapsed(d) \/ claimState[d] = "expired"
=============================================================================
