--------------------------------- MODULE Reads ---------------------------------
(***************************************************************************)
(* What is read of the lease tables without a lock and without a sweep:    *)
(* the status of the pool, which any caller may ask for without a key      *)
(* (service/operations/pool-status.ts), and the operators' overview        *)
(* (operations/status.ts).  A lease whose expiry has passed is stored as   *)
(* live until some call sweeps it, so both derive what it is by now        *)
(* (operations/derive.ts).                                                 *)
(*                                                                         *)
(* The line is served in the order of arrival; the overview lists it by    *)
(* the time of the claims and then by their ids.  Both are left open here: *)
(* the time of a claim is read in the transaction that gives it its        *)
(* arrival, so it does not fall as arrivals rise, but claims of one        *)
(* millisecond share it; ids are drawn at random.                          *)
(***************************************************************************)
EXTENDS Leases

HasElapsed(c) == left[c] = 0

StoredState(c) == claimState[c]

\* deriveClaimState: only a live lease can have lapsed.
Derived(c) ==
  IF claimState[c] \in LiveClaim /\ HasElapsed(c) THEN "expired" ELSE claimState[c]

\* The leases the reads select, and of those the ones still in this state.
Shown(state) == {c \in Claim : claimState[c] \in LiveClaim /\ Derived(c) = state}

\* The oldest row that is not done with.
RowsLeft(c) == {n \in TabNo : tabState[c][n] \in LiveTab \cup {"closing"}}

TabShown(c) ==
  IF RowsLeft(c) = {} THEN 0 ELSE CHOOSE n \in RowsLeft(c) : \A k \in RowsLeft(c) : n <= k

TabsInUse  == Cardinality(Shown("active"))
QueueDepth == Cardinality(Shown("queued"))
LiveTabsShown == Cardinality({c \in Shown("active") : TabShown(c) # 0})

\* The times the claims in line may have been made at.  Only their order is
\* looked at, so as many instants as there are claims are enough.
Timings ==
  {at \in [Shown("queued") -> 1 .. QueueDepth] :
     \A c, d \in Shown("queued") : arrival[c] < arrival[d] => at[c] <= at[d]}

\* The orders their ids may have.
IdOrders ==
  {id \in [Shown("queued") -> 1 .. QueueDepth] :
     \A c, d \in Shown("queued") : id[c] = id[d] => c = d}

\* ORDER BY created_at, id.
ListedAhead(at, id, c) ==
  {d \in Shown("queued") : at[d] < at[c] \/ (at[d] = at[c] /\ id[d] < id[c])}

PositionShown(at, id, c) == Cardinality(ListedAhead(at, id, c)) + 1

\* The others who asked in the same millisecond.
Beside(at, c) == {d \in Shown("queued") \ {c} : at[d] = at[c]}

\* poolAdvice: there is room, or a claim made now will be queued.
RoomAdvised == ~(TabsInUse >= Budget)

-----------------------------------------------------------------------------
\* The reads and the transactions judge expiry, capacity and order in code of
\* their own (pool-status.ts, queue.ts).  What a caller reads at any moment is
\* what a call decided at that moment would find: room is advised exactly when
\* a claim would be granted, everybody in line and nobody else is shown waiting,
\* and as many tabs are shown as leases that hold one.  A place in line is the
\* one served for whoever asked in a millisecond of its own; the ids exchange
\* those of one millisecond, so it is off by no more than how many they are.
ReadsForetellDecisions ==
  /\ RoomAdvised <=> Admits(Cardinality(Active(Swept)))
  /\ Shown("queued") = Queued(Swept)
  /\ \A at \in Timings, id \in IdOrders, c \in Shown("queued") :
       PositionShown(at, id, c) - QueuePosition(Swept, c)
         \in -Cardinality(Beside(at, c)) .. Cardinality(Beside(at, c))
  /\ LiveTabsShown = TabsInUse
=============================================================================
