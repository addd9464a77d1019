------------------------------ MODULE PoolView ------------------------------
(* The lease tables as the pool of LeasePool.                              *)
EXTENDS Leases

\* The active leases are inside, the queued ones in line at the position they
\* are told, the ended ones gone.
Pool == INSTANCE LeasePool WITH
  Client <- Claim,
  Size   <- Budget,
  inside <- Active(claimState),
  line   <- [c \in Queued(claimState) |-> QueuePosition(claimState, c)],
  gone   <- {c \in Claim : claimState[c] \in FinalClaim}

\* Every transaction of the broker is one step of the pool: it reclaims the
\* silent, serves in order of arrival, fills what a release frees and never
\* holds more than the budget.
ImplementsPool == Pool!Spec
=============================================================================
