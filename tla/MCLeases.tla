------------------------------ MODULE MCLeases ------------------------------
(* Leases, its reads and the pool it implements on a small instance.       *)
EXTENDS Reads, PoolView

\* Everybody in line is served while holders release and nobody lapses.  The
\* specification treats all claims alike, so it is enough to follow one.
QueueServed == Served(CHOOSE c \in Claim : TRUE)

\* Bound: one claim opens pages and replaces its tab, at most once.  What the
\* tabs of a claim go through touches no other claim's.
OneClaimBrowses ==
  \A c \in Claim \ {CHOOSE c \in Claim : TRUE} :
    /\ tabState'[c][1] \notin {"open", "closing"}
    /\ tabState'[c][2] = "absent"
=============================================================================
