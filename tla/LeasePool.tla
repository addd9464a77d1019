------------------------------ MODULE LeasePool ------------------------------
(***************************************************************************)
(* What the broker promises a caller, without keys, clocks or tab rows:    *)
(* a pool of Size places and one line of waiting clients.  A place freed   *)
(* by a client that leaves goes to the front of the line; places and line  *)
(* alike lose the clients that have gone silent, all at once, whenever     *)
(* anybody calls; and a client that is gone does not come back.            *)
(*                                                                         *)
(* It also says what the broker does not promise: places reclaimed from    *)
(* silent clients wait for the next client to leave, or for a newcomer.    *)
(***************************************************************************)
EXTENDS Integers, FiniteSets

CONSTANTS Client, Size

VARIABLES
  inside,   \* the clients that hold a place
  line,     \* the clients that wait, each with its position, the front at 1
  gone      \* the clients that have been and are no more

vars == <<inside, line, gone>>

Waiting == DOMAIN line
Present == inside \cup Waiting

\* The line once some have left it: the others keep their order and close up.
Without(clients) ==
  [c \in Waiting \ clients |->
     Cardinality({d \in Waiting \ clients : line[d] <= line[c]})]

\* The silent clients are put out and their places kept.
Reclaim(silent) ==
  /\ inside' = inside \ silent
  /\ line' = Without(silent)
  /\ gone' = gone \cup silent

\* A newcomer takes a place if one is free once the silent are out, and the
\* end of the line if not.
Arrive(c, silent) ==
  /\ c \notin Present \cup gone
  /\ gone' = gone \cup silent
  /\ IF Cardinality(inside \ silent) < Size
       THEN /\ inside' = (inside \ silent) \cup {c}
            /\ line' = Without(silent)
       ELSE /\ inside' = inside \ silent
            /\ line' = [d \in (Waiting \ silent) \cup {c} |->
                          IF d = c THEN Cardinality(Waiting \ silent) + 1
                                   ELSE Without(silent)[d]]

\* A client leaves of its own accord; the front of the line goes in until the
\* pool is full or the line is empty.
Leave(c, silent) ==
  LET out    == silent \cup {c}
      stay   == inside \ out
      called == {d \in Waiting \ out : Without(out)[d] <= Size - Cardinality(stay)}
  IN /\ c \in Present
     /\ inside' = stay \cup called
     /\ line' = Without(out \cup called)
     /\ gone' = gone \cup out

Init == inside = {} /\ line = [c \in {} |-> 0] /\ gone = {}

Next ==
  \E silent \in SUBSET Present :
    \/ Reclaim(silent)
    \/ \E c \in Client : Arrive(c, silent)
    \/ \E c \in Present \ silent : Leave(c, silent)

Spec == Init /\ [][Next]_vars
=============================================================================
