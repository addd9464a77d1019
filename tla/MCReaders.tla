------------------------------- MODULE MCReaders -------------------------------
(* Readers on a small instance: one session with two claims, pages of the  *)
(* ledger two rows long unless more are asked for, and three at most.      *)
EXTENDS Readers

CONSTANTS c1, c2, p1, p2

Callers == Permutations(Caller)

\* Two answers may come in another order than their rows.
MCMaxUnderWay == [ledger |-> 1, feedback |-> 2, captures |-> 1]

MCSessionOf == [c \in Claim |-> "s"]

MCPictures ==
  {[tier |-> "default", kind |-> "viewport", downscaled |-> TRUE, warned |-> FALSE, reason |-> FALSE],
   [tier |-> "max", kind |-> "element", downscaled |-> FALSE, warned |-> TRUE, reason |-> TRUE]}

MCSettings == {"default"}

Ask(rating, category, noteLength) ==
  [rating |-> rating, category |-> category, noteLength |-> noteLength]

MCSubmissions ==
  {Ask(1, "no-path", 20), Ask(5, "worked-well", 2000), Ask(0, "no-path", 20),
   Ask(6, "no-path", 20), Ask(1, "no-path", 19), Ask(1, "no-path", 2001), Ask(1, "other", 20)}

MCEventLines ==
  {<< >>, <<FlagIs("limit", Number(9))>>,
   <<Flag("outcome"), Word("deny"), Flag("limit"), Number(1)>>,
   <<Flag("claim-id"), Word(c1), Flag("json")>>,
   <<Flag("kind"), Words({"navigate", "claim_renewed"}), Flag("limit"), Number(0)>>,
   <<Flag("since"), Word("yesterday"), Flag("limit"), Number(1)>>,
   <<Flag("guard")>>, <<Flag("tab-id"), Number(1)>>}

MCCaptureLines ==
  {<<Flag("lease"), Word(c1), Flag("until"), Number(1)>>,
   <<Flag("since"), Number(1), Flag("lease"), Word(c1)>>,
   <<Flag("targets")>>, <<Flag("targets"), Flag("until"), Number(1)>>,
   <<Flag("limit"), Word("few")>>}
  \cup {<<Flag("capture"), Number(i), Flag("limit"), Number(n)>> :
          i \in Ids, n \in 0 .. 1}

MCDiffLines ==
  {<<Flag(f), Number(i)>> : f \in {"capture", "target"}, i \in Ids}
  \cup {<<Flag(f), Number(i), Flag("limit"), Number(n)>> :
          f \in {"capture", "target"}, i \in Ids, n \in 1 .. 2}
=============================================================================
