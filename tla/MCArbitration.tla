---------------------------- MODULE MCArbitration ----------------------------
(* Arbitration on a small instance for TLC.                                *)
EXTENDS Arbitration, TLC

\* Claims, login processes and browsers of one kind are interchangeable.
Symmetries == Permutations(Claim) \cup Permutations(Login)
=============================================================================
