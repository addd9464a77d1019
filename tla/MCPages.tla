------------------------------- MODULE MCPages -------------------------------
(* Small instances of Pages.                                               *)
EXTENDS Pages, TLC

CONSTANTS c1, c2

\* A page no active lease's row names does not stay.  All pages are treated
\* alike but for being blank, and one that may be blank need not be: it is
\* enough to follow such a page.
LeakedPageCloses == PageClosesOrServes(CHOOSE p \in MayBeBlank : TRUE)

Symmetry == Permutations(Claim) \cup Permutations(Page) \cup Permutations(Worker)
=============================================================================
