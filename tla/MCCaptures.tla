------------------------------ MODULE MCCaptures ------------------------------
(* Small instances of Captures and Images: pages eight pixels wide in a    *)
(* browser that shows four rows, tiers of six and twelve pixels.           *)
EXTENDS Images

CONSTANTS text, long

Block(x, y, width, height) == (x .. x + width - 1) \X (y .. y + height - 1)
Box(x, y, width, height) == [x |-> x, y |-> y, width |-> width, height |-> height]

\* Four bars that are not near, each in the box around the others, one of them of
\* two pieces too small alone that touch at a corner; a page longer than the lower
\* tier, with a rule too thin for its area beside the bars, and a longer element.
MCLayout ==
  (text :> [width |-> 8, height |-> 6, element |-> Box(0, 0, 8, 1),
            dark |-> Block(0, 0, 3, 1) \cup Block(4, 0, 1, 2) \cup Block(5, 2, 1, 2)
                       \cup Block(2, 5, 4, 1) \cup Block(0, 2, 1, 4)]) @@
  (long :> [width |-> 8, height |-> 12, element |-> Box(0, 0, 8, 2),
            dark |-> Block(7, 0, 1, 6) \cup Block(1, 9, 3, 3)])

Ask(fullPage, selector, tier, reason) ==
  [fullPage |-> fullPage, selector |-> selector, tier |-> tier, reason |-> reason]

MCRequests ==
  {Ask(FALSE, FALSE, "detail", "none"), Ask(FALSE, TRUE, Null, "none"),
   Ask(TRUE, FALSE, "max", "good"), Ask(TRUE, FALSE, "max", "short"),
   Ask(TRUE, TRUE, Null, "none"), Ask(FALSE, FALSE, "other", "none")}

MCTierEdge == [t \in Tier |-> IF t = "default" THEN 6 ELSE 12]

\* Command lines for every lease's key and one nobody has, in either order.
MCImageLines ==
  UNION {{FlattenSeq(<<w[1], w[2], w[3], w[4]>>), FlattenSeq(<<w[4], w[3], w[2], w[1]>>)} : w \in
    {<<Flag("lease-key"), Key(c), Flag("out"), Text("file")>> : c \in Claim \cup {Null}}
      \X {<<Flag(kind), Ident(i)>> : kind \in Selectors, i \in Id}
      \X {<< >>, <<Flag("index"), Number(0)>>, <<Flag("index"), Number(1)>>, <<Flag("index")>>}
      \X {<< >>, <<Flag("side"), Text("before")>>, <<Flag("side"), Text("middle")>>,
          <<Flag("json")>>}}

Symmetry == Permutations(Process) \cup Permutations(Claim)
=============================================================================
