------------------------------- MODULE Pictures -------------------------------
(***************************************************************************)
(* What is made of a picture of a page: scaled to its tier (capture/), set *)
(* beside an earlier one, and the differences gathered into regions        *)
(* (diff/).                                                                *)
(*                                                                         *)
(* A picture is a width, a height and a shade for each pixel, counted from *)
(* <<0, 0>>; colours are one shade of grey.                                *)
(***************************************************************************)
EXTENDS Integers, FiniteSets, SequencesExt, FiniteSetsExt

CONSTANTS
  TierEdge,          \* the longest edge each tier allows (TIER_LONGEST_EDGE)
  ColourTolerance,   \* shades no further apart than this are the same
  MergeDistance,     \* regions no further apart than this are one
  MinimumRegionArea, \* smaller regions are dropped, unless they are lines
  MaximumRegions,    \* regions past this many are cut off
  CropPadding        \* what a crop shows around its region

Tier == {"default", "detail", "max"}

ASSUME PicturesAssumption ==
  /\ TierEdge \in [Tier -> Nat \ {0}]
  /\ {ColourTolerance, MergeDistance, MinimumRegionArea, CropPadding} \subseteq Nat
  /\ MaximumRegions \in Nat \ {0}

ThinLineAspectRatio      == 6
ThinLineMaximumThickness == 4

Larger(a, b)  == IF a < b THEN b ELSE a
Smaller(a, b) == IF a < b THEN a ELSE b
Pixels(width, height) == (0 .. width - 1) \X (0 .. height - 1)

-----------------------------------------------------------------------------
(* Scaling to a tier.                                                      *)

\* n * edge / longest to the nearest whole number, halves up.
Scaled(n, edge, longest) == Larger(1, (2 * n * edge + longest) \div (2 * longest))

ScaledDimensions(width, height, edge) ==
  LET longest == Larger(width, height) IN
  IF longest <= edge
  THEN [width |-> width, height |-> height]
  ELSE [width |-> Scaled(width, edge, longest), height |-> Scaled(height, edge, longest)]

\* The source columns (or rows) from which column i of `to' is averaged.
Covered(i, from, to) ==
  LET start == (i * from) \div to
      end   == Smaller(from, Larger(start + 1, ((i + 1) * from + to - 1) \div to))
  IN start .. end - 1

Downscale(pic, edge) ==
  LET target == ScaledDimensions(pic.width, pic.height, edge)
      box(p) == Covered(p[1], pic.width, target.width)
                  \X Covered(p[2], pic.height, target.height)
  IN [width |-> target.width, height |-> target.height,
      shade |-> [p \in Pixels(target.width, target.height) |->
                   LET sum == SumFunctionOnSet(pic.shade, box(p))
                   IN (2 * sum + Cardinality(box(p))) \div (2 * Cardinality(box(p)))]]

-----------------------------------------------------------------------------
(* Two pictures side by side.                                              *)

NotComparable(widths, change) ==
  [comparable |-> FALSE, widthMismatch |-> widths, pageLengthChange |-> change, height |-> 0]

Comparable(height, change) ==
  [comparable |-> TRUE, widthMismatch |-> FALSE, pageLengthChange |-> change, height |-> height]

\* Pictures of different widths are not compared.  Heights may only differ
\* for full pages, which are compared over the rows they share.
ReconcileGeometry(earlier, current, kind) ==
  LET change == current.height - earlier.height
      shared == Smaller(earlier.height, current.height) IN
  CASE earlier.width # current.width -> NotComparable(TRUE, 0)
    [] earlier.width = current.width /\ change = 0 -> Comparable(current.height, 0)
    [] earlier.width = current.width /\ change # 0 /\ kind # "full_page" ->
         NotComparable(FALSE, 0)
    [] OTHER -> IF shared > 0 THEN Comparable(shared, change) ELSE NotComparable(FALSE, change)

\* The pixels the comparison library finds different.  Those it takes for
\* smoothed edges, which it leaves out, do not occur in these pictures.
Mask(earlier, current, height) ==
  {p \in Pixels(current.width, height) :
     LET difference == earlier.shade[p] - current.shade[p]
     IN Larger(difference, -difference) > ColourTolerance}

-----------------------------------------------------------------------------
(* Regions: a rectangle and the number of changed pixels in it.            *)

Beside(p, q) ==
  \/ p[1] = q[1] /\ p[2] - q[2] \in {-1, 1}
  \/ p[2] = q[2] /\ p[1] - q[1] \in {-1, 1}

\* The pixels of a mask that are joined to p by steps to a side.
JoinedTo(p, mask) ==
  LET flood[found \in SUBSET mask] ==
        LET more == {q \in mask \ found : \E r \in found : Beside(q, r)}
        IN IF more = {} THEN found ELSE flood[found \cup more]
  IN flood[{p}]

BoxOf(pixels) ==
  LET columns == {p[1] : p \in pixels}
      rows    == {p[2] : p \in pixels}
  IN [x |-> Min(columns), y |-> Min(rows),
      width |-> Max(columns) - Min(columns) + 1,
      height |-> Max(rows) - Min(rows) + 1,
      changedPixels |-> Cardinality(pixels)]

\* The boxes of the joined pieces of a mask, one after another.
Components(mask) ==
  LET pieces == SetToSeq({JoinedTo(p, mask) : p \in mask})
  IN [i \in DOMAIN pieces |-> BoxOf(pieces[i])]

\* No further apart than the distance, in both directions.
Within(a, b, distance) ==
  /\ a.x - (b.x + b.width) <= distance /\ b.x - (a.x + a.width) <= distance
  /\ a.y - (b.y + b.height) <= distance /\ b.y - (a.y + a.height) <= distance

Joined(a, b) ==
  LET x == Smaller(a.x, b.x)
      y == Smaller(a.y, b.y)
  IN [x |-> x, y |-> y,
      width  |-> Larger(a.x + a.width, b.x + b.width) - x,
      height |-> Larger(a.y + a.height, b.y + b.height) - y,
      changedPixels |-> a.changedPixels + b.changedPixels]

Region == [x : Nat, y : Nat, width : Nat, height : Nat, changedPixels : Nat]

\* The last region takes in those before it that are near, each time starting
\* over with what it has become, and is put at the end.
Absorb[regions \in Seq(Region)] ==
  LET region == Last(regions)
      next   == Front(regions)
      near   == {i \in DOMAIN next : Within(region, next[i], MergeDistance)}
  IN IF near = {} THEN regions
     ELSE Absorb[Append(RemoveAt(next, Min(near)), Joined(region, next[Min(near)]))]

Pass[current \in Seq(Region)] ==
  IF current = << >> THEN << >> ELSE Absorb[Append(Pass[Front(current)], Last(current))]

\* Passes over all regions until one merges nothing.
Merged[current \in Seq(Region)] ==
  LET next == Pass[current]
  IN IF Len(next) = Len(current) THEN next ELSE Merged[next]

IsThinLine(r) ==
  LET thickness == Smaller(r.width, r.height)
  IN /\ thickness <= ThinLineMaximumThickness
     /\ Larger(r.width, r.height) >= thickness * ThinLineAspectRatio

Area(r) == r.width * r.height

SurvivesSizeFilter(r) == Area(r) >= MinimumRegionArea \/ IsThinLine(r)

ReportedBefore(a, b) ==
  \/ Area(a) > Area(b)
  \/ Area(a) = Area(b) /\ a.y < b.y
  \/ Area(a) = Area(b) /\ a.y = b.y /\ a.x < b.x

\* The members of a set in an order, a set of pairs.
Listing(S, before) ==
  [n \in 1 .. Cardinality(S) |->
     CHOOSE x \in S : Cardinality({y \in S : <<y, x>> \in before}) = n - 1]

\* What a sequence has in these places, one after another.
InPlaces(s, places) ==
  LET order == Listing(places, {b \in places \X places : b[1] < b[2]})
  IN [n \in DOMAIN order |-> s[order[n]]]

\* Equals stay in the order they were in.
Reported(regions) ==
  LET places == DOMAIN regions
      before == {b \in places \X places :
                   \/ ReportedBefore(regions[b[1]], regions[b[2]])
                   \/ ~ReportedBefore(regions[b[2]], regions[b[1]]) /\ b[1] < b[2]}
      order  == Listing(places, before)
  IN [n \in places |-> regions[order[n]]]

Surviving(regions) == {i \in DOMAIN regions : SurvivesSizeFilter(regions[i])}

ExtractRegionsFiltered(mask) ==
  Reported(Merged[SelectSeq(Components(mask), SurvivesSizeFilter)])

\* The filter is for what came of the merging.
ExtractRegions(mask) ==
  LET found == Merged[Components(mask)]
  IN Reported(InPlaces(found, Surviving(found)))

-----------------------------------------------------------------------------
(* What a comparison reports.                                              *)

\* The part of a picture that shows a region with some room around it: none
\* if nothing of that is in the picture.
PaddedRectangle(r, width, height) ==
  LET left   == Larger(0, r.x - CropPadding)
      top    == Larger(0, r.y - CropPadding)
      right  == Smaller(width, r.x + r.width + CropPadding)
      bottom == Smaller(height, r.y + r.height + CropPadding)
  IN {c \in {[x |-> left, y |-> top, width |-> right - left, height |-> bottom - top]} :
        c.width > 0 /\ c.height > 0}

Cut(s, n) == SubSeq(s, 1, Smaller(n, Len(s)))

\* The figures of a comparison row, for two pictures that are comparable.
Compared(earlier, current, height) ==
  LET mask    == Mask(earlier, current, height)
      all     == ExtractRegions(mask)
      kept    == Cut(all, MaximumRegions)
      shown   == {n \in DOMAIN kept : PaddedRectangle(kept[n], current.width, height) # {}}
      regions == InPlaces(kept, shown)
  IN [changedPixels |-> Cardinality(mask), allPixels |-> current.width * height,
      changed |-> regions # << >>, regions |-> regions,
      truncated |-> Len(all) > MaximumRegions]
=============================================================================
