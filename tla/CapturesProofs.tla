---------------------------- MODULE CapturesProofs ----------------------------
(***************************************************************************)
(* What is true of captures for any number of processes, leases, pages and *)
(* pictures, whatever the arguments, tiers and settings are: the rows, the *)
(* regions a comparison reports, the warning, and the files fetched back.  *)
(***************************************************************************)
EXTENDS Images, FiniteSetTheorems, SequenceTheorems, TLAPS

-----------------------------------------------------------------------------
(* The dimensions of pictures.                                             *)

LEMMA ScaledIsPositive ==
  ASSUME NEW n \in Nat \ {0}, NEW edge \in Nat \ {0}, NEW longest \in Nat \ {0}
  PROVE  Scaled(n, edge, longest) \in Nat \ {0}
<1> DEFINE above == 2 * n * edge + longest
           below == 2 * longest
<1>1. above \in Int /\ below \in Nat \ {0}
  OBVIOUS
<1>2. above \div below \in Int
  <2> HIDE DEF above, below
  <2> QED
    BY <1>1
<1>3. Scaled(n, edge, longest) = Larger(1, above \div below)
  BY DEF Scaled
<1> HIDE DEF above, below
<1> QED
  BY <1>2, <1>3 DEF Larger

LEMMA ScalingLeavesSomething ==
  ASSUME NEW width \in Nat \ {0}, NEW height \in Nat \ {0}, NEW edge \in Nat \ {0}
  PROVE  LET target == ScaledDimensions(width, height, edge)
         IN target.width \in Nat \ {0} /\ target.height \in Nat \ {0}
<1> DEFINE longest == Larger(width, height)
<1>1. longest \in Nat \ {0}
  BY DEF Larger
<1>2. CASE longest <= edge
  BY <1>2 DEF ScaledDimensions
<1>3. CASE ~(longest <= edge)
  <2>1. /\ Scaled(width, edge, longest) \in Nat \ {0}
        /\ Scaled(height, edge, longest) \in Nat \ {0}
    BY <1>1, ScaledIsPositive
  <2>2. ScaledDimensions(width, height, edge) =
          [width |-> Scaled(width, edge, longest), height |-> Scaled(height, edge, longest)]
    BY <1>3 DEF ScaledDimensions
  <2> QED
    BY <2>1, <2>2
<1> QED
  BY <1>2, <1>3

\* A shot is of a page, of one of three kinds and in one of three tiers.
LEMMA ShotsAreKnown ==
  ASSUME NEW shot \in Shot
  PROVE  shot.page \in Page /\ shot.kind \in Kinds /\ shot.tier \in Tier
<1>1. PICK page \in Page, r \in Requests :
        shot = ShotOf(page, r) /\ Admissible(r)
  BY DEF Shot
<1>2. KindOf(r) \in Kinds
  BY DEF KindOf, Kinds
<1>3. TierOf(r) \in Tier
  BY <1>1 DEF Admissible, TierOf, Tier
<1> QED
  BY <1>1, <1>2, <1>3 DEF ShotOf

LEMMA PicturesAreOfSomeSize ==
  ASSUME NEW shot \in Shot
  PROVE  Picture[shot].width \in Nat \ {0} /\ Picture[shot].height \in Nat \ {0}
<1> DEFINE raw  == Raw(shot.page, shot.kind)
           edge == TierEdge[shot.tier]
<1>1. shot.page \in Page /\ shot.kind \in Kinds /\ edge \in Nat \ {0}
  BY ShotsAreKnown, PicturesAssumption
<1>2. raw.width \in Nat \ {0} /\ raw.height \in Nat \ {0}
  <2>1. Frame(shot.page, shot.kind).width \in Nat \ {0}
        /\ Frame(shot.page, shot.kind).height \in Nat \ {0}
    BY <1>1, CapturesAssumption DEF Frame
  <2> QED
    BY <2>1 DEF Raw
<1>3. Picture[shot] = Downscale(raw, edge)
  BY DEF Picture
<1> HIDE DEF raw, edge
<1>4. /\ Downscale(raw, edge).width = ScaledDimensions(raw.width, raw.height, edge).width
      /\ Downscale(raw, edge).height = ScaledDimensions(raw.width, raw.height, edge).height
  BY DEF Downscale
<1> QED
  BY <1>1, <1>2, <1>3, <1>4, ScalingLeavesSomething

-----------------------------------------------------------------------------
(* What a comparison counts.                                               *)

LEMMA PixelsAreCounted ==
  ASSUME NEW width \in Nat, NEW height \in Nat
  PROVE  /\ IsFiniteSet(Pixels(width, height))
         /\ Cardinality(Pixels(width, height)) = width * height
<1>1. /\ IsFiniteSet(0 .. width - 1) /\ Cardinality(0 .. width - 1) = width
      /\ IsFiniteSet(0 .. height - 1) /\ Cardinality(0 .. height - 1) = height
  BY FS_Interval
<1>2. /\ IsFiniteSet((0 .. width - 1) \X (0 .. height - 1))
      /\ Cardinality((0 .. width - 1) \X (0 .. height - 1))
           = Cardinality(0 .. width - 1) * Cardinality(0 .. height - 1)
  BY <1>1, FS_Product
<1> QED
  BY <1>1, <1>2 DEF Pixels

\* Pictures that are comparable share some rows.
LEMMA SharedRows ==
  ASSUME NEW s \in Shot, NEW t \in Shot
  PROVE  Geometry[s][t].comparable => Geometry[s][t].height \in Nat
<1>1. Geometry[s][t] = ReconcileGeometry(Picture[s], Picture[t], t.kind)
  BY DEF Geometry
<1>2. Picture[s].height \in Nat /\ Picture[t].height \in Nat
  BY PicturesAreOfSomeSize
<1> HIDE DEF Picture
<1> QED
  BY <1>1, <1>2 DEF ReconcileGeometry, Comparable, NotComparable, Smaller

\* No more pixels are found changed than there are.
LEMMA ChangesAreAmongPixels ==
  ASSUME NEW s \in Shot, NEW t \in Shot, Geometry[s][t].comparable
  PROVE  /\ Figures[s][t].changedPixels \in Nat
         /\ Figures[s][t].changedPixels <= Figures[s][t].allPixels
<1> DEFINE height == Geometry[s][t].height
           mask   == Mask(Picture[s], Picture[t], height)
<1>1. height \in Nat /\ Picture[t].width \in Nat
  BY SharedRows, PicturesAreOfSomeSize
<1>2. mask \subseteq Pixels(Picture[t].width, height)
  BY DEF Mask
<1>3. Cardinality(mask) \in Nat /\ Cardinality(mask) <= Picture[t].width * height
  BY <1>1, <1>2, PixelsAreCounted, FS_Subset, FS_CardinalityType
<1>4. Figures[s][t] = Compared(Picture[s], Picture[t], height)
  BY DEF Figures
<1>5. /\ Figures[s][t].changedPixels = Cardinality(mask)
      /\ Figures[s][t].allPixels = Picture[t].width * height
  BY <1>4 DEF Compared
<1> QED
  BY <1>3, <1>5

-----------------------------------------------------------------------------
(* Recursion.                                                              *)

Below == {p \in Nat \X Nat : p[1] < p[2]}

(* A set of natural numbers has a least one: where a fact about numbers    *)
(* fails, it fails for a first one.                                        *)
LEMMA Least ==
  ASSUME NEW A \in SUBSET Nat, A # {}
  PROVE  \E n \in A : \A m \in A : n <= m
<1>1. Below = OpToRel(<, Nat)
  BY DEF OpToRel, Below
<1>2. IsWellFoundedOn(Below, Nat)
  BY <1>1, NatLessThanWellFounded
<1>3. PICK n \in A : \A m \in A : <<m, n>> \notin Below
  BY <1>2, WFMin
<1>4. \A m \in A : m < n => <<m, n>> \in Below
  BY DEF Below
<1>5. \A m \in A : ~(m < n)
  BY <1>3, <1>4
<1>6. \A m \in A : n <= m
  BY <1>5
<1> QED
  BY <1>6

(* What is true of a member of S whenever it is of all smaller ones is     *)
(* true of each.                                                           *)
LEMMA BySize ==
  ASSUME NEW S, NEW size \in [S -> Nat], NEW G,
         \A x \in S : (\A y \in S : size[y] < size[x] => y \in G) => x \in G
  PROVE  \A x \in S : x \in G
<1> DEFINE Bad == {n \in Nat : \E x \in S : size[x] = n /\ x \notin G}
<1>1. SUFFICES ASSUME Bad # {} PROVE FALSE
  OBVIOUS
<1>2. PICK n \in Bad : \A m \in Bad : n <= m
  <2>1. Bad \in SUBSET Nat
    OBVIOUS
  <2> HIDE DEF Bad
  <2> QED
    BY <1>1, <2>1, Least
<1>3. PICK x \in S : size[x] = n /\ x \notin G
  BY <1>2
<1>4. PICK y \in S : size[y] < size[x] /\ y \notin G
  BY <1>3
<1>5. size[y] \in Bad /\ ~(n <= size[y])
  BY <1>3, <1>4
<1> QED
  BY <1>2, <1>5

(* f is what the recursion defines on the members of S: at the stops what  *)
(* base says, elsewhere what comb makes of what there is for one before.   *)
Recursion(f, S, stop, base, prev, comb) ==
  f = [x \in S |-> IF x \in stop THEN base[x] ELSE comb[<<x, f[prev[x]]>>]]

(* A recursion that goes down in size defines a function.                  *)
LEMMA RecursionExists ==
  ASSUME NEW S, NEW stop, NEW base, NEW prev \in [S -> S], NEW comb,
         NEW size \in [S -> Nat], \A x \in S \ stop : size[prev[x]] < size[x]
  PROVE  \E f : Recursion(f, S, stop, base, prev, comb)
<1> DEFINE D(n) == {x \in S : size[x] <= n}
           Part(g, n) == g = [x \in D(n) |-> IF x \in stop THEN base[x]
                                                ELSE comb[<<x, g[prev[x]]>>]]
<1>1. \A n \in Nat : \E g : Part(g, n)
  <2> DEFINE Bad == {n \in Nat : ~\E g : Part(g, n)}
  <2>1. SUFFICES ASSUME Bad # {} PROVE FALSE
    OBVIOUS
  <2>2. PICK n \in Bad : \A m \in Bad : n <= m
    <3>1. Bad \in SUBSET Nat
      OBVIOUS
    <3> HIDE DEF Bad
    <3> QED
      BY <2>1, <3>1, Least
  <2>3. PICK g : n # 0 => Part(g, n - 1)
    <3>1. n # 0 => n - 1 \in Nat /\ ~(n <= n - 1)
      BY <2>2
    <3>2. n # 0 => n - 1 \notin Bad
      <4> HIDE DEF Bad
      <4> QED
        BY <2>2, <3>1
    <3> QED
      BY <3>1, <3>2
  <2> DEFINE more == [x \in D(n) |-> IF x \in stop THEN base[x] ELSE comb[<<x, g[prev[x]]>>]]
  <2>4. ASSUME NEW x \in D(n), x \notin stop PROVE more[prev[x]] = g[prev[x]]
    <3> DEFINE y == prev[x]
    <3>1. y \in S /\ size[y] \in Nat /\ size[x] \in Nat /\ size[y] < size[x] /\ size[x] <= n
      BY <2>4
    <3>2. n # 0 /\ y \in D(n - 1) /\ y \in D(n)
      BY <3>1
    <3>3. g[y] = IF y \in stop THEN base[y] ELSE comb[<<y, g[prev[y]]>>]
      BY <2>3, <3>2
    <3> QED
      BY <3>2, <3>3
  <2>5. more = [x \in D(n) |-> IF x \in stop THEN base[x] ELSE comb[<<x, more[prev[x]]>>]]
    <3> HIDE DEF D
    <3>1. \A x \in D(n) : (IF x \in stop THEN base[x] ELSE comb[<<x, g[prev[x]]>>])
                            = IF x \in stop THEN base[x] ELSE comb[<<x, more[prev[x]]>>]
      BY <2>4
    <3> QED
      BY <3>1
  <2>6. Part(more, n)
    BY <2>5
  <2> QED
    BY <2>2, <2>6
<1> DEFINE at(n) == CHOOSE g : Part(g, n)
<1>2. \A n \in Nat : Part(at(n), n)
  BY <1>1
<1>3. ASSUME NEW m \in Nat, NEW n \in Nat
      PROVE  \A x \in S : size[x] <= m /\ size[x] <= n => at(m)[x] = at(n)[x]
  <2> DEFINE g == at(m)
             h == at(n)
             G == {x \in S : size[x] <= m /\ size[x] <= n => g[x] = h[x]}
  <2>1. Part(g, m) /\ Part(h, n)
    BY <1>2
  <2> HIDE DEF g, h
  <2>2. ASSUME NEW x \in S, \A y \in S : size[y] < size[x] => y \in G PROVE x \in G
    <3>1. SUFFICES ASSUME size[x] <= m, size[x] <= n PROVE g[x] = h[x]
      OBVIOUS
    <3>2. x \in D(m) /\ x \in D(n)
      BY <3>1
    <3>3. /\ g[x] = IF x \in stop THEN base[x] ELSE comb[<<x, g[prev[x]]>>]
          /\ h[x] = IF x \in stop THEN base[x] ELSE comb[<<x, h[prev[x]]>>]
      BY <2>1, <3>2
    <3>4. SUFFICES ASSUME x \notin stop PROVE g[prev[x]] = h[prev[x]]
      BY <3>3
    <3>5. prev[x] \in S /\ size[prev[x]] \in Nat /\ size[x] \in Nat /\ size[prev[x]] < size[x]
      BY <3>4
    <3>6. prev[x] \in G
      BY <2>2, <3>5
    <3> QED
      BY <3>1, <3>5, <3>6
  <2>3. \A x \in S : x \in G
    <3> HIDE DEF G
    <3> QED
      BY <2>2, BySize
  <2> QED
    BY <2>3 DEF g, h
<1> DEFINE f == [x \in S |-> at(size[x])[x]]
<1>4. ASSUME NEW x \in S
      PROVE  f[x] = IF x \in stop THEN base[x] ELSE comb[<<x, f[prev[x]]>>]
  <2> DEFINE g == at(size[x])
  <2>1. Part(g, size[x])
    <3> HIDE DEF Part, at
    <3> QED
      BY <1>2
  <2>5. x \in D(size[x])
    OBVIOUS
  <2>2. g[x] = IF x \in stop THEN base[x] ELSE comb[<<x, g[prev[x]]>>]
    <3> HIDE DEF g
    <3> QED
      BY <2>1, <2>5
  <2>3. f[x] = g[x]
    OBVIOUS
  <2>4. x \notin stop => f[prev[x]] = g[prev[x]]
    <3>1. SUFFICES ASSUME x \notin stop PROVE f[prev[x]] = g[prev[x]]
      OBVIOUS
    <3>2. prev[x] \in S /\ size[prev[x]] \in Nat /\ size[x] \in Nat /\ size[prev[x]] <= size[x]
      BY <3>1
    <3>3. f[prev[x]] = at(size[prev[x]])[prev[x]]
      BY <3>2
    <3> HIDE DEF at, f
    <3> QED
      BY <1>3, <3>2, <3>3
  <2> HIDE DEF f, g
  <2> QED
    BY <2>2, <2>3, <2>4
<1>5. f = [x \in S |-> IF x \in stop THEN base[x] ELSE comb[<<x, f[prev[x]]>>]]
  <2>1. f = [x \in S |-> f[x]]
    OBVIOUS
  <2> HIDE DEF f
  <2> QED
    BY <1>4, <2>1
<1> QED
  BY <1>5 DEF Recursion

(* The same for a recursion that ends with what it says of another member. *)
TailRecursion(f, S, stop, base, prev) ==
  f = [x \in S |-> IF x \in stop THEN base[x] ELSE f[prev[x]]]

(* A recursion that only goes down defines one too.                        *)
LEMMA TailRecursionExists ==
  ASSUME NEW S, NEW T, NEW stop, NEW base \in [S -> T], NEW prev \in [S -> S],
         NEW size \in [S -> Nat], \A x \in S \ stop : size[prev[x]] < size[x]
  PROVE  \E f : TailRecursion(f, S, stop, base, prev)
<1> DEFINE comb == [z \in S \X T |-> z[2]]
<1>1. PICK f : Recursion(f, S, stop, base, prev, comb)
  <2> HIDE DEF comb
  <2> QED
    BY RecursionExists
<1>2. f = [x \in S |-> IF x \in stop THEN base[x] ELSE comb[<<x, f[prev[x]]>>]]
  <2> HIDE DEF comb
  <2> QED
    BY <1>1 DEF Recursion
<1>3. \A x \in S : f[x] \in T
  <2> DEFINE G == {x \in S : f[x] \in T}
  <2>1. ASSUME NEW x \in S, \A y \in S : size[y] < size[x] => y \in G PROVE f[x] \in T
    <3>1. f[x] = IF x \in stop THEN base[x] ELSE comb[<<x, f[prev[x]]>>]
      <4> HIDE DEF comb
      <4> QED
        BY <1>2
    <3>2. CASE x \in stop
      BY <3>1, <3>2
    <3>3. CASE x \notin stop
      <4>1. f[prev[x]] \in T
        BY <2>1, <3>3
      <4>2. comb[<<x, f[prev[x]]>>] = f[prev[x]]
        BY <4>1
      <4> HIDE DEF comb
      <4> QED
        BY <3>1, <3>3, <4>1, <4>2
    <3> QED
      BY <3>2, <3>3
  <2>2. \A x \in S : (\A y \in S : size[y] < size[x] => y \in G) => x \in G
    BY <2>1
  <2>3. \A x \in S : x \in G
    <3> HIDE DEF G, comb
    <3> QED
      BY <2>2, BySize
  <2> QED
    BY <2>3
<1>4. \A x \in S : comb[<<x, f[prev[x]]>>] = f[prev[x]]
  BY <1>3
<1> HIDE DEF comb
<1>5. f = [x \in S |-> IF x \in stop THEN base[x] ELSE f[prev[x]]]
  BY <1>2, <1>4
<1> QED
  BY <1>5 DEF TailRecursion

-----------------------------------------------------------------------------
(* Merging regions.                                                        *)

(* The least of some numbers is one of them.                               *)
LEMMA MinIsLeast ==
  ASSUME NEW A \in SUBSET Nat, A # {}
  PROVE  Min(A) \in A /\ \A m \in A : Min(A) <= m
<1>1. PICK n \in A : \A m \in A : n <= m
  BY Least
<1> QED
  BY <1>1 DEF Min

(* Two regions joined are one.                                             *)
LEMMA JoinedIsRegion ==
  ASSUME NEW a \in Region, NEW b \in Region
  PROVE  Joined(a, b) \in Region
<1>1. /\ a.x \in Nat /\ a.y \in Nat /\ a.width \in Nat /\ a.height \in Nat /\ a.changedPixels \in Nat
      /\ b.x \in Nat /\ b.y \in Nat /\ b.width \in Nat /\ b.height \in Nat /\ b.changedPixels \in Nat
  BY DEF Region
<1>2. /\ Smaller(a.x, b.x) \in Nat /\ Smaller(a.y, b.y) \in Nat
      /\ Larger(a.x + a.width, b.x + b.width) - Smaller(a.x, b.x) \in Nat
      /\ Larger(a.y + a.height, b.y + b.height) - Smaller(a.y, b.y) \in Nat
      /\ a.changedPixels + b.changedPixels \in Nat
  BY <1>1 DEF Smaller, Larger
<1> QED
  BY <1>2 DEF Joined, Region

(* The regions near the last one, and what is left when it has taken in    *)
(* the first of them.                                                      *)
NearLast(s) == {i \in DOMAIN Front(s) : Within(Last(s), Front(s)[i], MergeDistance)}

Taken(s) ==
  Append(RemoveAt(Front(s), Min(NearLast(s))), Joined(Last(s), Front(s)[Min(NearLast(s))]))

(* What comes before the last of some regions.                             *)
LEMMA FrontOfRegions ==
  ASSUME NEW s \in Seq(Region), s # << >>
  PROVE  /\ Len(s) \in Nat \ {0} /\ DOMAIN s = 1 .. Len(s)
         /\ Front(s) \in Seq(Region) /\ Len(Front(s)) = Len(s) - 1
         /\ DOMAIN Front(s) = 1 .. Len(s) - 1
         /\ \A i \in 1 .. Len(s) - 1 : Front(s)[i] = s[i]
         /\ Last(s) = s[Len(s)] /\ Last(s) \in Region
<1>1. Len(s) \in Nat \ {0} /\ DOMAIN s = 1 .. Len(s) /\ \A i \in 1 .. Len(s) : s[i] \in Region
  OBVIOUS
<1>2. Front(s) = SubSeq(s, 1, Len(s) - 1)
  BY DEF Front
<1>3. /\ Front(s) \in Seq(Region) /\ Len(Front(s)) = Len(s) - 1
      /\ \A i \in 1 .. Len(s) - 1 : Front(s)[i] = s[i]
  BY <1>1, <1>2
<1> QED
  BY <1>1, <1>3 DEF Last

(* The last region takes in the first that is near: there is one fewer.    *)
LEMMA TakenRegions ==
  ASSUME NEW s \in Seq(Region), NearLast(s) # {}
  PROVE  LET k == Min(NearLast(s)) IN
         /\ Len(s) \in Nat /\ Len(s) >= 2 /\ k \in 1 .. Len(s) - 1
         /\ Within(s[Len(s)], s[k], MergeDistance)
         /\ Taken(s) \in Seq(Region) /\ Len(Taken(s)) = Len(s) - 1
         /\ \A i \in 1 .. Len(s) - 2 : Taken(s)[i] = IF i < k THEN s[i] ELSE s[i + 1]
         /\ Taken(s)[Len(s) - 1] = Joined(s[Len(s)], s[k])
<1> DEFINE k == Min(NearLast(s))
<1>1. s # << >>
  <2>1. SUFFICES ASSUME s = << >> PROVE FALSE
    OBVIOUS
  <2>2. Front(s) = SubSeq(<< >>, 1, -1)
    BY <2>1 DEF Front
  <2>3. Front(s) = << >>
    BY <2>2
  <2>4. DOMAIN Front(s) = {}
    BY <2>3
  <2> QED
    BY <2>4 DEF NearLast
<1>2. /\ Len(s) \in Nat \ {0} /\ DOMAIN s = 1 .. Len(s)
      /\ Front(s) \in Seq(Region) /\ Len(Front(s)) = Len(s) - 1
      /\ DOMAIN Front(s) = 1 .. Len(s) - 1
      /\ \A i \in 1 .. Len(s) - 1 : Front(s)[i] = s[i]
      /\ Last(s) = s[Len(s)] /\ Last(s) \in Region
  BY <1>1, FrontOfRegions
<1>3. NearLast(s) \in SUBSET Nat
  BY <1>2 DEF NearLast
<1>4. k \in NearLast(s)
  BY <1>3, MinIsLeast
<1>5. k \in 1 .. Len(s) - 1 /\ Within(s[Len(s)], s[k], MergeDistance) /\ Front(s)[k] = s[k]
  BY <1>2, <1>4 DEF NearLast
<1>6. Len(s) >= 2
  BY <1>2, <1>5
<1> DEFINE front == Front(s)
           cut   == RemoveAt(front, k)
           join  == Joined(s[Len(s)], s[k])
<1>7. join \in Region
  BY <1>1, <1>2, <1>5, JoinedIsRegion
<1>8. /\ cut \in Seq(Region) /\ Len(cut) = Len(s) - 2
      /\ \A i \in 1 .. Len(s) - 2 : cut[i] = IF i < k THEN front[i] ELSE front[i + 1]
  <2> HIDE DEF k, front
  <2>1. cut = SubSeq(front, 1, k - 1) \o SubSeq(front, k + 1, Len(front))
    BY DEF RemoveAt
  <2> DEFINE a == SubSeq(front, 1, k - 1)
             b == SubSeq(front, k + 1, Len(front))
  <2>2. front \in Seq(Region) /\ Len(front) = Len(s) - 1 /\ Len(s) \in Nat /\ k \in 1 .. Len(s) - 1
    BY <1>2, <1>5 DEF front
  <2>3. a \in Seq(Region) /\ Len(a) = k - 1 /\ \A i \in 1 .. k - 1 : a[i] = front[i]
    BY <2>2
  <2>4. /\ b \in Seq(Region) /\ Len(b) = Len(s) - 1 - k
        /\ \A i \in 1 .. Len(s) - 1 - k : b[i] = front[k + i]
    BY <2>2
  <2>5. cut \in Seq(Region) /\ Len(cut) = Len(s) - 2
    <3>1. cut = a \o b
      BY <2>1
    <3> HIDE DEF a, b, cut
    <3>2. a \in Seq(Region) /\ b \in Seq(Region)
      BY <2>3, <2>4
    <3>4. a \o b \in Seq(Region) /\ Len(a \o b) = Len(a) + Len(b)
      BY <3>2, ConcatProperties
    <3>3. Len(a) + Len(b) = Len(s) - 2
      BY <2>2, <2>3, <2>4
    <3> QED
      BY <3>1, <3>3, <3>4
  <2>6. ASSUME NEW i \in 1 .. Len(s) - 2 PROVE cut[i] = IF i < k THEN front[i] ELSE front[i + 1]
    <3>1. cut = a \o b
      BY <2>1
    <3> HIDE DEF a, b, cut
    <3>2. CASE i < k
      <4>1. cut[i] = a[i] /\ i \in 1 .. k - 1
        BY <2>2, <2>3, <2>4, <3>1, <3>2
      <4> QED
        BY <2>3, <3>2, <4>1
    <3>3. CASE ~(i < k)
      <4>1. cut[i] = b[i - (k - 1)] /\ i - (k - 1) \in 1 .. Len(s) - 1 - k
        BY <2>2, <2>3, <2>4, <3>1, <3>3
      <4>2. k + (i - (k - 1)) = i + 1
        BY <2>2
      <4> QED
        BY <2>4, <3>3, <4>1, <4>2
    <3> QED
      BY <3>2, <3>3
  <2> QED
    BY <2>5, <2>6
<1>9. Taken(s) = Append(cut, join)
  BY <1>2, <1>5 DEF Taken
<1> HIDE DEF cut, join, k, front
<1>10. /\ Taken(s) \in Seq(Region) /\ Len(Taken(s)) = Len(s) - 1
       /\ \A i \in 1 .. Len(s) - 2 : Taken(s)[i] = cut[i]
       /\ Taken(s)[Len(s) - 1] = join
  <2>1. /\ Append(cut, join) \in Seq(Region) /\ Len(Append(cut, join)) = Len(cut) + 1
        /\ \A i \in 1 .. Len(cut) : Append(cut, join)[i] = cut[i]
        /\ Append(cut, join)[Len(cut) + 1] = join
    BY <1>7, <1>8
  <2>2. Len(cut) + 1 = Len(s) - 1
    BY <1>2, <1>8
  <2> QED
    BY <1>8, <1>9, <2>1, <2>2
<1>11. \A i \in 1 .. Len(s) - 2 : (IF i < k THEN front[i] ELSE front[i + 1])
                                    = IF i < k THEN s[i] ELSE s[i + 1]
  BY <1>2, <1>5, <1>6 DEF front
<1> QED
  BY <1>2, <1>5, <1>6, <1>8, <1>10, <1>11 DEF k, join

(* How a region is absorbed, and what is true of it because it is of each  *)
(* step.                                                                   *)
Settled == {s \in Seq(Region) : NearLast(s) = {}}

(* Absorbing is a recursion that ends, each time with a region fewer.      *)
LEMMA AbsorbRecurs ==
  TailRecursion(Absorb, Seq(Region), Settled, [s \in Seq(Region) |-> s],
                [s \in Seq(Region) |-> IF s \in Settled THEN s ELSE Taken(s)])
<1> DEFINE S == Seq(Region)
           base == [s \in S |-> s]
           prev == [s \in S |-> IF s \in Settled THEN s ELSE Taken(s)]
           size == [s \in S |-> Len(s)]
           Is(f) == f = [regions \in Seq(Region) |->
                          LET region == Last(regions)
                              next   == Front(regions)
                              near   == {i \in DOMAIN next : Within(region, next[i], MergeDistance)}
                          IN IF near = {} THEN regions
                             ELSE f[Append(RemoveAt(next, Min(near)), Joined(region, next[Min(near)]))]]
<1>1. \A s \in S \ Settled : Taken(s) \in S /\ Len(s) \in Nat /\ Len(Taken(s)) = Len(s) - 1
  BY TakenRegions DEF Settled
<1>2. base \in [S -> S] /\ prev \in [S -> S] /\ size \in [S -> Nat]
  BY <1>1
<1>3. \A s \in S \ Settled : size[prev[s]] < size[s]
  BY <1>1
<1>4. \A f : Is(f) <=> TailRecursion(f, S, Settled, base, prev)
  <2> TAKE f
  <2> DEFINE g == [s \in S |-> IF s \in Settled THEN base[s] ELSE f[prev[s]]]
             h == [regions \in Seq(Region) |->
                          LET region == Last(regions)
                              next   == Front(regions)
                              near   == {i \in DOMAIN next : Within(region, next[i], MergeDistance)}
                          IN IF near = {} THEN regions
                             ELSE f[Append(RemoveAt(next, Min(near)), Joined(region, next[Min(near)]))]]
  <2>1. h = [s \in S |-> IF NearLast(s) = {} THEN s ELSE f[Taken(s)]]
    BY DEF NearLast, Taken
  <2>2. g = [s \in S |-> IF NearLast(s) = {} THEN s ELSE f[Taken(s)]]
    <3>1. \A s \in S : (IF s \in Settled THEN base[s] ELSE f[prev[s]])
                         = IF NearLast(s) = {} THEN s ELSE f[Taken(s)]
      BY DEF Settled
    <3> HIDE DEF base, prev
    <3> QED
      BY <3>1
  <2>3. Is(f) <=> f = h
    OBVIOUS
  <2>4. TailRecursion(f, S, Settled, base, prev) <=> f = g
    BY DEF TailRecursion
  <2> HIDE DEF g, h, Is, base, prev
  <2> QED
    BY <2>1, <2>2, <2>3, <2>4
<1>5. \E f : TailRecursion(f, S, Settled, base, prev)
  <2> HIDE DEF base, prev, size
  <2> QED
    BY <1>2, <1>3, TailRecursionExists
<1>6. \E f : Is(f)
  <2> HIDE DEF Is, base, prev
  <2> QED
    BY <1>4, <1>5
<1>7. Absorb = CHOOSE f : Is(f)
  BY DEF Absorb
<1>8. Is(Absorb)
  <2> HIDE DEF Is
  <2> QED
    BY <1>6, <1>7
<1> HIDE DEF Is, base, prev
<1>9. TailRecursion(Absorb, S, Settled, base, prev)
  BY <1>4, <1>8
<1> QED
  BY <1>9 DEF base, prev

(* What absorbing is, step by step.                                        *)
LEMMA AbsorbIs ==
  \A s \in Seq(Region) : Absorb[s] = IF NearLast(s) = {} THEN s ELSE Absorb[Taken(s)]
<1> DEFINE S == Seq(Region)
           base == [s \in S |-> s]
           prev == [s \in S |-> IF s \in Settled THEN s ELSE Taken(s)]
<1>1. Absorb = [s \in S |-> IF s \in Settled THEN base[s] ELSE Absorb[prev[s]]]
  BY AbsorbRecurs DEF TailRecursion
<1>2. \A s \in S : Absorb[s] = IF s \in Settled THEN base[s] ELSE Absorb[prev[s]]
  <2> HIDE DEF base, prev, S
  <2> QED
    BY <1>1
<1> QED
  BY <1>2 DEF Settled

(* What is true of some regions whenever it is of any that are fewer.      *)
LEMMA ByLength ==
  ASSUME NEW G,
         \A s \in Seq(Region) :
           (\A t \in Seq(Region) : Len(t) < Len(s) => t \in G) => s \in G
  PROVE  \A s \in Seq(Region) : s \in G
<1> DEFINE size == [s \in Seq(Region) |-> Len(s)]
<1>1. size \in [Seq(Region) -> Nat]
  OBVIOUS
<1>2. \A s \in Seq(Region) :
        (\A t \in Seq(Region) : size[t] < size[s] => t \in G) => s \in G
  <2>1. \A t \in Seq(Region) : size[t] = Len(t)
    OBVIOUS
  <2> HIDE DEF size
  <2> QED
    BY <2>1
<1> DEFINE S == Seq(Region)
<1>3. size \in [S -> Nat] /\ \A s \in S : (\A t \in S : size[t] < size[s] => t \in G) => s \in G
  BY <1>1, <1>2
<1> HIDE DEF size, S
<1>4. \A s \in S : s \in G
  BY <1>3, BySize
<1> QED
  BY <1>4 DEF S

(* Absorbing leaves no more regions than there were.                       *)
LEMMA AbsorbIsTyped ==
  \A s \in Seq(Region) : Absorb[s] \in Seq(Region) /\ Len(Absorb[s]) <= Len(s)
<1> DEFINE G == {s \in Seq(Region) : Absorb[s] \in Seq(Region) /\ Len(Absorb[s]) <= Len(s)}
<1>1. ASSUME NEW s \in Seq(Region), \A t \in Seq(Region) : Len(t) < Len(s) => t \in G
      PROVE  s \in G
  <2>1. Absorb[s] = IF NearLast(s) = {} THEN s ELSE Absorb[Taken(s)]
    BY AbsorbIs
  <2>2. CASE NearLast(s) = {}
    BY <2>1, <2>2
  <2>3. CASE NearLast(s) # {}
    <3>1. Taken(s) \in Seq(Region) /\ Len(Taken(s)) = Len(s) - 1 /\ Len(s) \in Nat
      BY <2>3, TakenRegions
    <3>2. Taken(s) \in G
      BY <1>1, <3>1
    <3>3. Absorb[Taken(s)] \in Seq(Region) /\ Len(Absorb[Taken(s)]) <= Len(Taken(s))
      BY <3>2
    <3> QED
      BY <2>1, <2>3, <3>1, <3>3
  <2> QED
    BY <2>2, <2>3
<1> HIDE DEF G
<1>2. \A s \in Seq(Region) : s \in G
  BY <1>1, ByLength
<1> QED
  BY <1>2 DEF G

PassBody(f, s) == IF s = << >> THEN << >> ELSE Absorb[Append(f[Front(s)], Last(s))]

(* What a pass is: all but the last, and then the last.                    *)
LEMMA PassIs ==
  \A s \in Seq(Region) :
    Pass[s] \in Seq(Region) /\ Len(Pass[s]) <= Len(s) /\ Pass[s] = PassBody(Pass, s)
<1> DEFINE S == Seq(Region)
           stop == {<< >>}
           base == [s \in S |-> << >>]
           prev == [s \in S |-> IF s = << >> THEN s ELSE Front(s)]
           comb == [z \in S \X S |-> IF z[1] = << >> THEN z[1] ELSE Absorb[Append(z[2], Last(z[1]))]]
           size == [s \in S |-> Len(s)]
           Is(f) == f = [s \in S |-> PassBody(f, s)]
<1>1. \A s \in S : s # << >> => /\ Front(s) \in S /\ Last(s) \in Region
                                /\ Len(s) \in Nat /\ Len(Front(s)) = Len(s) - 1
  BY FrontOfRegions
<1>2. prev \in [S -> S] /\ size \in [S -> Nat]
  BY <1>1
<1>3. \A s \in S \ stop : size[prev[s]] < size[s]
  BY <1>1
<1>4. \E f : Recursion(f, S, stop, base, prev, comb)
  <2> HIDE DEF base, prev, comb, size, stop, S
  <2> QED
    BY <1>2, <1>3, RecursionExists
<1>5. ASSUME NEW f, \A s \in S : f[s] = PassBody(f, s)
      PROVE  \A s \in S : f[s] \in S /\ Len(f[s]) <= Len(s)
  <2> DEFINE G == {s \in S : f[s] \in S /\ Len(f[s]) <= Len(s)}
  <2>1. ASSUME NEW s \in S, \A t \in S : Len(t) < Len(s) => t \in G
        PROVE  s \in G
    <3>1. CASE s = << >>
      <4>1. f[s] = << >>
        BY <1>5, <3>1 DEF PassBody
      <4>2. << >> \in S /\ Len(<< >>) <= Len(<< >>)
        OBVIOUS
      <4> QED
        BY <3>1, <4>1, <4>2
    <3>2. CASE s # << >>
      <4>1. /\ Front(s) \in S /\ Last(s) \in Region
            /\ Len(s) \in Nat /\ Len(Front(s)) = Len(s) - 1
        BY <1>1, <3>2
      <4>2. f[Front(s)] \in S /\ Len(f[Front(s)]) <= Len(s) - 1
        BY <2>1, <4>1
      <4> DEFINE a == Append(f[Front(s)], Last(s))
      <4>3. a \in S /\ Len(a) <= Len(s)
        BY <4>1, <4>2
      <4>4. Absorb[a] \in S /\ Len(Absorb[a]) <= Len(a)
        BY <4>3, AbsorbIsTyped
      <4>5. f[s] = Absorb[a]
        BY <1>5, <3>2 DEF PassBody
      <4>6. Len(a) \in Nat /\ Len(Absorb[a]) \in Nat
        BY <4>3, <4>4
      <4> HIDE DEF a
      <4>7. Len(f[s]) <= Len(s)
        BY <4>1, <4>3, <4>4, <4>5, <4>6
      <4> QED
        BY <4>4, <4>5, <4>7
    <3> QED
      BY <3>1, <3>2
  <2> HIDE DEF G
  <2>2. \A s \in S : s \in G
    BY <2>1, ByLength
  <2> QED
    BY <2>2 DEF G
<1>6. \E f : Is(f)
  <2>1. PICK f : Recursion(f, S, stop, base, prev, comb)
    BY <1>4
  <2>2. f = [s \in S |-> IF s \in stop THEN base[s] ELSE comb[<<s, f[prev[s]]>>]]
    BY <2>1 DEF Recursion
  <2>3. \A s \in S : f[s] = IF s = << >> THEN << >> ELSE comb[<<s, f[Front(s)]>>]
    <3> HIDE DEF comb
    <3> QED
      BY <2>2
  <2> DEFINE G == {s \in S : f[s] \in S}
  <2>4. ASSUME NEW s \in S, \A t \in S : Len(t) < Len(s) => t \in G
        PROVE  f[s] \in S /\ f[s] = PassBody(f, s)
    <3>1. CASE s = << >>
      BY <2>3, <3>1 DEF PassBody
    <3>2. CASE s # << >>
      <4>1. /\ Front(s) \in S /\ Last(s) \in Region
            /\ Len(s) \in Nat /\ Len(Front(s)) = Len(s) - 1
        BY <1>1, <3>2
      <4>2. f[Front(s)] \in S
        BY <2>4, <4>1
      <4>3. comb[<<s, f[Front(s)]>>] = Absorb[Append(f[Front(s)], Last(s))]
        BY <3>2, <4>2
      <4>4. Append(f[Front(s)], Last(s)) \in S
        BY <4>1, <4>2
      <4>5. Absorb[Append(f[Front(s)], Last(s))] \in S
        BY <4>4, AbsorbIsTyped
      <4> HIDE DEF comb
      <4> QED
        BY <2>3, <3>2, <4>3, <4>5 DEF PassBody
    <3> QED
      BY <3>1, <3>2
  <2>5. \A s \in S : s \in G
    <3>1. \A s \in S : (\A t \in S : Len(t) < Len(s) => t \in G) => s \in G
      BY <2>4
    <3> HIDE DEF G
    <3> QED
      BY <3>1, ByLength
  <2>6. \A s \in S : f[s] = PassBody(f, s)
    <3> HIDE DEF G
    <3> QED
      BY <2>4, <2>5
  <2>7. f = [s \in S |-> f[s]]
    <3> HIDE DEF base, comb, prev, stop
    <3> QED
      BY <2>2
  <2>8. f = [s \in S |-> PassBody(f, s)]
    BY <2>6, <2>7
  <2> QED
    BY <2>8
<1>7. Pass = CHOOSE f : Is(f)
  BY DEF Pass, PassBody
<1>8. Is(Pass)
  <2> HIDE DEF Is
  <2> QED
    BY <1>6, <1>7
<1>9. \A s \in S : Pass[s] = PassBody(Pass, s)
  BY <1>8
<1> QED
  BY <1>5, <1>9

(* Passes end, as each that merges something leaves fewer.                 *)
LEMMA MergedIs ==
  \A s \in Seq(Region) :
    Merged[s] = IF Len(Pass[s]) = Len(s) THEN Pass[s] ELSE Merged[Pass[s]]
<1> DEFINE S == Seq(Region)
           stop == {s \in S : Len(Pass[s]) = Len(s)}
           base == [s \in S |-> Pass[s]]
           prev == [s \in S |-> Pass[s]]
           size == [s \in S |-> Len(s)]
           Is(f) == f = [current \in Seq(Region) |->
                          LET next == Pass[current]
                          IN IF Len(next) = Len(current) THEN next ELSE f[next]]
<1>1. \A s \in S : Pass[s] \in S /\ Len(Pass[s]) \in Nat /\ Len(s) \in Nat /\ Len(Pass[s]) <= Len(s)
  BY PassIs
<1>2. base \in [S -> S] /\ prev \in [S -> S] /\ size \in [S -> Nat]
  BY <1>1
<1>3. \A s \in S \ stop : size[prev[s]] < size[s]
  BY <1>1
<1>4. \E f : TailRecursion(f, S, stop, base, prev)
  <2> HIDE DEF base, prev, stop, size, S
  <2> QED
    BY <1>2, <1>3, TailRecursionExists
<1>5. \E f : Is(f)
  <2>1. PICK f : TailRecursion(f, S, stop, base, prev)
    BY <1>4
  <2>2. f = [s \in S |-> IF s \in stop THEN base[s] ELSE f[prev[s]]]
    BY <2>1 DEF TailRecursion
  <2>3. \A s \in S : (IF s \in stop THEN base[s] ELSE f[prev[s]])
                       = IF Len(Pass[s]) = Len(s) THEN Pass[s] ELSE f[Pass[s]]
    OBVIOUS
  <2> HIDE DEF base, prev, stop
  <2>4. f = [s \in S |-> IF Len(Pass[s]) = Len(s) THEN Pass[s] ELSE f[Pass[s]]]
    BY <2>2, <2>3
  <2> QED
    BY <2>4
<1>6. Merged = CHOOSE f : Is(f)
  BY DEF Merged
<1>7. Is(Merged)
  <2> HIDE DEF Is
  <2> QED
    BY <1>5, <1>6
<1> QED
  BY <1>7

-----------------------------------------------------------------------------
(* Boxes of pixels.                                                        *)

(* The greatest of some numbers is one of them.                            *)
LEMMA MaxIsGreatest ==
  ASSUME NEW n \in Nat, NEW A \in SUBSET (0 .. n), A # {}
  PROVE  Max(A) \in A /\ \A m \in A : m <= Max(A)
<1> DEFINE B == {n - m : m \in A}
<1>1. B \in SUBSET Nat /\ B # {}
  <2>1. \A m \in A : m \in 0 .. n /\ n - m \in Nat
    OBVIOUS
  <2> QED
    BY <2>1
<1>2. PICK k \in B : \A l \in B : k <= l
  <2> HIDE DEF B
  <2> QED
    BY <1>1, Least
<1>3. PICK a \in A : k = n - a
  BY <1>2
<1>4. \A m \in A : n - a <= n - m
  BY <1>2, <1>3
<1>5. \A m \in A : a \in 0 .. n /\ m \in 0 .. n /\ a >= m
  BY <1>4
<1>6. Max(A) \in A /\ \A y \in A : Max(A) >= y
  BY <1>5 DEF Max
<1>7. \A m \in A : m \in 0 .. n
  OBVIOUS
<1> QED
  BY <1>6, <1>7

(* b is the least box around some pixels.                                  *)
Bounds(b, U) ==
  /\ b \in Region /\ b.width >= 1 /\ b.height >= 1
  /\ \A p \in U : b.x <= p[1] /\ p[1] < b.x + b.width /\ b.y <= p[2] /\ p[2] < b.y + b.height
  /\ \E p \in U : p[1] = b.x
  /\ \E p \in U : p[1] = b.x + b.width - 1
  /\ \E p \in U : p[2] = b.y
  /\ \E p \in U : p[2] = b.y + b.height - 1

(* The pixels of a picture are so many.                                    *)
LEMMA PixelsAreFinite ==
  ASSUME NEW W \in Nat, NEW H \in Nat, NEW U \in SUBSET Pixels(W, H)
  PROVE  IsFiniteSet(U) /\ Cardinality(U) \in Nat
<1>1. IsFiniteSet(0 .. W - 1) /\ IsFiniteSet(0 .. H - 1)
  BY FS_Interval
<1>2. IsFiniteSet(Pixels(W, H))
  BY <1>1, FS_Product DEF Pixels
<1>3. IsFiniteSet(U)
  BY <1>2, FS_Subset
<1> QED
  BY <1>3, FS_CardinalityType

(* A box is about its pixels, and within the picture.                      *)
LEMMA BoxBounds ==
  ASSUME NEW W \in Nat, NEW H \in Nat, NEW U \in SUBSET Pixels(W, H), U # {}
  PROVE  /\ Bounds(BoxOf(U), U) /\ BoxOf(U).changedPixels = Cardinality(U)
         /\ BoxOf(U).x + BoxOf(U).width <= W /\ BoxOf(U).y + BoxOf(U).height <= H
<1> DEFINE columns == {p[1] : p \in U}
           rows    == {p[2] : p \in U}
           b       == BoxOf(U)
<1>1. \A p \in U : p[1] \in 0 .. W - 1 /\ p[2] \in 0 .. H - 1
  BY DEF Pixels
<1>2. columns \in SUBSET Nat /\ columns \in SUBSET (0 .. W) /\ columns # {}
  BY <1>1
<1>3. rows \in SUBSET Nat /\ rows \in SUBSET (0 .. H) /\ rows # {}
  BY <1>1
<1> DEFINE left == Min(columns)
           right == Max(columns)
           top == Min(rows)
           bottom == Max(rows)
<1>4. /\ left \in columns /\ \A m \in columns : left <= m
      /\ right \in columns /\ \A m \in columns : m <= right
  <2> HIDE DEF columns
  <2> QED
    BY <1>2, MinIsLeast, MaxIsGreatest
<1>5. /\ top \in rows /\ \A m \in rows : top <= m
      /\ bottom \in rows /\ \A m \in rows : m <= bottom
  <2> HIDE DEF rows
  <2> QED
    BY <1>3, MinIsLeast, MaxIsGreatest
<1>6. b = [x |-> left, y |-> top, width |-> right - left + 1, height |-> bottom - top + 1,
           changedPixels |-> Cardinality(U)]
  BY DEF BoxOf
<1>7. Cardinality(U) \in Nat
  BY PixelsAreFinite
<1>8. \A p \in U : p[1] \in columns /\ p[2] \in rows
  OBVIOUS
<1>9. /\ \E p \in U : p[1] = left
      /\ \E p \in U : p[1] = right
      /\ \E p \in U : p[2] = top
      /\ \E p \in U : p[2] = bottom
  <2> HIDE DEF left, right, top, bottom
  <2> QED
    BY <1>4, <1>5
<1>10. /\ left \in Nat /\ right \in Nat /\ left <= right /\ right <= W - 1
       /\ top \in Nat /\ bottom \in Nat /\ top <= bottom /\ bottom <= H - 1
  <2>1. /\ left \in columns /\ right \in columns /\ left <= right
        /\ top \in rows /\ bottom \in rows /\ top <= bottom
    BY <1>4, <1>5
  <2> HIDE DEF left, right, top, bottom
  <2> QED
    BY <1>1, <2>1
<1>11. \A p \in U : left <= p[1] /\ p[1] <= right /\ top <= p[2] /\ p[2] <= bottom
  <2> HIDE DEF left, right, top, bottom, columns, rows
  <2> QED
    BY <1>4, <1>5, <1>8
<1> HIDE DEF left, right, top, bottom, columns, rows, b
<1>12. /\ b.x = left /\ b.y = top /\ b.width = right - left + 1 /\ b.height = bottom - top + 1
       /\ b.changedPixels = Cardinality(U)
  BY <1>6
<1>13. b \in Region
  <2>1. right - left + 1 \in Nat /\ bottom - top + 1 \in Nat
    BY <1>10
  <2> QED
    BY <1>6, <1>7, <1>10, <2>1 DEF Region
<1>14. b.x + b.width - 1 = right /\ b.y + b.height - 1 = bottom /\ b.width >= 1 /\ b.height >= 1
  BY <1>10, <1>12
<1>15. \A p \in U : /\ b.x <= p[1] /\ p[1] < b.x + b.width
                    /\ b.y <= p[2] /\ p[2] < b.y + b.height
  BY <1>1, <1>10, <1>11, <1>12
<1>16. Bounds(b, U)
  BY <1>9, <1>12, <1>13, <1>14, <1>15 DEF Bounds
<1> QED
  BY <1>10, <1>12, <1>16 DEF b

(* The box of more pixels is larger on every side.                         *)
LEMMA BoxGrows ==
  ASSUME NEW W \in Nat, NEW H \in Nat, NEW U \in SUBSET Pixels(W, H), U # {},
         NEW V \in SUBSET Pixels(W, H), U \subseteq V
  PROVE  LET u == BoxOf(U)
             v == BoxOf(V)
         IN /\ u \in Region /\ v \in Region
            /\ v.x <= u.x /\ u.x + u.width <= v.x + v.width
            /\ v.y <= u.y /\ u.y + u.height <= v.y + v.height
<1> DEFINE u == BoxOf(U)
           v == BoxOf(V)
<1>1. Bounds(u, U) /\ Bounds(v, V)
  BY BoxBounds
<1> HIDE DEF u, v
<1>2. /\ u.x \in Nat /\ u.y \in Nat /\ u.width \in Nat /\ u.height \in Nat
      /\ v.x \in Nat /\ v.y \in Nat /\ v.width \in Nat /\ v.height \in Nat
  BY <1>1 DEF Bounds, Region
<1>3. v.x <= u.x /\ v.y <= u.y
  BY <1>1 DEF Bounds
<1>4. u.x + u.width <= v.x + v.width
  <2>1. PICK p \in U : p[1] = u.x + u.width - 1
    BY <1>1 DEF Bounds
  <2>2. p[1] < v.x + v.width
    BY <1>1 DEF Bounds
  <2> QED
    BY <1>2, <2>1, <2>2
<1>5. u.y + u.height <= v.y + v.height
  <2>1. PICK p \in U : p[2] = u.y + u.height - 1
    BY <1>1 DEF Bounds
  <2>2. p[2] < v.y + v.height
    BY <1>1 DEF Bounds
  <2> QED
    BY <1>2, <2>1, <2>2
<1> QED
  BY <1>1, <1>3, <1>4, <1>5 DEF u, v, Bounds

(* What has parts that are near is near.                                   *)
LEMMA NearGrows ==
  ASSUME NEW W \in Nat, NEW H \in Nat,
         NEW A \in SUBSET Pixels(W, H), A # {}, NEW C \in SUBSET Pixels(W, H), A \subseteq C,
         NEW B \in SUBSET Pixels(W, H), B # {}, NEW D \in SUBSET Pixels(W, H), B \subseteq D,
         Within(BoxOf(A), BoxOf(B), MergeDistance)
  PROVE  Within(BoxOf(C), BoxOf(D), MergeDistance)
<1> DEFINE a == BoxOf(A)
           b == BoxOf(B)
           c == BoxOf(C)
           d == BoxOf(D)
<1>1. /\ a \in Region /\ c \in Region
      /\ c.x <= a.x /\ a.x + a.width <= c.x + c.width
      /\ c.y <= a.y /\ a.y + a.height <= c.y + c.height
  BY BoxGrows
<1>2. /\ b \in Region /\ d \in Region
      /\ d.x <= b.x /\ b.x + b.width <= d.x + d.width
      /\ d.y <= b.y /\ b.y + b.height <= d.y + d.height
  BY BoxGrows
<1>3. Within(a, b, MergeDistance)
  OBVIOUS
<1> HIDE DEF a, b, c, d
<1>4. MergeDistance \in Nat
  BY PicturesAssumption
<1>5. Within(c, d, MergeDistance)
  BY <1>1, <1>2, <1>3, <1>4 DEF Within, Region
<1> QED
  BY <1>5 DEF c, d

(* Nearness does not depend on the order.                                  *)
LEMMA NearBothWays ==
  ASSUME NEW a, NEW b, NEW distance
  PROVE  Within(a, b, distance) <=> Within(b, a, distance)
BY DEF Within

(* Regions with the same corner are near: so there is one there at most.   *)
LEMMA NearWhereItIs ==
  ASSUME NEW a \in Region, NEW b \in Region, a.x = b.x, a.y = b.y
  PROVE  Within(a, b, MergeDistance)
<1>1. MergeDistance \in Nat
  BY PicturesAssumption
<1> QED
  BY <1>1 DEF Within, Region

(* The box of two lots of pixels is what their boxes join to.              *)
LEMMA BoxOfBoth ==
  ASSUME NEW W \in Nat, NEW H \in Nat,
         NEW A \in SUBSET Pixels(W, H), A # {}, NEW B \in SUBSET Pixels(W, H), B # {},
         A \cap B = {}
  PROVE  BoxOf(A \cup B) = Joined(BoxOf(A), BoxOf(B))
<1> DEFINE a == BoxOf(A)
           b == BoxOf(B)
           c == BoxOf(A \cup B)
           j == Joined(a, b)
<1>1. Bounds(a, A) /\ a.changedPixels = Cardinality(A)
  BY BoxBounds
<1>2. Bounds(b, B) /\ b.changedPixels = Cardinality(B)
  BY BoxBounds
<1>3. Bounds(c, A \cup B) /\ c.changedPixels = Cardinality(A \cup B)
  <2>1. A \cup B \in SUBSET Pixels(W, H) /\ A \cup B # {}
    OBVIOUS
  <2> QED
    BY <2>1, BoxBounds
<1>4. Cardinality(A \cup B) = Cardinality(A) + Cardinality(B)
  <2>1. IsFiniteSet(A) /\ IsFiniteSet(B) /\ Cardinality(A) \in Nat /\ Cardinality(B) \in Nat
    BY PixelsAreFinite
  <2>2. Cardinality(A \cup B) = Cardinality(A) + Cardinality(B) - Cardinality(A \cap B)
    BY <2>1, FS_Union
  <2>3. Cardinality(A \cap B) = 0
    BY FS_EmptySet
  <2> QED
    BY <2>1, <2>2, <2>3
<1>5. /\ c.x <= a.x /\ a.x + a.width <= c.x + c.width
      /\ c.y <= a.y /\ a.y + a.height <= c.y + c.height
      /\ c.x <= b.x /\ b.x + b.width <= c.x + c.width
      /\ c.y <= b.y /\ b.y + b.height <= c.y + c.height
  <2>1. A \cup B \in SUBSET Pixels(W, H) /\ A \subseteq A \cup B /\ B \subseteq A \cup B
    OBVIOUS
  <2> QED
    BY <2>1, BoxGrows
<1> HIDE DEF a, b, c
<1>6. /\ a.x \in Nat /\ a.y \in Nat /\ a.width \in Nat /\ a.height \in Nat
      /\ b.x \in Nat /\ b.y \in Nat /\ b.width \in Nat /\ b.height \in Nat
      /\ c.x \in Nat /\ c.y \in Nat /\ c.width \in Nat /\ c.height \in Nat
      /\ c \in Region
  BY <1>1, <1>2, <1>3 DEF Bounds, Region
<1>7. c.x = Smaller(a.x, b.x)
  <2>1. PICK p \in A \cup B : p[1] = c.x
    BY <1>3 DEF Bounds
  <2>2. a.x <= p[1] \/ b.x <= p[1]
    BY <1>1, <1>2 DEF Bounds
  <2>3. a.x <= c.x \/ b.x <= c.x
    BY <2>1, <2>2
  <2>4. a.x \in Nat /\ b.x \in Nat /\ c.x \in Nat /\ c.x <= a.x /\ c.x <= b.x
    BY <1>5, <1>6
  <2> QED
    BY <2>3, <2>4 DEF Smaller
<1>8. c.y = Smaller(a.y, b.y)
  <2>1. PICK p \in A \cup B : p[2] = c.y
    BY <1>3 DEF Bounds
  <2>2. a.y <= p[2] \/ b.y <= p[2]
    BY <1>1, <1>2 DEF Bounds
  <2>3. a.y <= c.y \/ b.y <= c.y
    BY <2>1, <2>2
  <2>4. a.y \in Nat /\ b.y \in Nat /\ c.y \in Nat /\ c.y <= a.y /\ c.y <= b.y
    BY <1>5, <1>6
  <2> QED
    BY <2>3, <2>4 DEF Smaller
<1>9. c.x + c.width = Larger(a.x + a.width, b.x + b.width)
  <2>1. PICK p \in A \cup B : p[1] = c.x + c.width - 1
    BY <1>3 DEF Bounds
  <2>2. p[1] < a.x + a.width \/ p[1] < b.x + b.width
    BY <1>1, <1>2 DEF Bounds
  <2>3. c.x + c.width - 1 < a.x + a.width \/ c.x + c.width - 1 < b.x + b.width
    BY <2>1, <2>2
  <2> QED
    BY <1>5, <1>6, <2>3 DEF Larger
<1>10. c.y + c.height = Larger(a.y + a.height, b.y + b.height)
  <2>1. PICK p \in A \cup B : p[2] = c.y + c.height - 1
    BY <1>3 DEF Bounds
  <2>2. p[2] < a.y + a.height \/ p[2] < b.y + b.height
    BY <1>1, <1>2 DEF Bounds
  <2>3. c.y + c.height - 1 < a.y + a.height \/ c.y + c.height - 1 < b.y + b.height
    BY <2>1, <2>2
  <2> QED
    BY <1>5, <1>6, <2>3 DEF Larger
<1>11. /\ j.x = c.x /\ j.y = c.y /\ j.width = c.width /\ j.height = c.height
       /\ j.changedPixels = c.changedPixels
  <2>1. /\ j.x = Smaller(a.x, b.x) /\ j.y = Smaller(a.y, b.y)
        /\ j.width = Larger(a.x + a.width, b.x + b.width) - Smaller(a.x, b.x)
        /\ j.height = Larger(a.y + a.height, b.y + b.height) - Smaller(a.y, b.y)
        /\ j.changedPixels = a.changedPixels + b.changedPixels
    BY DEF Joined
  <2> HIDE DEF j
  <2>2. c.width = (c.x + c.width) - c.x /\ c.height = (c.y + c.height) - c.y
    BY <1>6
  <2> QED
    BY <1>1, <1>2, <1>3, <1>4, <1>7, <1>8, <1>9, <1>10, <2>1, <2>2
<1>12. j = [x |-> j.x, y |-> j.y, width |-> j.width, height |-> j.height,
            changedPixels |-> j.changedPixels]
  BY DEF Joined
<1>13. c = [x |-> c.x, y |-> c.y, width |-> c.width, height |-> c.height,
            changedPixels |-> c.changedPixels]
  BY <1>6 DEF Region
<1> HIDE DEF j
<1>14. c = j
  BY <1>11, <1>12, <1>13
<1> QED
  BY <1>14 DEF a, b, c, j

-----------------------------------------------------------------------------
(* What stands behind regions.                                             *)

(* Each region is the box of a lot of the pixels of C.  The lots share     *)
(* none and leave none out; no piece is in two of them, and whichever of   *)
(* the ways to put pieces into groups is taken, each lot lies in one of    *)
(* its groups.                                                             *)
Stands(s, u, C, pieces, ways) ==
  /\ u \in [1 .. Len(s) -> SUBSET C]
  /\ \A i \in 1 .. Len(s) : u[i] # {} /\ s[i] = BoxOf(u[i])
  /\ \A i, j \in 1 .. Len(s) : i # j => u[i] \cap u[j] = {}
  /\ \A p \in C : \E i \in 1 .. Len(s) : p \in u[i]
  /\ \A P \in pieces, i \in 1 .. Len(s) : P \cap u[i] # {} => P \subseteq u[i]
  /\ \A G \in ways, i \in 1 .. Len(s) : \E B \in G : u[i] \subseteq B

(* No two of the first m regions are near.                                 *)
Spread(s, m) == \A i, j \in 1 .. m : i # j => ~Within(s[i], s[j], MergeDistance)

(* Joining two regions that are near puts together no more than has to be. *)
LEMMA TakenStands ==
  ASSUME NEW W \in Nat, NEW H \in Nat, NEW C \in SUBSET Pixels(W, H), NEW pieces,
         NEW ways, \A G \in ways : Apart(G) /\ \A B \in G : B \subseteq Pixels(W, H),
         NEW s \in Seq(Region), NearLast(s) # {}, NEW u, Stands(s, u, C, pieces, ways)
  PROVE  \E v : Stands(Taken(s), v, C, pieces, ways)
<1> DEFINE n == Len(s)
           k == Min(NearLast(s))
           t == Taken(s)
           v == [i \in 1 .. n - 1 |-> IF i = n - 1 THEN u[n] \cup u[k]
                                      ELSE IF i < k THEN u[i] ELSE u[i + 1]]
<1>1. /\ n \in Nat /\ n >= 2 /\ k \in 1 .. n - 1 /\ Within(s[n], s[k], MergeDistance)
      /\ Len(t) = n - 1
      /\ \A i \in 1 .. n - 2 : t[i] = IF i < k THEN s[i] ELSE s[i + 1]
      /\ t[n - 1] = Joined(s[n], s[k])
  BY TakenRegions
<1> HIDE DEF n, k, t
<1>2. /\ u \in [1 .. n -> SUBSET C]
      /\ \A i \in 1 .. n : u[i] # {} /\ s[i] = BoxOf(u[i])
      /\ \A i, j \in 1 .. n : i # j => u[i] \cap u[j] = {}
      /\ \A p \in C : \E i \in 1 .. n : p \in u[i]
      /\ \A P \in pieces, i \in 1 .. n : P \cap u[i] # {} => P \subseteq u[i]
      /\ \A G \in ways, i \in 1 .. n : \E B \in G : u[i] \subseteq B
  BY DEF Stands, n
<1>3. k \in 1 .. n /\ n \in 1 .. n /\ k # n /\ n - 1 \in 1 .. n - 1
  BY <1>1
<1>4. ASSUME NEW i \in 1 .. n - 1
      PROVE  \/ i = n - 1 /\ v[i] = u[n] \cup u[k]
             \/ i < n - 1 /\ i < k /\ v[i] = u[i] /\ i \in 1 .. n /\ t[i] = s[i]
             \/ /\ i < n - 1 /\ ~(i < k) /\ v[i] = u[i + 1] /\ i + 1 \in 1 .. n /\ i + 1 # k
                /\ i + 1 # n /\ t[i] = s[i + 1]
  <2>1. v[i] = IF i = n - 1 THEN u[n] \cup u[k] ELSE IF i < k THEN u[i] ELSE u[i + 1]
    OBVIOUS
  <2> HIDE DEF v
  <2>2. CASE i = n - 1
    BY <2>1, <2>2
  <2>3. CASE i # n - 1 /\ i < k
    BY <1>1, <2>1, <2>3
  <2>4. CASE i # n - 1 /\ ~(i < k)
    BY <1>1, <2>1, <2>4
  <2> QED
    BY <2>2, <2>3, <2>4
<1>5. v[n - 1] = u[n] \cup u[k]
  BY <1>3
<1>6. DOMAIN v = 1 .. n - 1 /\ v = [i \in 1 .. n - 1 |-> v[i]]
  OBVIOUS
<1> HIDE DEF v
<1>7. u[n] \in SUBSET C /\ u[k] \in SUBSET C /\ u[n] # {} /\ u[k] # {} /\ u[n] \cap u[k] = {}
  BY <1>2, <1>3
<1>8. v \in [1 .. n - 1 -> SUBSET C]
  <2>1. \A i \in 1 .. n - 1 : v[i] \in SUBSET C
    BY <1>2, <1>4, <1>7
  <2> QED
    BY <1>6, <2>1
<1>9. ASSUME NEW i \in 1 .. n - 1 PROVE v[i] # {} /\ t[i] = BoxOf(v[i])
  <2>1. CASE i = n - 1
    <3>1. BoxOf(u[n] \cup u[k]) = Joined(BoxOf(u[n]), BoxOf(u[k]))
      <4>1. u[n] \in SUBSET Pixels(W, H) /\ u[k] \in SUBSET Pixels(W, H)
        BY <1>7
      <4> QED
        BY <1>7, <4>1, BoxOfBoth
    <3>2. s[n] = BoxOf(u[n]) /\ s[k] = BoxOf(u[k])
      BY <1>2, <1>3
    <3> QED
      BY <1>1, <1>5, <1>7, <2>1, <3>1, <3>2
  <2>2. CASE i # n - 1
    BY <1>2, <1>4, <2>2
  <2> QED
    BY <2>1, <2>2
<1>10. ASSUME NEW i \in 1 .. n - 1, NEW j \in 1 .. n - 1, i # j
       PROVE  v[i] \cap v[j] = {}
  <2>1. ASSUME NEW l \in 1 .. n - 1, l # n - 1 PROVE v[l] \cap (u[n] \cup u[k]) = {}
    <3>1. \E m \in 1 .. n : m # n /\ m # k /\ v[l] = u[m]
      BY <1>1, <1>4, <2>1
    <3> QED
      BY <1>2, <1>3, <3>1
  <2>2. CASE i = n - 1
    BY <1>5, <2>1, <2>2, <1>10
  <2>3. CASE j = n - 1
    BY <1>5, <2>1, <2>3, <1>10
  <2>4. CASE i # n - 1 /\ j # n - 1
    <3>1. \E l, m \in 1 .. n : l # m /\ v[i] = u[l] /\ v[j] = u[m]
      <4>1. \/ i < k /\ v[i] = u[i] /\ i \in 1 .. n
            \/ ~(i < k) /\ v[i] = u[i + 1] /\ i + 1 \in 1 .. n
        BY <1>4, <2>4
      <4>2. \/ j < k /\ v[j] = u[j] /\ j \in 1 .. n
            \/ ~(j < k) /\ v[j] = u[j + 1] /\ j + 1 \in 1 .. n
        BY <1>4, <2>4
      <4>3. i \in Nat /\ j \in Nat /\ k \in Nat /\ i # j
        BY <1>1, <1>10
      <4>4. CASE i < k /\ j < k
        BY <4>1, <4>2, <4>3, <4>4
      <4>5. CASE i < k /\ ~(j < k)
        BY <4>1, <4>2, <4>3, <4>5
      <4>6. CASE ~(i < k) /\ j < k
        BY <4>1, <4>2, <4>3, <4>6
      <4>7. CASE ~(i < k) /\ ~(j < k)
        BY <4>1, <4>2, <4>3, <4>7
      <4> QED
        BY <4>4, <4>5, <4>6, <4>7
    <3> QED
      BY <1>2, <3>1
  <2> QED
    BY <2>2, <2>3, <2>4
<1>11. ASSUME NEW p \in C PROVE \E i \in 1 .. n - 1 : p \in v[i]
  <2>1. PICK m \in 1 .. n : p \in u[m]
    BY <1>2
  <2>2. CASE m = n \/ m = k
    <3>1. p \in v[n - 1]
      BY <1>5, <2>1, <2>2
    <3> QED
      BY <1>3, <3>1
  <2>3. CASE m < k
    <3>1. m \in 1 .. n - 1 /\ m # n - 1
      BY <1>1, <2>3
    <3>2. v[m] = u[m]
      BY <1>1, <1>4, <2>3, <3>1
    <3> QED
      BY <2>1, <3>1, <3>2
  <2>4. CASE k < m /\ m # n
    <3>1. m - 1 \in 1 .. n - 1 /\ m - 1 # n - 1 /\ ~(m - 1 < k) /\ m - 1 + 1 = m
      BY <1>1, <2>4
    <3>2. v[m - 1] = u[m]
      BY <1>4, <3>1
    <3> QED
      BY <2>1, <3>1, <3>2
  <2> QED
    BY <1>1, <2>2, <2>3, <2>4
<1>12. ASSUME NEW P \in pieces, NEW i \in 1 .. n - 1, P \cap v[i] # {}
       PROVE  P \subseteq v[i]
  <2>1. CASE i = n - 1
    <3>1. P \cap u[n] # {} \/ P \cap u[k] # {}
      BY <1>5, <1>12, <2>1
    <3>2. P \subseteq u[n] \/ P \subseteq u[k]
      BY <1>2, <1>3, <3>1
    <3> QED
      BY <1>5, <2>1, <3>2
  <2>2. CASE i # n - 1
    <3>1. \E m \in 1 .. n : v[i] = u[m]
      BY <1>4, <2>2
    <3> QED
      BY <1>2, <1>12, <3>1
  <2> QED
    BY <2>1, <2>2
<1>13. ASSUME NEW G \in ways, NEW i \in 1 .. n - 1 PROVE \E B \in G : v[i] \subseteq B
  <2>1. CASE i = n - 1
    <3>1. PICK A \in G : u[n] \subseteq A
      BY <1>2, <1>3
    <3>2. PICK B \in G : u[k] \subseteq B
      BY <1>2, <1>3
    <3>3. A = B
      <4>1. SUFFICES ASSUME A # B PROVE FALSE
        OBVIOUS
      <4>2. A \in SUBSET Pixels(W, H) /\ B \in SUBSET Pixels(W, H)
        OBVIOUS
      <4>3. Within(BoxOf(u[n]), BoxOf(u[k]), MergeDistance)
        BY <1>1, <1>2, <1>3
      <4>4. u[n] \in SUBSET Pixels(W, H) /\ u[k] \in SUBSET Pixels(W, H)
        BY <1>7
      <4>5. Within(BoxOf(A), BoxOf(B), MergeDistance)
        BY <1>7, <3>1, <3>2, <4>2, <4>3, <4>4, NearGrows
      <4> QED
        BY <4>1, <4>5 DEF Apart
    <3> QED
      BY <1>5, <2>1, <3>1, <3>2, <3>3
  <2>2. CASE i # n - 1
    BY <1>2, <1>4, <2>2
  <2> QED
    BY <2>1, <2>2
<1>14. Stands(t, v, C, pieces, ways)
  <2> DEFINE N == 1 .. n - 1
  <2>1. 1 .. Len(t) = N
    BY <1>1
  <2>2. /\ v \in [N -> SUBSET C]
        /\ \A i \in N : v[i] # {} /\ t[i] = BoxOf(v[i])
        /\ \A i, j \in N : i # j => v[i] \cap v[j] = {}
        /\ \A p \in C : \E i \in N : p \in v[i]
        /\ \A P \in pieces, i \in N : P \cap v[i] # {} => P \subseteq v[i]
        /\ \A G \in ways, i \in N : \E B \in G : v[i] \subseteq B
    BY <1>8, <1>9, <1>10, <1>11, <1>12, <1>13
  <2> HIDE DEF N
  <2> QED
    BY <2>1, <2>2, Zenon DEF Stands
<1> QED
  BY <1>14 DEF t

(* A region that was absorbed stands where all did, and no two are near    *)
(* when none of those before it were.                                      *)
LEMMA AbsorbStands ==
  ASSUME NEW W \in Nat, NEW H \in Nat, NEW C \in SUBSET Pixels(W, H), NEW pieces,
         NEW ways, \A G \in ways : Apart(G) /\ \A B \in G : B \subseteq Pixels(W, H)
  PROVE  \A s \in Seq(Region) : \A u :
           Stands(s, u, C, pieces, ways) /\ Spread(s, Len(s) - 1) =>
             /\ \E v : Stands(Absorb[s], v, C, pieces, ways)
             /\ Spread(Absorb[s], Len(Absorb[s]))
<1> DEFINE Good(s, r) == \A u : Stands(s, u, C, pieces, ways) /\ Spread(s, Len(s) - 1) =>
                           /\ \E v : Stands(r, v, C, pieces, ways)
                           /\ Spread(r, Len(r))
           All == {s \in Seq(Region) : Good(s, Absorb[s])}
<1>1. ASSUME NEW s \in Seq(Region), \A t \in Seq(Region) : Len(t) < Len(s) => t \in All
      PROVE  s \in All
  <2>1. Absorb[s] = IF NearLast(s) = {} THEN s ELSE Absorb[Taken(s)]
    BY AbsorbIs
  <2>2. SUFFICES ASSUME NEW u, Stands(s, u, C, pieces, ways), Spread(s, Len(s) - 1)
        PROVE  /\ \E v : Stands(Absorb[s], v, C, pieces, ways)
               /\ Spread(Absorb[s], Len(Absorb[s]))
    OBVIOUS
  <2>3. CASE NearLast(s) = {}
    <3>1. Absorb[s] = s
      BY <2>1, <2>3
    <3>2. ASSUME NEW i \in 1 .. Len(s), NEW j \in 1 .. Len(s), i # j
          PROVE  ~Within(s[i], s[j], MergeDistance)
      <4>1. s # << >>
        BY <3>2
      <4>2. /\ Len(s) \in Nat \ {0}
            /\ DOMAIN Front(s) = 1 .. Len(s) - 1
            /\ \A l \in 1 .. Len(s) - 1 : Front(s)[l] = s[l]
            /\ Last(s) = s[Len(s)]
        BY <4>1, FrontOfRegions
      <4>3. \A l \in 1 .. Len(s) - 1 : ~Within(s[Len(s)], s[l], MergeDistance)
        BY <2>3, <4>2 DEF NearLast
      <4>4. CASE i = Len(s)
        <5>1. j \in 1 .. Len(s) - 1
          BY <3>2, <4>2, <4>4
        <5> QED
          BY <4>3, <4>4, <5>1
      <4>5. CASE j = Len(s)
        <5>1. i \in 1 .. Len(s) - 1
          BY <3>2, <4>2, <4>5
        <5>2. ~Within(s[j], s[i], MergeDistance)
          BY <4>3, <4>5, <5>1
        <5> QED
          BY <5>2, NearBothWays
      <4>6. CASE i # Len(s) /\ j # Len(s)
        <5>1. i \in 1 .. Len(s) - 1 /\ j \in 1 .. Len(s) - 1
          BY <4>2, <4>6
        <5> QED
          BY <2>2, <3>2, <5>1 DEF Spread
      <4> QED
        BY <4>4, <4>5, <4>6
    <3>3. Spread(s, Len(s))
      BY <3>2 DEF Spread
    <3> QED
      BY <2>2, <3>1, <3>3
  <2>4. CASE NearLast(s) # {}
    <3> DEFINE t == Taken(s)
               k == Min(NearLast(s))
    <3>1. /\ Len(s) \in Nat /\ Len(s) >= 2 /\ k \in 1 .. Len(s) - 1
          /\ t \in Seq(Region) /\ Len(t) = Len(s) - 1
          /\ \A i \in 1 .. Len(s) - 2 : t[i] = IF i < k THEN s[i] ELSE s[i + 1]
      BY <2>4, TakenRegions
    <3>2. PICK v : Stands(t, v, C, pieces, ways)
      BY <2>2, <2>4, TakenStands
    <3> HIDE DEF t, k
    <3>3. Spread(t, Len(t) - 1)
      <4>1. SUFFICES ASSUME NEW i \in 1 .. Len(s) - 2, NEW j \in 1 .. Len(s) - 2, i # j
            PROVE  ~Within(t[i], t[j], MergeDistance)
        <5>1. Len(t) - 1 = Len(s) - 2
          BY <3>1
        <5> QED
          BY <4>1, <5>1 DEF Spread
      <4>2. \E l, m \in 1 .. Len(s) - 1 : l # m /\ t[i] = s[l] /\ t[j] = s[m]
        <5>1. /\ i \in Nat /\ j \in Nat /\ k \in Nat /\ i # j
            /\ i + 1 <= Len(s) - 1 /\ j + 1 <= Len(s) - 1
              /\ i >= 1 /\ j >= 1 /\ Len(s) \in Nat
          BY <3>1, <4>1
        <5>2. /\ i \in 1 .. Len(s) - 1 /\ i + 1 \in 1 .. Len(s) - 1
              /\ j \in 1 .. Len(s) - 1 /\ j + 1 \in 1 .. Len(s) - 1
          BY <5>1
        <5>3. t[i] = (IF i < k THEN s[i] ELSE s[i + 1]) /\ t[j] = (IF j < k THEN s[j] ELSE s[j + 1])
          BY <3>1, <4>1
        <5>4. CASE i < k /\ j < k
          BY <5>1, <5>2, <5>3, <5>4
        <5>5. CASE i < k /\ ~(j < k)
          <6>1. i # j + 1
            BY <5>1, <5>5
          <6> QED
            BY <5>2, <5>3, <5>5, <6>1
        <5>6. CASE ~(i < k) /\ j < k
          <6>1. i + 1 # j
            BY <5>1, <5>6
          <6> QED
            BY <5>2, <5>3, <5>6, <6>1
        <5>7. CASE ~(i < k) /\ ~(j < k)
          <6>1. i + 1 # j + 1
            BY <5>1
          <6> QED
            BY <5>2, <5>3, <5>7, <6>1
        <5> QED
          BY <5>4, <5>5, <5>6, <5>7
      <4> QED
        BY <2>2, <4>2 DEF Spread
    <3>4. t \in All
      <4>1. Len(t) < Len(s)
        BY <3>1
      <4> HIDE DEF All
      <4> QED
        BY <1>1, <3>1, <4>1
    <3>5. Absorb[s] = Absorb[t]
      BY <2>1, <2>4 DEF t
    <3>6. Good(t, Absorb[t])
      BY <3>4
    <3> QED
      BY <3>2, <3>3, <3>5, <3>6
  <2> QED
    BY <2>3, <2>4
<1>2. \A s \in Seq(Region) : s \in All
  <2> HIDE DEF All
  <2> QED
    BY <1>1, ByLength
<1> QED
  BY <1>2

(* Without the last region, what is left stands for the other pixels.      *)
LEMMA WithoutTheLast ==
  ASSUME NEW C, NEW pieces, NEW ways, NEW s \in Seq(Region), s # << >>,
         NEW u, Stands(s, u, C, pieces, ways)
  PROVE  Stands(Front(s), [i \in 1 .. Len(s) - 1 |-> u[i]], C \ u[Len(s)], pieces, ways)
<1> DEFINE n == Len(s)
           D == C \ u[n]
           v == [i \in 1 .. n - 1 |-> u[i]]
           t == Front(s)
<1>1. /\ n \in Nat \ {0} /\ Len(t) = n - 1 /\ \A i \in 1 .. n - 1 : t[i] = s[i]
  BY FrontOfRegions
<1> HIDE DEF n, t
<1>2. /\ u \in [1 .. n -> SUBSET C]
      /\ \A i \in 1 .. n : u[i] # {} /\ s[i] = BoxOf(u[i])
      /\ \A i, j \in 1 .. n : i # j => u[i] \cap u[j] = {}
      /\ \A p \in C : \E i \in 1 .. n : p \in u[i]
      /\ \A P \in pieces, i \in 1 .. n : P \cap u[i] # {} => P \subseteq u[i]
      /\ \A G \in ways, i \in 1 .. n : \E B \in G : u[i] \subseteq B
  BY DEF Stands, n
<1> DEFINE N == 1 .. n - 1
<1>3. /\ \A i \in N : i \in 1 .. n /\ i # n
      /\ n \in 1 .. n /\ \A i \in 1 .. n : i # n => i \in N
      /\ 1 .. Len(t) = N
  BY <1>1
<1>4. v = [i \in N |-> u[i]] /\ \A i \in N : v[i] = u[i]
  OBVIOUS
<1>5. \A i \in N : t[i] = s[i]
  BY <1>1
<1> HIDE DEF v, N
<1>6. v \in [N -> SUBSET D]
  <2>1. \A i \in N : u[i] \in SUBSET D
    BY <1>2, <1>3
  <2> HIDE DEF D
  <2> QED
    BY <1>4, <2>1
<1>7. \A p \in D : \E i \in N : p \in v[i]
  BY <1>2, <1>3, <1>4
<1>8. /\ \A i \in N : v[i] # {} /\ t[i] = BoxOf(v[i])
      /\ \A i, j \in N : i # j => v[i] \cap v[j] = {}
      /\ \A P \in pieces, i \in N : P \cap v[i] # {} => P \subseteq v[i]
      /\ \A G \in ways, i \in N : \E B \in G : v[i] \subseteq B
  <2>1. \A i \in N : v[i] # {} /\ t[i] = BoxOf(v[i])
    BY <1>2, <1>3, <1>4, <1>5
  <2>2. \A i, j \in N : i # j => v[i] \cap v[j] = {}
    BY <1>2, <1>3, <1>4
  <2>3. \A P \in pieces, i \in N : P \cap v[i] # {} => P \subseteq v[i]
    BY <1>2, <1>3, <1>4
  <2>4. \A G \in ways, i \in N : \E B \in G : v[i] \subseteq B
    BY <1>2, <1>3, <1>4
  <2> QED
    BY <2>1, <2>2, <2>3, <2>4
<1>9. Stands(t, v, D, pieces, ways)
  <2> HIDE DEF D
  <2> QED
    BY <1>3, <1>6, <1>7, <1>8, Zenon DEF Stands
<1> QED
  BY <1>9 DEF t, v, n

(* With one region more, what is behind it is had too.                     *)
LEMMA WithOneMore ==
  ASSUME NEW C, NEW pieces, NEW ways, NEW t \in Seq(Region), NEW u, NEW r \in Region,
         NEW D \in SUBSET C, C \ D # {}, r = BoxOf(C \ D),
         \A P \in pieces : P \cap (C \ D) # {} => P \subseteq C \ D,
         \A G \in ways : \E B \in G : C \ D \subseteq B,
         Stands(t, u, D, pieces, ways)
  PROVE  \E v : Stands(Append(t, r), v, C, pieces, ways)
<1> DEFINE n == Len(t) + 1
           s == Append(t, r)
           rest == C \ D
           v == [i \in 1 .. n |-> IF i = n THEN rest ELSE u[i]]
<1>1. /\ Len(t) \in Nat /\ n \in Nat /\ n >= 1 /\ Len(s) = n /\ s[n] = r
      /\ \A i \in 1 .. Len(t) : s[i] = t[i]
  OBVIOUS
<1> DEFINE N == 1 .. Len(t)
           M == 1 .. n
<1>2. /\ u \in [N -> SUBSET D]
      /\ \A i \in N : u[i] # {} /\ t[i] = BoxOf(u[i])
      /\ \A i, j \in N : i # j => u[i] \cap u[j] = {}
      /\ \A p \in D : \E i \in N : p \in u[i]
      /\ \A P \in pieces, i \in N : P \cap u[i] # {} => P \subseteq u[i]
      /\ \A G \in ways, i \in N : \E B \in G : u[i] \subseteq B
  BY DEF Stands
<1>3. n \in M /\ 1 .. Len(s) = M /\ (\A i \in N : i \in M /\ i # n) /\ \A i \in M : i # n => i \in N
  BY <1>1
<1>4. v[n] = rest /\ \A i \in N : v[i] = u[i]
  BY <1>1, <1>3
<1>5. v = [i \in M |-> v[i]] /\ \A i \in N : s[i] = t[i]
  BY <1>1
<1> HIDE DEF v, N, M, n, s
<1>6. rest \cap D = {} /\ rest \subseteq C /\ rest # {} /\ \A p \in C : p \in D \/ p \in rest
  OBVIOUS
<1>7. r = BoxOf(rest) /\ (\A P \in pieces : P \cap rest # {} => P \subseteq rest)
      /\ \A G \in ways : \E B \in G : rest \subseteq B
  OBVIOUS
<1> HIDE DEF rest
<1>8. \A i \in N : u[i] \subseteq D /\ u[i] \subseteq C /\ u[i] \cap rest = {}
  BY <1>2, <1>6
<1>9. v \in [M -> SUBSET C]
  <2>1. \A i \in M : v[i] \in SUBSET C
    BY <1>3, <1>4, <1>6, <1>8
  <2> QED
    BY <1>5, <2>1
<1>10. \A i \in M : v[i] # {} /\ s[i] = BoxOf(v[i])
  <2>1. v[n] # {} /\ s[n] = BoxOf(v[n])
    BY <1>1, <1>4, <1>6, <1>7
  <2>2. \A i \in N : v[i] # {} /\ s[i] = BoxOf(v[i])
    BY <1>2, <1>4, <1>5
  <2> QED
    BY <1>3, <2>1, <2>2
<1>11. \A i, j \in M : i # j => v[i] \cap v[j] = {}
  BY <1>2, <1>3, <1>4, <1>8
<1>12. \A p \in C : \E i \in M : p \in v[i]
  BY <1>2, <1>3, <1>4, <1>6
<1>13. \A P \in pieces, i \in M : P \cap v[i] # {} => P \subseteq v[i]
  BY <1>2, <1>3, <1>4, <1>7
<1>14. \A G \in ways, i \in M : \E B \in G : v[i] \subseteq B
  BY <1>2, <1>3, <1>4, <1>7
<1>15. Stands(s, v, C, pieces, ways)
  BY <1>3, <1>9, <1>10, <1>11, <1>12, <1>13, <1>14, Zenon DEF Stands
<1> QED
  BY <1>15 DEF s

(* So do regions after a pass, and no two of them are near.                *)
LEMMA PassStands ==
  ASSUME NEW W \in Nat, NEW H \in Nat, NEW pieces,
         NEW ways, \A G \in ways : Apart(G) /\ \A B \in G : B \subseteq Pixels(W, H)
  PROVE  \A s \in Seq(Region), C \in SUBSET Pixels(W, H) : \A u :
           Stands(s, u, C, pieces, ways) =>
             /\ \E v : Stands(Pass[s], v, C, pieces, ways)
             /\ Spread(Pass[s], Len(Pass[s]))
<1> DEFINE Good(s, r) == \A C \in SUBSET Pixels(W, H) : \A u :
                           Stands(s, u, C, pieces, ways) =>
                           /\ \E v : Stands(r, v, C, pieces, ways)
                           /\ Spread(r, Len(r))
           All == {s \in Seq(Region) : Good(s, Pass[s])}
<1>1. ASSUME NEW s \in Seq(Region), \A t \in Seq(Region) : Len(t) < Len(s) => t \in All
      PROVE  s \in All
  <2>1. Pass[s] = IF s = << >> THEN << >> ELSE Absorb[Append(Pass[Front(s)], Last(s))]
    BY PassIs DEF PassBody
  <2>2. SUFFICES ASSUME NEW C \in SUBSET Pixels(W, H), NEW u, Stands(s, u, C, pieces, ways)
        PROVE  /\ \E v : Stands(Pass[s], v, C, pieces, ways)
               /\ Spread(Pass[s], Len(Pass[s]))
    OBVIOUS
  <2>3. CASE s = << >>
    <3>1. Pass[s] = s /\ Len(s) = 0
      BY <2>1, <2>3
    <3>2. Spread(s, Len(s))
      BY <3>1 DEF Spread
    <3> QED
      BY <2>2, <3>1, <3>2
  <2>4. CASE s # << >>
    <3> DEFINE n == Len(s)
               f == Front(s)
               D == C \ u[n]
    <3>1. /\ n \in Nat \ {0} /\ f \in Seq(Region) /\ Len(f) = n - 1
          /\ Last(s) = s[n] /\ Last(s) \in Region /\ n \in 1 .. n
      BY <2>4, FrontOfRegions
    <3>2. \E v : Stands(f, v, D, pieces, ways)
      BY <2>2, <2>4, WithoutTheLast
    <3>3. /\ u[n] # {} /\ s[n] = BoxOf(u[n]) /\ u[n] \subseteq C
          /\ \A P \in pieces : P \cap u[n] # {} => P \subseteq u[n]
          /\ \A G \in ways : \E B \in G : u[n] \subseteq B
      BY <2>2, <3>1 DEF Stands
    <3> HIDE DEF f, n
    <3>4. f \in All
      <4>1. Len(f) < Len(s)
        BY <3>1 DEF n
      <4> HIDE DEF All
      <4> QED
        BY <1>1, <3>1, <4>1
    <3>5. D \in SUBSET Pixels(W, H) /\ D \in SUBSET C /\ C \ D = u[n]
      BY <3>3
    <3>6. (\E v : Stands(Pass[f], v, D, pieces, ways)) /\ Spread(Pass[f], Len(Pass[f]))
      <4>1. Good(f, Pass[f])
        BY <3>4
      <4> HIDE DEF D
      <4> QED
        BY <3>2, <3>5, <4>1
    <3>7. PICK v : Stands(Pass[f], v, D, pieces, ways)
      BY <3>6
    <3> DEFINE t == Pass[f]
               a == Append(t, Last(s))
    <3>8. t \in Seq(Region)
      BY <3>1, PassIs
    <3> HIDE DEF D, t, All
    <3>9. \E w : Stands(Append(t, Last(s)), w, C, pieces, ways)
      <4>1. C \ D # {} /\ Last(s) = BoxOf(C \ D)
        BY <3>1, <3>3, <3>5
      <4>2. /\ \A P \in pieces : P \cap (C \ D) # {} => P \subseteq C \ D
            /\ \A G \in ways : \E B \in G : C \ D \subseteq B
        BY <3>3, <3>5
      <4>3. Stands(t, v, D, pieces, ways) /\ Last(s) \in Region /\ D \in SUBSET C
        BY <3>1, <3>5, <3>7 DEF t
      <4> QED
        BY <3>8, <4>1, <4>2, <4>3, WithOneMore
    <3>10. PICK w : Stands(a, w, C, pieces, ways)
      BY <3>9
    <3>11. a \in Seq(Region) /\ Len(a) - 1 = Len(t) /\ \A i \in 1 .. Len(t) : a[i] = t[i]
      BY <3>1, <3>8
    <3>12. Spread(a, Len(a) - 1)
      BY <3>6, <3>11 DEF Spread, t
    <3>13. Pass[s] = Absorb[a]
      BY <2>1, <2>4 DEF t, f
    <3> HIDE DEF a
    <3>14. /\ \E x : Stands(Absorb[a], x, C, pieces, ways)
           /\ Spread(Absorb[a], Len(Absorb[a]))
      BY <3>10, <3>11, <3>12, AbsorbStands
    <3> QED
      BY <3>13, <3>14
  <2> QED
    BY <2>3, <2>4
<1>2. \A s \in Seq(Region) : s \in All
  <2> HIDE DEF All
  <2> QED
    BY <1>1, ByLength
<1> QED
  BY <1>2

(* And so do those that are left in the end.                               *)
LEMMA MergedStands ==
  ASSUME NEW W \in Nat, NEW H \in Nat, NEW C \in SUBSET Pixels(W, H), NEW pieces,
         NEW ways, \A G \in ways : Apart(G) /\ \A B \in G : B \subseteq Pixels(W, H)
  PROVE  \A s \in Seq(Region) : \A u :
           Stands(s, u, C, pieces, ways) =>
             /\ Merged[s] \in Seq(Region)
             /\ \E v : Stands(Merged[s], v, C, pieces, ways)
             /\ Spread(Merged[s], Len(Merged[s]))
<1> DEFINE Good(s, r) == \A u : Stands(s, u, C, pieces, ways) =>
                           /\ r \in Seq(Region)
                           /\ \E v : Stands(r, v, C, pieces, ways)
                           /\ Spread(r, Len(r))
           All == {s \in Seq(Region) : Good(s, Merged[s])}
<1>1. ASSUME NEW s \in Seq(Region), \A t \in Seq(Region) : Len(t) < Len(s) => t \in All
      PROVE  s \in All
  <2>1. /\ Pass[s] \in Seq(Region) /\ Len(Pass[s]) <= Len(s)
        /\ Merged[s] = IF Len(Pass[s]) = Len(s) THEN Pass[s] ELSE Merged[Pass[s]]
    BY PassIs, MergedIs
  <2>2. ASSUME NEW u, Stands(s, u, C, pieces, ways)
        PROVE  /\ \E v : Stands(Pass[s], v, C, pieces, ways)
               /\ Spread(Pass[s], Len(Pass[s]))
    BY <2>2, PassStands
  <2>3. CASE Len(Pass[s]) = Len(s)
    BY <2>1, <2>2, <2>3
  <2>4. CASE Len(Pass[s]) # Len(s)
    <3> DEFINE t == Pass[s]
    <3>1. Merged[s] = Merged[t] /\ t \in Seq(Region)
      BY <2>1, <2>4
    <3>2. Len(t) < Len(s)
      <4>1. Len(t) \in Nat /\ Len(s) \in Nat
        BY <2>1
      <4> QED
        BY <2>1, <2>4, <4>1
    <3>3. t \in All
      <4> HIDE DEF All
      <4> QED
        BY <1>1, <3>1, <3>2
    <3>4. Good(t, Merged[t])
      BY <3>3
    <3> QED
      BY <2>2, <3>1, <3>4
  <2> QED
    BY <2>3, <2>4
<1>2. \A s \in Seq(Region) : s \in All
  <2> HIDE DEF All
  <2> QED
    BY <1>1, ByLength
<1> QED
  BY <1>2

-----------------------------------------------------------------------------
(* The pieces of a mask.                                                   *)

(* No pixel of the mask outside K is beside one in it.                     *)
Closed(K, mask) == \A r \in K, q \in mask : Beside(q, r) => q \in K

(* The pixels joined to one are the fewest that have it and are closed.    *)
LEMMA JoinedIsClosed ==
  ASSUME NEW mask, IsFiniteSet(mask), NEW p \in mask
  PROVE  /\ p \in JoinedTo(p, mask) /\ JoinedTo(p, mask) \subseteq mask
         /\ Closed(JoinedTo(p, mask), mask)
         /\ \A K \in SUBSET mask : p \in K /\ Closed(K, mask) => JoinedTo(p, mask) \subseteq K
<1> DEFINE S == SUBSET mask
           more(found) == {q \in mask \ found : \E r \in found : Beside(q, r)}
           stop == {found \in S : more(found) = {}}
           base == [found \in S |-> found]
           prev == [found \in S |-> found \cup more(found)]
           size == [found \in S |-> Cardinality(mask \ found)]
           Is(f) == f = [found \in SUBSET mask |->
                          LET new == {q \in mask \ found : \E r \in found : Beside(q, r)}
                          IN IF new = {} THEN found ELSE f[found \cup new]]
           flood == CHOOSE f : Is(f)
<1>1. \A found \in S : more(found) \subseteq mask \ found
  OBVIOUS
<1>2. base \in [S -> S] /\ prev \in [S -> S]
  BY <1>1
<1>3. \A found \in S : IsFiniteSet(mask \ found) /\ Cardinality(mask \ found) \in Nat
  BY FS_Difference, FS_CardinalityType
<1>4. size \in [S -> Nat]
  BY <1>3
<1>5. ASSUME NEW found \in S \ stop PROVE size[prev[found]] < size[found]
  <2> DEFINE A == mask \ (found \cup more(found))
             B == mask \ found
  <2>1. A \subseteq B /\ A # B
    OBVIOUS
  <2>2. IsFiniteSet(B)
    BY <1>3
  <2>3. Cardinality(A) < Cardinality(B)
    <3>1. Cardinality(A) <= Cardinality(B) /\ (Cardinality(A) = Cardinality(B) => A = B)
      <4> HIDE DEF A, B
      <4> QED
        BY <2>1, <2>2, FS_Subset
    <3>2. Cardinality(A) \in Nat /\ Cardinality(B) \in Nat
      <4>1. found \cup more(found) \in S
        BY <1>1
      <4> HIDE DEF S, more
      <4> QED
        BY <1>3, <4>1
    <3> HIDE DEF A, B
    <3> QED
      BY <2>1, <3>1, <3>2
  <2>4. prev[found] = found \cup more(found) /\ prev[found] \in S
    BY <1>1
  <2>5. size[prev[found]] = Cardinality(A) /\ size[found] = Cardinality(B)
    <3> HIDE DEF prev, more
    <3> QED
      BY <2>4
  <2> HIDE DEF A, B, size, prev
  <2> QED
    BY <2>3, <2>5
<1>6. \E f : TailRecursion(f, S, stop, base, prev)
  <2> HIDE DEF S, stop, base, prev, size
  <2> QED
    BY <1>2, <1>4, <1>5, TailRecursionExists
<1>7. \E f : Is(f)
  <2>1. PICK f : TailRecursion(f, S, stop, base, prev)
    BY <1>6
  <2>2. f = [found \in S |-> IF found \in stop THEN base[found] ELSE f[prev[found]]]
    BY <2>1 DEF TailRecursion
  <2>3. \A found \in S : (IF found \in stop THEN base[found] ELSE f[prev[found]])
                           = IF more(found) = {} THEN found ELSE f[found \cup more(found)]
    <3> HIDE DEF more
    <3> QED
      OBVIOUS
  <2>4. f = [found \in S |-> IF more(found) = {} THEN found ELSE f[found \cup more(found)]]
    <3> HIDE DEF stop, base, prev, more
    <3> QED
      BY <2>2, <2>3
  <2> QED
    BY <2>4
<1>8. JoinedTo(p, mask) = flood[{p}]
  BY DEF JoinedTo
<1>9. Is(flood)
  <2> HIDE DEF Is
  <2> QED
    BY <1>7
<1>10. \A found \in S : flood[found] = IF more(found) = {} THEN found
                                       ELSE flood[found \cup more(found)]
  <2> HIDE DEF flood
  <2> QED
    BY <1>9
<1> DEFINE Good(found, J) ==
             /\ found \subseteq J /\ J \subseteq mask /\ Closed(J, mask)
             /\ \A K \in SUBSET mask : found \subseteq K /\ Closed(K, mask) => J \subseteq K
           All == {found \in S : Good(found, flood[found])}
<1>11. ASSUME NEW found \in S, \A x \in S : size[x] < size[found] => x \in All
       PROVE  found \in All
  <2> HIDE DEF flood
  <2>1. CASE more(found) = {}
    <3>1. flood[found] = found
      BY <1>10, <2>1
    <3>2. Closed(found, mask)
      BY <2>1 DEF Closed
    <3> QED
      BY <3>1, <3>2
  <2>2. CASE more(found) # {}
    <3> DEFINE x == found \cup more(found)
    <3>1. flood[found] = flood[x] /\ x \in S
      <4>1. more(found) \in S
        OBVIOUS
      <4> HIDE DEF more
      <4> QED
        BY <1>10, <2>2, <4>1
    <3>2. found \in S \ stop /\ prev[found] = x
      BY <2>2
    <3>3. x \in All
      <4>1. size[x] < size[found]
        BY <1>5, <3>2
      <4> HIDE DEF All, x, S, size
      <4> QED
        BY <1>11, <3>1, <4>1
    <3>4. Good(x, flood[x])
      BY <3>3
    <3>5. \A K \in SUBSET mask : found \subseteq K /\ Closed(K, mask) => x \subseteq K
      BY DEF Closed
    <3>6. found \subseteq x
      OBVIOUS
    <3> HIDE DEF x
    <3> QED
      BY <3>1, <3>4, <3>5, <3>6
  <2> QED
    BY <2>1, <2>2
<1>12. \A found \in S : found \in All
  <2> HIDE DEF S, All, size
  <2> QED
    BY <1>4, <1>11, BySize
<1>13. Good({p}, flood[{p}])
  BY <1>12
<1> HIDE DEF flood
<1> QED
  BY <1>8, <1>13

(* Beside is both ways.                                                    *)
LEMMA BesideBothWays ==
  ASSUME NEW p \in Nat \X Nat, NEW q \in Nat \X Nat
  PROVE  Beside(p, q) <=> Beside(q, p)
<1>1. p[1] \in Nat /\ p[2] \in Nat /\ q[1] \in Nat /\ q[2] \in Nat
  OBVIOUS
<1> QED
  BY <1>1 DEF Beside

(* A pixel is joined to the same pixels as each of those is.               *)
LEMMA JoinedAlike ==
  ASSUME NEW mask \in SUBSET (Nat \X Nat), IsFiniteSet(mask), NEW p \in mask,
         NEW q \in JoinedTo(p, mask)
  PROVE  q \in mask /\ JoinedTo(q, mask) = JoinedTo(p, mask)
<1> DEFINE J == JoinedTo(p, mask)
           K == JoinedTo(q, mask)
<1>1. /\ p \in J /\ J \subseteq mask /\ Closed(J, mask)
      /\ \A L \in SUBSET mask : p \in L /\ Closed(L, mask) => J \subseteq L
  BY JoinedIsClosed
<1>2. q \in mask
  BY <1>1
<1>3. /\ q \in K /\ K \subseteq mask /\ Closed(K, mask)
      /\ \A L \in SUBSET mask : q \in L /\ Closed(L, mask) => K \subseteq L
  BY <1>2, JoinedIsClosed
<1> HIDE DEF J, K
<1>4. q \in J
  BY DEF J
<1>5. K \subseteq J
  BY <1>1, <1>3, <1>4
<1>6. p \in K
  <2>1. SUFFICES ASSUME p \notin K PROVE FALSE
    OBVIOUS
  <2>2. Closed(mask \ K, mask)
    <3>1. SUFFICES ASSUME NEW r \in mask \ K, NEW x \in mask, Beside(x, r), x \in K PROVE FALSE
      BY DEF Closed
    <3>2. r \in Nat \X Nat /\ x \in Nat \X Nat
      OBVIOUS
    <3>3. Beside(r, x)
      BY <3>1, <3>2, BesideBothWays
    <3> QED
      BY <1>3, <3>1, <3>3 DEF Closed
  <2>3. J \subseteq mask \ K
    BY <1>1, <2>1, <2>2
  <2> QED
    BY <1>3, <1>4, <2>3
<1>7. J \subseteq K
  BY <1>1, <1>3, <1>6
<1> QED
  BY <1>2, <1>5, <1>7 DEF J, K

PiecesOf(mask) == {JoinedTo(p, mask) : p \in mask}

(* Each pixel of a mask is in one of its joined pieces, and in one only.   *)
LEMMA PiecesPart ==
  ASSUME NEW W \in Nat, NEW H \in Nat, NEW mask \in SUBSET Pixels(W, H)
  PROVE  /\ IsFiniteSet(PiecesOf(mask))
         /\ \A P \in PiecesOf(mask) : P # {} /\ P \subseteq mask
         /\ \A P, Q \in PiecesOf(mask) : P \cap Q # {} => P = Q
         /\ \A p \in mask : \E P \in PiecesOf(mask) : p \in P
<1>1. IsFiniteSet(mask)
  BY PixelsAreFinite
<1>2. mask \in SUBSET (Nat \X Nat)
  BY DEF Pixels
<1>3. \A p \in mask : p \in JoinedTo(p, mask) /\ JoinedTo(p, mask) \subseteq mask
  BY <1>1, JoinedIsClosed
<1>4. \A p \in mask : \A q \in JoinedTo(p, mask) : q \in mask /\ JoinedTo(q, mask) = JoinedTo(p, mask)
  BY <1>1, <1>2, JoinedAlike
<1>5. IsFiniteSet(PiecesOf(mask))
  <2>1. IsFiniteSet(SUBSET mask)
    BY <1>1, FS_SUBSET
  <2>2. PiecesOf(mask) \in SUBSET SUBSET mask
    BY <1>3 DEF PiecesOf
  <2> QED
    BY <2>1, <2>2, FS_Subset
<1>6. \A P \in PiecesOf(mask) : P # {} /\ P \subseteq mask
  BY <1>3 DEF PiecesOf
<1>7. ASSUME NEW P \in PiecesOf(mask), NEW Q \in PiecesOf(mask), P \cap Q # {} PROVE P = Q
  <2>1. PICK p \in mask : P = JoinedTo(p, mask)
    BY DEF PiecesOf
  <2>2. PICK q \in mask : Q = JoinedTo(q, mask)
    BY DEF PiecesOf
  <2>3. PICK r : r \in P /\ r \in Q
    BY <1>7
  <2>4. JoinedTo(r, mask) = P
    BY <1>4, <2>1, <2>3
  <2>5. JoinedTo(r, mask) = Q
    BY <1>4, <2>2, <2>3
  <2> QED
    BY <2>4, <2>5
<1>8. \A p \in mask : \E P \in PiecesOf(mask) : p \in P
  BY <1>3 DEF PiecesOf
<1> QED
  BY <1>5, <1>6, <1>7, <1>8

(* The members of a finite set, each once.                                 *)
LEMMA ListedOnce ==
  ASSUME NEW S, IsFiniteSet(S)
  PROVE  LET f == SetToSeq(S)
             n == Cardinality(S)
         IN /\ n \in Nat /\ f \in [1 .. n -> S]
            /\ \A i, j \in 1 .. n : f[i] = f[j] => i = j
            /\ \A x \in S : \E i \in 1 .. n : f[i] = x
<1> DEFINE n == Cardinality(S)
           f == SetToSeq(S)
<1>1. n \in Nat /\ ExistsBijection(1 .. n, S)
  BY FS_CardinalityType
<1>2. \E g : g \in Bijection(1 .. n, S)
  BY <1>1 DEF ExistsBijection
<1>3. \E g \in [1 .. n -> S] : IsInjective(g)
  BY <1>2 DEF Bijection, Injection
<1>4. f \in [1 .. n -> S] /\ IsInjective(f)
  BY <1>3 DEF SetToSeq
<1> HIDE DEF f
<1>5. f \in Injection(1 .. n, S)
  BY <1>4 DEF Injection
<1>6. Cardinality(1 .. n) = n
  <2>1. Cardinality(1 .. n) = IF 1 > n THEN 0 ELSE n - 1 + 1
    BY <1>1, FS_Interval
  <2> QED
    BY <1>1, <2>1
<1>7. f \in Surjection(1 .. n, S)
  BY <1>5, <1>6, FS_Injection
<1>8. \A x \in S : \E i \in 1 .. n : f[i] = x
  BY <1>7 DEF Surjection
<1>9. \A i, j \in 1 .. n : f[i] = f[j] => i = j
  BY <1>4 DEF IsInjective
<1> QED
  BY <1>1, <1>4, <1>8, <1>9 DEF f

Ways(mask) == {G \in Groupings(PiecesOf(mask)) : Apart(G)}

(* Every piece is in a group of each way to group them, and groups share   *)
(* none.                                                                   *)
LEMMA WaysAreGroupings ==
  ASSUME NEW W \in Nat, NEW H \in Nat, NEW mask \in SUBSET Pixels(W, H), NEW G \in Ways(mask)
  PROVE  /\ Apart(G)
         /\ \A B \in G : B \subseteq Pixels(W, H) /\ B # {}
         /\ \A A, B \in G : A \cap B # {} => A = B
         /\ \A P \in PiecesOf(mask) : \E B \in G : P \subseteq B
<1> DEFINE pieces == PiecesOf(mask)
<1>1. /\ \A P \in pieces : P # {} /\ P \subseteq mask
      /\ \A P, Q \in pieces : P \cap Q # {} => P = Q
  BY PiecesPart
<1> HIDE DEF pieces
<1>2. PICK f \in [pieces -> pieces] : G = {UNION {q \in pieces : f[q] = f[p]} : p \in pieces}
  BY DEF Ways, Groupings, pieces
<1> DEFINE Of(p) == UNION {q \in pieces : f[q] = f[p]}
<1>3. Apart(G)
  BY DEF Ways
<1>4. \A p \in pieces : p \subseteq Of(p) /\ Of(p) \subseteq mask
  BY <1>1
<1>5. \A p, q \in pieces : Of(p) \cap Of(q) # {} => f[p] = f[q]
  <2> SUFFICES ASSUME NEW p \in pieces, NEW q \in pieces, NEW x, x \in Of(p), x \in Of(q)
               PROVE  f[p] = f[q]
    OBVIOUS
  <2>1. PICK P \in pieces : f[P] = f[p] /\ x \in P
    OBVIOUS
  <2>2. PICK Q \in pieces : f[Q] = f[q] /\ x \in Q
    OBVIOUS
  <2>3. P = Q
    BY <1>1, <2>1, <2>2
  <2> QED
    BY <2>1, <2>2, <2>3
<1>6. \A p, q \in pieces : f[p] = f[q] => Of(p) = Of(q)
  OBVIOUS
<1>7. G = {Of(p) : p \in pieces}
  BY <1>2
<1> HIDE DEF Of
<1>8. \A B \in G : B \subseteq Pixels(W, H) /\ B # {}
  BY <1>1, <1>4, <1>7
<1>9. \A A, B \in G : A \cap B # {} => A = B
  BY <1>5, <1>6, <1>7
<1>10. \A P \in pieces : \E B \in G : P \subseteq B
  BY <1>4, <1>7
<1> QED
  BY <1>3, <1>8, <1>9, <1>10 DEF pieces

(* Before any are merged, a piece stands behind each region.               *)
LEMMA ComponentsStand ==
  ASSUME NEW W \in Nat, NEW H \in Nat, NEW mask \in SUBSET Pixels(W, H)
  PROVE  /\ Components(mask) \in Seq(Region)
         /\ \E u : Stands(Components(mask), u, mask, PiecesOf(mask), Ways(mask))
<1> DEFINE pieces == PiecesOf(mask)
           u == SetToSeq(pieces)
           n == Cardinality(pieces)
           s == Components(mask)
<1>1. /\ IsFiniteSet(pieces)
      /\ \A P \in pieces : P # {} /\ P \subseteq mask
      /\ \A P, Q \in pieces : P \cap Q # {} => P = Q
      /\ \A p \in mask : \E P \in pieces : p \in P
  BY PiecesPart
<1> HIDE DEF pieces
<1>2. /\ n \in Nat /\ u \in [1 .. n -> pieces]
      /\ \A i, j \in 1 .. n : u[i] = u[j] => i = j
      /\ \A x \in pieces : \E i \in 1 .. n : u[i] = x
  BY <1>1, ListedOnce
<1>3. s = [i \in DOMAIN u |-> BoxOf(u[i])]
  BY DEF Components, PiecesOf, pieces
<1> HIDE DEF u, n, s
<1>4. s = [i \in 1 .. n |-> BoxOf(u[i])]
  BY <1>2, <1>3
<1>5. \A P \in pieces : BoxOf(P) \in Region
  <2>1. \A P \in pieces : P \in SUBSET Pixels(W, H) /\ P # {}
    BY <1>1
  <2> QED
    BY <2>1, BoxBounds DEF Bounds
<1>6. s \in Seq(Region) /\ Len(s) = n
  <2>1. s \in [1 .. n -> Region]
    BY <1>2, <1>4, <1>5
  <2> QED
    BY <1>2, <2>1
<1>7. Stands(s, u, mask, pieces, Ways(mask))
  <2> DEFINE N == 1 .. n
  <2>1. 1 .. Len(s) = N
    BY <1>6
  <2>2. u \in [N -> pieces] /\ \A i \in N : s[i] = BoxOf(u[i])
    BY <1>2, <1>4
  <2>3. /\ \A i, j \in N : u[i] = u[j] => i = j
        /\ \A x \in pieces : \E i \in N : u[i] = x
    BY <1>2
  <2> HIDE DEF N
  <2>4. u \in [N -> SUBSET mask] /\ \A i \in N : u[i] # {} /\ s[i] = BoxOf(u[i])
    BY <1>1, <2>2
  <2>5. \A i, j \in N : i # j => u[i] \cap u[j] = {}
    BY <1>1, <2>2, <2>3
  <2>6. \A p \in mask : \E i \in N : p \in u[i]
    BY <1>1, <2>3
  <2>7. \A P \in pieces, i \in N : P \cap u[i] # {} => P \subseteq u[i]
    BY <1>1, <2>2
  <2>8. \A G \in Ways(mask), i \in N : \E B \in G : u[i] \subseteq B
    BY <2>2, WaysAreGroupings DEF pieces
  <2> QED
    BY <2>1, <2>4, <2>5, <2>6, <2>7, <2>8, Zenon DEF Stands
<1> QED
  BY <1>6, <1>7 DEF s, pieces

(* The regions of a mask, one after another: each is the box of some of    *)
(* the pixels, and no two are near.                                        *)
ListRegions(s, mask) ==
  /\ s \in Seq(Region)
  /\ RegionsFor(mask) = {s[i] : i \in 1 .. Len(s)}
  /\ Spread(s, Len(s))
  /\ \A i \in 1 .. Len(s) : \E U \in SUBSET mask : U # {} /\ s[i] = BoxOf(U)

(* What is merged are the regions of the mask.                             *)
LEMMA MergedAreRegions ==
  ASSUME NEW W \in Nat, NEW H \in Nat, NEW mask \in SUBSET Pixels(W, H)
  PROVE  ListRegions(Merged[Components(mask)], mask)
<1> DEFINE pieces == PiecesOf(mask)
           ways == Ways(mask)
           M == Merged[Components(mask)]
           N == 1 .. Len(M)
<1>1. /\ \A P \in pieces : P # {} /\ P \subseteq mask
      /\ \A P, Q \in pieces : P \cap Q # {} => P = Q
      /\ \A p \in mask : \E P \in pieces : p \in P
  BY PiecesPart
<1>2. \A G \in ways : /\ Apart(G)
                      /\ \A B \in G : B \subseteq Pixels(W, H) /\ B # {}
                      /\ \A A, B \in G : A \cap B # {} => A = B
                      /\ \A P \in pieces : \E B \in G : P \subseteq B
  BY WaysAreGroupings
<1>3. Components(mask) \in Seq(Region) /\ \E u : Stands(Components(mask), u, mask, pieces, ways)
  BY ComponentsStand
<1> HIDE DEF pieces, ways
<1>4. /\ M \in Seq(Region) /\ Spread(M, Len(M))
      /\ \E v : Stands(M, v, mask, pieces, ways)
  BY <1>2, <1>3, MergedStands
<1>5. PICK v : Stands(M, v, mask, pieces, ways)
  BY <1>4
<1>6. /\ v \in [N -> SUBSET mask]
      /\ \A i \in N : v[i] # {} /\ M[i] = BoxOf(v[i])
      /\ \A i, j \in N : i # j => v[i] \cap v[j] = {}
      /\ \A p \in mask : \E i \in N : p \in v[i]
      /\ \A P \in pieces, i \in N : P \cap v[i] # {} => P \subseteq v[i]
      /\ \A G \in ways, i \in N : \E B \in G : v[i] \subseteq B
  BY <1>5 DEF Stands
<1>7. \A i, j \in N : i # j => ~Within(M[i], M[j], MergeDistance)
  BY <1>4 DEF Spread
<1> HIDE DEF M, N
<1> DEFINE U == {v[i] : i \in N}
           place(P) == CHOOSE i \in N : P \subseteq v[i]
           first(i) == CHOOSE P \in pieces : P \subseteq v[i]
           f == [P \in pieces |-> first(place(P))]
<1>8. \A P \in pieces : place(P) \in N /\ P \subseteq v[place(P)]
  <2>1. \A P \in pieces : \E i \in N : P \subseteq v[i]
    BY <1>1, <1>6
  <2> QED
    BY <2>1
<1>9. \A i \in N : first(i) \in pieces /\ first(i) \subseteq v[i]
  <2>1. \A i \in N : \E P \in pieces : P \subseteq v[i]
    BY <1>1, <1>6
  <2> QED
    BY <2>1
<1> HIDE DEF place, first
<1>10. f \in [pieces -> pieces]
  BY <1>8, <1>9
<1>11. \A P, Q \in pieces : f[P] = f[Q] <=> place(P) = place(Q)
  <2>1. \A i, j \in N : first(i) = first(j) => i = j
    BY <1>1, <1>6, <1>9
  <2> QED
    BY <1>8, <2>1
<1>12. \A P \in pieces : UNION {Q \in pieces : f[Q] = f[P]} = v[place(P)]
  <2> SUFFICES ASSUME NEW P \in pieces PROVE UNION {Q \in pieces : f[Q] = f[P]} = v[place(P)]
    OBVIOUS
  <2>1. {Q \in pieces : f[Q] = f[P]} = {Q \in pieces : place(Q) = place(P)}
    BY <1>11
  <2>2. \A Q \in pieces : place(Q) = place(P) => Q \subseteq v[place(P)]
    BY <1>8
  <2>3. ASSUME NEW x \in v[place(P)] PROVE \E Q \in pieces : place(Q) = place(P) /\ x \in Q
    <3>1. x \in mask
      BY <1>6, <1>8
    <3>2. PICK Q \in pieces : x \in Q
      BY <1>1, <3>1
    <3>3. x \in v[place(Q)]
      BY <1>8, <3>2
    <3>4. place(Q) = place(P)
      BY <1>6, <1>8, <3>3
    <3> QED
      BY <3>2, <3>4
  <2> QED
    BY <2>1, <2>2, <2>3
<1>13. U = {UNION {Q \in pieces : f[Q] = f[P]} : P \in pieces}
  <2>1. \A i \in N : place(first(i)) = i
    BY <1>1, <1>6, <1>8, <1>9
  <2>2. \A i \in N : \E P \in pieces : v[i] = v[place(P)]
    BY <1>9, <2>1
  <2>3. U = {v[place(P)] : P \in pieces}
    BY <1>8, <2>2
  <2>4. {v[place(P)] : P \in pieces} = {UNION {Q \in pieces : f[Q] = f[P]} : P \in pieces}
    <3> DEFINE Of(P) == UNION {Q \in pieces : f[Q] = f[P]}
    <3>1. \A P \in pieces : Of(P) = v[place(P)]
      BY <1>12
    <3> HIDE DEF Of
    <3>2. {v[place(P)] : P \in pieces} = {Of(P) : P \in pieces}
      BY <3>1
    <3> QED
      BY <3>2 DEF Of
  <2> QED
    BY <2>3, <2>4
<1>14. U \in ways
  <2>1. U \in Groupings(pieces)
    <3> HIDE DEF U, f
    <3> QED
      BY <1>10, <1>13 DEF Groupings
  <2>2. Apart(U)
    <3>1. SUFFICES ASSUME NEW A \in U, NEW B \in U, A # B
                   PROVE  ~Within(BoxOf(A), BoxOf(B), MergeDistance)
      BY DEF Apart
    <3>2. PICK i \in N : A = v[i]
      OBVIOUS
    <3>3. PICK j \in N : B = v[j]
      OBVIOUS
    <3>4. i # j /\ BoxOf(A) = M[i] /\ BoxOf(B) = M[j]
      BY <1>6, <3>1, <3>2, <3>3
    <3> QED
      BY <1>7, <3>4
  <2> QED
    BY <2>1, <2>2 DEF Ways, ways, pieces
<1> DEFINE Finest(G) == \A Y \in ways : \A A \in G : \E B \in Y : A \subseteq B
<1>15. Finest(U)
  BY <1>6
<1>16. ASSUME NEW G \in ways, Finest(G) PROVE G = U
  <2>1. \A A \in G : \E B \in U : A \subseteq B
    BY <1>14, <1>16
  <2>2. \A A \in U : \E B \in G : A \subseteq B
    BY <1>15
  <2>3. /\ \A A \in G : A # {}
        /\ \A A, B \in G : A \cap B # {} => A = B
    BY <1>2
  <2>4. /\ \A A \in U : A # {}
        /\ \A A, B \in U : A \cap B # {} => A = B
    BY <1>2, <1>14
  <2> HIDE DEF U, Finest
  <2>5. \A A \in G : A \in U
    <3> SUFFICES ASSUME NEW A \in G PROVE A \in U
      OBVIOUS
    <3>1. PICK B \in U : A \subseteq B
      BY <2>1
    <3>2. PICK C \in G : B \subseteq C
      BY <2>2
    <3>3. A = C
      BY <2>3, <3>1, <3>2
    <3>4. A = B
      BY <3>1, <3>2, <3>3
    <3> QED
      BY <3>4
  <2>6. \A A \in U : A \in G
    <3> SUFFICES ASSUME NEW A \in U PROVE A \in G
      OBVIOUS
    <3>1. PICK B \in G : A \subseteq B
      BY <2>2
    <3>2. PICK C \in U : B \subseteq C
      BY <2>1
    <3>3. A = C
      BY <2>4, <3>1, <3>2
    <3>4. A = B
      BY <3>1, <3>2, <3>3
    <3> QED
      BY <3>4
  <2> QED
    BY <2>5, <2>6
<1>17. RegionsFor(mask) = {BoxOf(A) : A \in CHOOSE G \in ways : Finest(G)}
  BY DEF RegionsFor, ways, Ways, PiecesOf
<1>18. (CHOOSE G \in ways : Finest(G)) = U
  <2> DEFINE G == CHOOSE Y \in ways : Finest(Y)
  <2>1. G \in ways /\ Finest(G)
    <3> HIDE DEF Finest, U
    <3> QED
      BY <1>14, <1>15
  <2> HIDE DEF G
  <2>2. G = U
    <3> HIDE DEF Finest, U
    <3> QED
      BY <1>16, <2>1
  <2> QED
    BY <2>2 DEF G
<1>19. RegionsFor(mask) = {M[i] : i \in N}
  <2>1. RegionsFor(mask) = {BoxOf(A) : A \in U}
    <3> HIDE DEF Finest, U
    <3> QED
      BY <1>17, <1>18
  <2>2. {BoxOf(A) : A \in U} = {BoxOf(v[i]) : i \in N}
    OBVIOUS
  <2>3. {BoxOf(v[i]) : i \in N} = {M[i] : i \in N}
    BY <1>6
  <2> QED
    BY <2>1, <2>2, <2>3
<1>20. \A i \in N : v[i] \in SUBSET mask
  BY <1>6
<1>21. \A i \in N : \E X \in SUBSET mask : X # {} /\ M[i] = BoxOf(X)
  BY <1>6, <1>20
<1>22. Spread(M, Len(M))
  BY <1>4, <1>6
<1> QED
  BY <1>4, <1>19, <1>21, <1>22 DEF ListRegions, M, N

-----------------------------------------------------------------------------
(* Putting in order.                                                       *)

(* What is paired off one to one is as many.                               *)
LEMMA PairedOff ==
  ASSUME NEW S, IsFiniteSet(S), NEW T, NEW f \in [S -> T],
         \A x, y \in S : x # y => f[x] # f[y],
         \A z \in T : \E x \in S : f[x] = z
  PROVE  IsFiniteSet(T) /\ Cardinality(T) = Cardinality(S)
<1>1. f \in Bijection(S, T)
  BY DEF Bijection, Injection, Surjection, IsInjective
<1>2. ExistsBijection(S, T)
  BY <1>1 DEF ExistsBijection
<1> QED
  BY <1>2, FS_Bijection

(* As many as the numbers up to n.                                         *)
LEMMA UpTo ==
  ASSUME NEW n \in Nat
  PROVE  /\ IsFiniteSet(1 .. n) /\ Cardinality(1 .. n) = n
         /\ IsFiniteSet(0 .. n - 1) /\ Cardinality(0 .. n - 1) = n
<1>1. /\ IsFiniteSet(1 .. n) /\ Cardinality(1 .. n) = IF 1 > n THEN 0 ELSE n - 1 + 1
  BY FS_Interval
<1>2. /\ IsFiniteSet(0 .. n - 1)
      /\ Cardinality(0 .. n - 1) = IF 0 > n - 1 THEN 0 ELSE (n - 1) - 0 + 1
  BY FS_Interval
<1> QED
  BY <1>1, <1>2

(* A strict order of a set, in which of any two one is before the other.   *)
Orders(before, S) ==
  /\ \A x \in S : <<x, x>> \notin before
  /\ \A x, y, z \in S : <<x, y>> \in before /\ <<y, z>> \in before => <<x, z>> \in before
  /\ \A x, y \in S : x # y => <<x, y>> \in before \/ <<y, x>> \in before

(* The listing of a finite set has each of its members once, those before  *)
(* others first.                                                           *)
LEMMA ListingIsInOrder ==
  ASSUME NEW S, IsFiniteSet(S), NEW before, Orders(before, S)
  PROVE  LET n == Cardinality(S)
             L == Listing(S, before)
         IN /\ n \in Nat /\ L \in [1 .. n -> S]
            /\ \A i, j \in 1 .. n : i < j => <<L[i], L[j]>> \in before
            /\ \A i, j \in 1 .. n : i # j => L[i] # L[j]
            /\ \A x \in S : \E i \in 1 .. n : L[i] = x
<1> DEFINE n == Cardinality(S)
           L == Listing(S, before)
           Ahead(x) == {y \in S : <<y, x>> \in before}
           rank == [x \in S |-> Cardinality(Ahead(x))]
<1>1. n \in Nat
  BY FS_CardinalityType
<1>2. \A x \in S : IsFiniteSet(Ahead(x)) /\ Cardinality(Ahead(x)) \in Nat
  <2> SUFFICES ASSUME NEW x \in S
               PROVE  IsFiniteSet(Ahead(x)) /\ Cardinality(Ahead(x)) \in Nat
    OBVIOUS
  <2>1. Ahead(x) \in SUBSET S
    OBVIOUS
  <2> HIDE DEF Ahead
  <2> QED
    BY <2>1, FS_Subset, FS_CardinalityType
<1>3. \A x \in S : rank[x] \in 0 .. n - 1
  <2> SUFFICES ASSUME NEW x \in S PROVE rank[x] \in 0 .. n - 1
    OBVIOUS
  <2>1. Ahead(x) \in SUBSET (S \ {x})
    BY DEF Orders
  <2>2. IsFiniteSet(S \ {x}) /\ Cardinality(S \ {x}) = n - 1
    BY FS_RemoveElement
  <2>3. rank[x] = Cardinality(Ahead(x))
    OBVIOUS
  <2> HIDE DEF Ahead, n, rank
  <2>4. Cardinality(Ahead(x)) <= n - 1
    BY <2>1, <2>2, FS_Subset
  <2> QED
    BY <1>1, <1>2, <2>3, <2>4
<1>4. ASSUME NEW x \in S, NEW y \in S, <<x, y>> \in before
      PROVE  rank[x] < rank[y]
  <2>1. Ahead(x) \in SUBSET (Ahead(y) \ {x}) /\ x \in Ahead(y)
    BY <1>4 DEF Orders
  <2>2. rank[x] = Cardinality(Ahead(x)) /\ rank[y] = Cardinality(Ahead(y))
    OBVIOUS
  <2> HIDE DEF Ahead, rank
  <2>3. /\ IsFiniteSet(Ahead(y) \ {x})
        /\ Cardinality(Ahead(y) \ {x}) = Cardinality(Ahead(y)) - 1
    BY <1>2, <2>1, FS_RemoveElement
  <2>4. Cardinality(Ahead(x)) <= Cardinality(Ahead(y) \ {x})
    BY <2>1, <2>3, FS_Subset
  <2> QED
    BY <1>2, <2>2, <2>3, <2>4
<1> HIDE DEF L
<1>5. /\ L = [i \in 1 .. n |-> CHOOSE x \in S : Cardinality(Ahead(x)) = i - 1]
      /\ \A x \in S : rank[x] = Cardinality(Ahead(x))
  BY DEF L, Listing
<1> HIDE DEF n, rank, Ahead
<1>6. rank \in [S -> 0 .. n - 1]
  BY <1>3 DEF rank
<1>7. ASSUME NEW x \in S, NEW y \in S, rank[x] = rank[y]
      PROVE  x = y
  <2>1. ~(rank[x] < rank[y]) /\ ~(rank[y] < rank[x])
    BY <1>1, <1>3, <1>7
  <2>2. <<x, y>> \notin before /\ <<y, x>> \notin before
    BY <1>4, <2>1
  <2> QED
    BY <2>2 DEF Orders
<1>8. \A k \in 0 .. n - 1 : \E x \in S : rank[x] = k
  <2>1. rank \in Injection(S, 0 .. n - 1)
    BY <1>6, <1>7 DEF Injection, IsInjective
  <2>2. IsFiniteSet(0 .. n - 1) /\ Cardinality(0 .. n - 1) = Cardinality(S)
    BY <1>1, UpTo DEF n
  <2>3. rank \in Surjection(S, 0 .. n - 1)
    BY <2>1, <2>2, FS_Injection
  <2> QED
    BY <2>3 DEF Surjection
<1>9. \A i \in 1 .. n : L[i] \in S /\ rank[L[i]] = i - 1
  <2> SUFFICES ASSUME NEW i \in 1 .. n PROVE L[i] \in S /\ rank[L[i]] = i - 1
    OBVIOUS
  <2>1. i - 1 \in 0 .. n - 1
    BY <1>1
  <2>2. \E x \in S : Cardinality(Ahead(x)) = i - 1
    BY <1>5, <1>8, <2>1
  <2>3. L[i] = CHOOSE x \in S : Cardinality(Ahead(x)) = i - 1
    BY <1>5
  <2>4. L[i] \in S /\ Cardinality(Ahead(L[i])) = i - 1
    BY <2>2, <2>3
  <2> QED
    BY <1>5, <2>4
<1>10. L \in [1 .. n -> S]
  BY <1>5, <1>9
<1>11. ASSUME NEW i \in 1 .. n, NEW j \in 1 .. n, i < j
       PROVE  <<L[i], L[j]>> \in before
  <2>1. L[i] \in S /\ L[j] \in S /\ rank[L[i]] = i - 1 /\ rank[L[j]] = j - 1
    BY <1>9
  <2>2. rank[L[i]] < rank[L[j]]
    BY <1>1, <1>11, <2>1
  <2>3. ~(rank[L[j]] < rank[L[i]]) /\ L[i] # L[j]
    BY <1>1, <1>11, <2>1
  <2>4. <<L[j], L[i]>> \notin before
    BY <1>4, <2>1, <2>3
  <2> QED
    BY <2>1, <2>3, <2>4 DEF Orders
<1>12. \A i, j \in 1 .. n : i # j => L[i] # L[j]
  BY <1>1, <1>9
<1>13. \A x \in S : \E i \in 1 .. n : L[i] = x
  <2> SUFFICES ASSUME NEW x \in S PROVE \E i \in 1 .. n : L[i] = x
    OBVIOUS
  <2>1. rank[x] \in 0 .. n - 1 /\ rank[x] + 1 \in 1 .. n
    BY <1>1, <1>3
  <2>2. L[rank[x] + 1] \in S /\ rank[L[rank[x] + 1]] = rank[x]
    <3>1. \A k \in 0 .. n - 1 : (k + 1) - 1 = k
      BY <1>1
    <3> QED
      BY <1>9, <2>1, <3>1
  <2>3. L[rank[x] + 1] = x
    BY <1>7, <2>2
  <2> QED
    BY <2>1, <2>3
<1> QED
  BY <1>1, <1>10, <1>11, <1>12, <1>13 DEF n, L

(* One sequence has what another has in some places, one after another.    *)
Picked(t, s, places) ==
  /\ t \in Seq(Region)
  /\ \E o \in [1 .. Len(t) -> places] :
       /\ \A i \in 1 .. Len(t) : t[i] = s[o[i]]
       /\ \A i, j \in 1 .. Len(t) : i < j => o[i] < o[j]
       /\ \A p \in places : \E i \in 1 .. Len(t) : o[i] = p

(* What is found in some places is had in their order.                     *)
LEMMA PlacesInOrder ==
  ASSUME NEW s \in Seq(Region), NEW places \in SUBSET (1 .. Len(s))
  PROVE  /\ Picked(InPlaces(s, places), s, places)
         /\ Len(InPlaces(s, places)) = Cardinality(places)
<1> DEFINE t == InPlaces(s, places)
           before == {b \in places \X places : b[1] < b[2]}
           o == Listing(places, before)
           n == Cardinality(places)
<1>1. IsFiniteSet(places) /\ places \subseteq Nat
  <2>1. Len(s) \in Nat
    OBVIOUS
  <2>2. IsFiniteSet(1 .. Len(s))
    BY <2>1, UpTo
  <2>3. IsFiniteSet(places)
    BY <2>2, FS_Subset
  <2>4. \A p \in places : p \in Nat
    BY <2>1
  <2> QED
    BY <2>3, <2>4
<1>2. \A x, y \in places : <<x, y>> \in before <=> x < y
  OBVIOUS
<1>3. Orders(before, places)
  <2> HIDE DEF before
  <2>1. \A x \in places : <<x, x>> \notin before
    BY <1>1, <1>2
  <2>2. \A x, y, z \in places : <<x, y>> \in before /\ <<y, z>> \in before => <<x, z>> \in before
    BY <1>1, <1>2
  <2>3. \A x, y \in places : x # y => <<x, y>> \in before \/ <<y, x>> \in before
    BY <1>1, <1>2
  <2> QED
    BY <2>1, <2>2, <2>3 DEF Orders
<1>4. t = [i \in DOMAIN o |-> s[o[i]]]
  BY DEF InPlaces
<1> HIDE DEF o, before, n, t
<1>5. /\ n \in Nat /\ o \in [1 .. n -> places]
      /\ \A i, j \in 1 .. n : i < j => <<o[i], o[j]>> \in before
      /\ \A x \in places : \E i \in 1 .. n : o[i] = x
  BY <1>1, <1>3, ListingIsInOrder DEF o, n
<1>6. \A i \in 1 .. n : o[i] \in places /\ s[o[i]] \in Region
  <2>1. \A i \in 1 .. n : o[i] \in places /\ o[i] \in 1 .. Len(s)
    BY <1>5
  <2>2. \A k \in 1 .. Len(s) : s[k] \in Region
    OBVIOUS
  <2> QED
    BY <2>1, <2>2
<1>7. t = [i \in 1 .. n |-> s[o[i]]]
  BY <1>4, <1>5
<1>8. t \in [1 .. n -> Region]
  BY <1>6, <1>7
<1>9. t \in Seq(Region) /\ Len(t) = n
  BY <1>5, <1>8
<1>10. \A i, j \in 1 .. n : i < j => o[i] < o[j]
  BY <1>2, <1>5
<1>11. \A i \in 1 .. n : t[i] = s[o[i]]
  BY <1>7
<1>12. /\ o \in [1 .. Len(t) -> places]
       /\ \A i \in 1 .. Len(t) : t[i] = s[o[i]]
       /\ \A i, j \in 1 .. Len(t) : i < j => o[i] < o[j]
       /\ \A p \in places : \E i \in 1 .. Len(t) : o[i] = p
  BY <1>5, <1>9, <1>10, <1>11
<1>13. Picked(t, s, places)
  BY <1>9, <1>12 DEF Picked
<1> QED
  BY <1>9, <1>13 DEF n, t

(* By size first; then by where they are.                                  *)
LEMMA ReportingIsAnOrder ==
  ASSUME NEW a \in Region, NEW b \in Region, NEW c \in Region
  PROVE  /\ Area(a) \in Nat
         /\ ~ReportedBefore(a, a)
         /\ ReportedBefore(a, b) => ~ReportedBefore(b, a)
         /\ ~ReportedBefore(b, a) => Area(a) >= Area(b)
         /\ ReportedBefore(a, b) /\ ~ReportedBefore(c, b) => ReportedBefore(a, c)
         /\ ~ReportedBefore(b, a) /\ ReportedBefore(b, c) => ReportedBefore(a, c)
         /\ ~ReportedBefore(b, a) /\ ~ReportedBefore(c, b) => ~ReportedBefore(c, a)
<1>1. /\ a.x \in Nat /\ a.y \in Nat /\ Area(a) \in Nat
      /\ b.x \in Nat /\ b.y \in Nat /\ Area(b) \in Nat
      /\ c.x \in Nat /\ c.y \in Nat /\ Area(c) \in Nat
  BY DEF Region, Area
<1> QED
  BY <1>1 DEF ReportedBefore

(* The same regions, each as often, and larger ones first.                 *)
Arranged(t, s) ==
  /\ t \in Seq(Region) /\ Len(t) = Len(s)
  /\ \E o \in [1 .. Len(s) -> 1 .. Len(s)] :
       /\ \A i \in 1 .. Len(s) : t[i] = s[o[i]]
       /\ \A i, j \in 1 .. Len(s) : i # j => o[i] # o[j]
       /\ \A k \in 1 .. Len(s) : \E i \in 1 .. Len(s) : o[i] = k
  /\ \A i, j \in 1 .. Len(s) : i < j => Area(t[i]) >= Area(t[j])

(* Reporting puts regions in that order.                                   *)
LEMMA ReportedInOrder ==
  ASSUME NEW s \in Seq(Region)
  PROVE  Arranged(Reported(s), s)
<1> DEFINE t == Reported(s)
           n == Len(s)
           N == 1 .. n
           places == DOMAIN s
           before == {b \in places \X places :
                        \/ ReportedBefore(s[b[1]], s[b[2]])
                        \/ ~ReportedBefore(s[b[2]], s[b[1]]) /\ b[1] < b[2]}
           o == Listing(places, before)
<1>1. n \in Nat /\ places = N /\ \A i \in N : s[i] \in Region
  OBVIOUS
<1>2. IsFiniteSet(places) /\ Cardinality(places) = n
  BY <1>1, UpTo
<1>3. \A x, y \in places : <<x, y>> \in before <=>
        \/ ReportedBefore(s[x], s[y])
        \/ ~ReportedBefore(s[y], s[x]) /\ x < y
  OBVIOUS
<1>4. t = [i \in places |-> s[o[i]]]
  BY DEF Reported
<1> HIDE DEF o, before, places, t, n
<1>5. Orders(before, places)
  <2>1. ASSUME NEW x \in places PROVE <<x, x>> \notin before
    BY <1>1, <1>3, ReportingIsAnOrder
  <2>2. ASSUME NEW x \in places, NEW y \in places, NEW z \in places,
               <<x, y>> \in before, <<y, z>> \in before
        PROVE  <<x, z>> \in before
    <3> DEFINE a == s[x]
               b == s[y]
               c == s[z]
    <3>1. a \in Region /\ b \in Region /\ c \in Region /\ x \in Nat /\ y \in Nat /\ z \in Nat
      BY <1>1
    <3>2. /\ ReportedBefore(a, b) \/ (~ReportedBefore(b, a) /\ x < y)
          /\ ReportedBefore(b, c) \/ (~ReportedBefore(c, b) /\ y < z)
      BY <1>3, <2>2
    <3>3. <<x, z>> \in before <=> ReportedBefore(a, c) \/ (~ReportedBefore(c, a) /\ x < z)
      BY <1>3
    <3> HIDE DEF a, b, c
    <3>4. /\ ReportedBefore(a, b) => ~ReportedBefore(b, a)
          /\ ReportedBefore(b, c) => ~ReportedBefore(c, b)
          /\ ReportedBefore(a, b) /\ ~ReportedBefore(c, b) => ReportedBefore(a, c)
          /\ ~ReportedBefore(b, a) /\ ReportedBefore(b, c) => ReportedBefore(a, c)
          /\ ~ReportedBefore(b, a) /\ ~ReportedBefore(c, b) => ~ReportedBefore(c, a)
      BY <3>1, ReportingIsAnOrder
    <3>5. x < y /\ y < z => x < z
      BY <3>1
    <3> QED
      BY <3>2, <3>3, <3>4, <3>5
  <2>3. ASSUME NEW x \in places, NEW y \in places, x # y
        PROVE  <<x, y>> \in before \/ <<y, x>> \in before
    <3>1. x \in Nat /\ y \in Nat
      BY <1>1
    <3>2. x < y \/ y < x
      BY <2>3, <3>1
    <3> QED
      BY <1>3, <3>2
  <2> QED
    BY <2>1, <2>2, <2>3 DEF Orders
<1>6. /\ o \in [1 .. n -> places]
      /\ \A i, j \in 1 .. n : i < j => <<o[i], o[j]>> \in before
      /\ \A i, j \in 1 .. n : i # j => o[i] # o[j]
      /\ \A x \in places : \E i \in 1 .. n : o[i] = x
  BY <1>2, <1>5, ListingIsInOrder DEF o
<1>7. t \in [N -> Region] /\ \A i \in N : t[i] = s[o[i]]
  BY <1>1, <1>4, <1>6
<1>8. t \in Seq(Region) /\ Len(t) = n
  BY <1>1, <1>7
<1>9. ASSUME NEW i \in N, NEW j \in N, i < j
      PROVE  Area(t[i]) >= Area(t[j])
  <2>1. o[i] \in places /\ o[j] \in places /\ <<o[i], o[j]>> \in before
    BY <1>6, <1>9
  <2>2. ReportedBefore(t[i], t[j]) \/ ~ReportedBefore(t[j], t[i])
    BY <1>3, <1>7, <2>1
  <2>3. t[i] \in Region /\ t[j] \in Region
    BY <1>7
  <2> QED
    BY <2>2, <2>3, ReportingIsAnOrder
<1>10. /\ o \in [1 .. n -> 1 .. n]
       /\ \A i \in 1 .. n : t[i] = s[o[i]]
       /\ \A i, j \in 1 .. n : i # j => o[i] # o[j]
       /\ \A k \in 1 .. n : \E i \in 1 .. n : o[i] = k
  BY <1>1, <1>6, <1>7
<1> QED
  BY <1>8, <1>9, <1>10 DEF Arranged, t, n

-----------------------------------------------------------------------------
(* The regions that are reported.                                          *)

(* The regions of a mask but for those too small, each of them once and    *)
(* the largest first.                                                      *)
Extracted(s, mask) ==
  /\ s \in Seq(Region)
  /\ {g \in RegionsFor(mask) : SurvivesSizeFilter(g)} = {s[i] : i \in 1 .. Len(s)}
  /\ \A i, j \in 1 .. Len(s) : i # j => s[i] # s[j]
  /\ \A i, j \in 1 .. Len(s) : i < j => Area(s[i]) >= Area(s[j])
  /\ \A i \in 1 .. Len(s) : \E U \in SUBSET mask : U # {} /\ s[i] = BoxOf(U)

(* They are what is extracted of the mask.                                 *)
LEMMA ExtractedAreRegions ==
  ASSUME NEW W \in Nat, NEW H \in Nat, NEW mask \in SUBSET Pixels(W, H)
  PROVE  Extracted(ExtractRegions(mask), mask)
<1> DEFINE M == Merged[Components(mask)]
           places == Surviving(M)
           K == InPlaces(M, places)
           E == ExtractRegions(mask)
           n == Len(K)
<1>1. ListRegions(M, mask)
  BY MergedAreRegions
<1>2. E = Reported(K)
  BY DEF ExtractRegions
<1> HIDE DEF M, E
<1>3. /\ M \in Seq(Region) /\ DOMAIN M = 1 .. Len(M) /\ Len(M) \in Nat
      /\ \A i \in 1 .. Len(M) : M[i] \in Region
  BY <1>1 DEF ListRegions
<1>4. places = {i \in 1 .. Len(M) : SurvivesSizeFilter(M[i])}
  BY <1>3 DEF Surviving
<1> HIDE DEF places
<1>5. Picked(K, M, places)
  <2>1. places \in SUBSET (1 .. Len(M))
    BY <1>4
  <2> QED
    BY <1>3, <2>1, PlacesInOrder
<1> HIDE DEF K
<1>6. n \in Nat /\ K \in Seq(Region)
  BY <1>5 DEF Picked
<1>7. PICK o \in [1 .. n -> places] :
        /\ \A i \in 1 .. n : K[i] = M[o[i]]
        /\ \A i, j \in 1 .. n : i < j => o[i] < o[j]
        /\ \A p \in places : \E i \in 1 .. n : o[i] = p
  BY <1>5 DEF Picked
<1>8. Arranged(E, K)
  BY <1>2, <1>6, ReportedInOrder
<1>9. PICK r \in [1 .. n -> 1 .. n] :
        /\ \A i \in 1 .. n : E[i] = K[r[i]]
        /\ \A i, j \in 1 .. n : i # j => r[i] # r[j]
        /\ \A k \in 1 .. n : \E i \in 1 .. n : r[i] = k
  BY <1>8 DEF Arranged
<1> DEFINE N == 1 .. n
           at == [i \in N |-> o[r[i]]]
<1>10. /\ \A i, j \in N : i # j => o[i] # o[j]
       /\ \A i \in N : o[i] \in 1 .. Len(M)
  <2>1. \A i \in N : o[i] \in 1 .. Len(M)
    BY <1>4, <1>7
  <2>2. ASSUME NEW i \in N, NEW j \in N, i # j PROVE o[i] # o[j]
    <3>1. i < j \/ j < i
      BY <1>6, <2>2
    <3>2. o[i] < o[j] \/ o[j] < o[i]
      BY <1>7, <3>1
    <3>3. o[i] \in Nat /\ o[j] \in Nat
      BY <1>3, <2>1
    <3> QED
      BY <3>2, <3>3
  <2> QED
    BY <2>1, <2>2
<1>11. /\ \A i \in N : at[i] \in places /\ at[i] \in 1 .. Len(M) /\ E[i] = M[at[i]]
       /\ \A i, j \in N : i # j => at[i] # at[j]
       /\ \A p \in places : \E i \in N : at[i] = p
  <2>1. \A i \in N : r[i] \in N /\ at[i] = o[r[i]]
    BY <1>9
  <2>2. \A i \in N : o[i] \in places
    BY <1>7
  <2> HIDE DEF at, N
  <2>3. \A i \in N : at[i] \in places /\ at[i] \in 1 .. Len(M) /\ E[i] = M[at[i]]
    <3> SUFFICES ASSUME NEW i \in N
                 PROVE  at[i] \in places /\ at[i] \in 1 .. Len(M) /\ E[i] = M[at[i]]
      OBVIOUS
    <3>1. r[i] \in N /\ at[i] = o[r[i]]
      BY <2>1
    <3>2. at[i] \in places /\ at[i] \in 1 .. Len(M)
      BY <1>10, <2>2, <3>1
    <3>3. E[i] = K[r[i]] /\ K[r[i]] = M[o[r[i]]]
      BY <1>7, <1>9, <3>1 DEF N
    <3> QED
      BY <3>1, <3>2, <3>3
  <2>4. \A i, j \in N : i # j => at[i] # at[j]
    BY <1>9, <1>10, <2>1 DEF N
  <2>5. \A p \in places : \E i \in N : at[i] = p
    <3> SUFFICES ASSUME NEW p \in places PROVE \E i \in N : at[i] = p
      OBVIOUS
    <3>1. PICK k \in N : o[k] = p
      BY <1>7 DEF N
    <3>2. PICK i \in N : r[i] = k
      BY <1>9 DEF N
    <3> QED
      BY <2>1, <3>1, <3>2
  <2> QED
    BY <2>3, <2>4, <2>5
<1> HIDE DEF at
<1>12. ASSUME NEW i \in N, NEW j \in N, i # j PROVE E[i] # E[j]
  <2>1. ~Within(M[at[i]], M[at[j]], MergeDistance)
    BY <1>1, <1>11, <1>12 DEF ListRegions, Spread
  <2>2. M[at[i]] \in Region /\ M[at[j]] \in Region
    BY <1>3, <1>11
  <2>3. M[at[i]] # M[at[j]]
    BY <2>1, <2>2, NearWhereItIs
  <2> QED
    BY <1>11, <2>3
<1>13. {g \in RegionsFor(mask) : SurvivesSizeFilter(g)} = {E[i] : i \in N}
  <2> HIDE DEF N
  <2>1. {g \in RegionsFor(mask) : SurvivesSizeFilter(g)} = {M[p] : p \in places}
    BY <1>1, <1>4 DEF ListRegions
  <2>2. {M[p] : p \in places} = {E[i] : i \in N}
    BY <1>11
  <2> QED
    BY <2>1, <2>2
<1>14. \A i \in N : \E U \in SUBSET mask : U # {} /\ E[i] = BoxOf(U)
  <2>1. \A k \in 1 .. Len(M) : \E U \in SUBSET mask : U # {} /\ M[k] = BoxOf(U)
    BY <1>1 DEF ListRegions
  <2> SUFFICES ASSUME NEW i \in N
               PROVE  \E U \in SUBSET mask : U # {} /\ E[i] = BoxOf(U)
    OBVIOUS
  <2>2. at[i] \in 1 .. Len(M) /\ E[i] = M[at[i]]
    BY <1>11
  <2> QED
    BY <2>1, <2>2
<1>15. /\ E \in Seq(Region) /\ Len(E) = n
       /\ \A i, j \in N : i < j => Area(E[i]) >= Area(E[j])
  BY <1>8 DEF Arranged
<1> QED
  BY <1>12, <1>13, <1>14, <1>15 DEF Extracted, E

(* A crop of a region shows some of the picture.                           *)
LEMMA NoCropIsEmpty ==
  ASSUME NEW W \in Nat, NEW H \in Nat, NEW U \in SUBSET Pixels(W, H), U # {}
  PROVE  PaddedRectangle(BoxOf(U), W, H) # {}
<1> DEFINE b == BoxOf(U)
<1>1. /\ b.x \in Nat /\ b.y \in Nat /\ b.width \in Nat /\ b.height \in Nat
      /\ b.width >= 1 /\ b.height >= 1 /\ b.x + b.width <= W /\ b.y + b.height <= H
  BY BoxBounds DEF Bounds, Region
<1>2. CropPadding \in Nat
  BY PicturesAssumption
<1> HIDE DEF b
<1> DEFINE left == Larger(0, b.x - CropPadding)
           top == Larger(0, b.y - CropPadding)
           width == Smaller(W, b.x + b.width + CropPadding) - left
           height == Smaller(H, b.y + b.height + CropPadding) - top
           c == [x |-> left, y |-> top, width |-> width, height |-> height]
<1>3. width > 0 /\ height > 0
  BY <1>1, <1>2 DEF Larger, Smaller
<1>4. PaddedRectangle(b, W, H) = {d \in {c} : d.width > 0 /\ d.height > 0}
  BY DEF PaddedRectangle
<1>5. c.width = width /\ c.height = height
  OBVIOUS
<1> HIDE DEF width, height, c
<1> QED
  BY <1>3, <1>4, <1>5 DEF b

(* A crop is made of each region that is kept: none of them is out of      *)
(* sight.                                                                  *)
LEMMA AllAreShown ==
  ASSUME NEW earlier, NEW current, NEW height \in Nat, current.width \in Nat
  PROVE  LET mask == Mask(earlier, current, height)
             kept == Cut(ExtractRegions(mask), MaximumRegions)
         IN \A n \in DOMAIN kept : PaddedRectangle(kept[n], current.width, height) # {}
<1> DEFINE mask == Mask(earlier, current, height)
           all == ExtractRegions(mask)
           kept == Cut(all, MaximumRegions)
<1>1. mask \in SUBSET Pixels(current.width, height)
  BY DEF Mask
<1> HIDE DEF mask
<1>2. Extracted(all, mask)
  BY <1>1, ExtractedAreRegions
<1> HIDE DEF all
<1>3. /\ Len(all) \in Nat
      /\ \A i \in 1 .. Len(all) : \E U \in SUBSET mask : U # {} /\ all[i] = BoxOf(U)
  BY <1>2 DEF Extracted
<1>4. \A n \in DOMAIN kept : n \in 1 .. Len(all) /\ kept[n] = all[n]
  BY <1>2, <1>3, PicturesAssumption DEF Extracted, Cut, Smaller
<1> HIDE DEF kept
<1> SUFFICES ASSUME NEW n \in DOMAIN kept
             PROVE  PaddedRectangle(kept[n], current.width, height) # {}
  BY DEF kept, all, mask
<1>5. PICK U \in SUBSET mask : U # {} /\ kept[n] = BoxOf(U)
  BY <1>3, <1>4
<1>6. U \in SUBSET Pixels(current.width, height)
  BY <1>1
<1> QED
  BY <1>5, <1>6, NoCropIsEmpty

(* What is told of two pictures is so.                                     *)
LEMMA ComparedIsRight ==
  ASSUME NEW earlier, NEW current, NEW height \in Nat, current.width \in Nat,
         height = Smaller(earlier.height, current.height)
  PROVE  FiguresAreRight(earlier, current, Compared(earlier, current, height))
<1> DEFINE mask == Mask(earlier, current, height)
           all == ExtractRegions(mask)
           kept == Cut(all, MaximumRegions)
           shown == {n \in DOMAIN kept : PaddedRectangle(kept[n], current.width, height) # {}}
           R == InPlaces(kept, shown)
           m == Smaller(MaximumRegions, Len(all))
           figures == Compared(earlier, current, height)
           want == {g \in RegionsFor(mask) : SurvivesSizeFilter(g)}
<1>1. /\ figures.changedPixels = Cardinality(mask)
      /\ figures.regions = R
      /\ figures.truncated <=> Len(all) > MaximumRegions
  BY DEF Compared
<1>2. shown = DOMAIN kept
  BY AllAreShown
<1>3. mask \in SUBSET Pixels(current.width, height)
  BY DEF Mask
<1> HIDE DEF mask, figures, shown
<1>4. Extracted(all, mask)
  BY <1>3, ExtractedAreRegions
<1> HIDE DEF all
<1>5. all \in Seq(Region) /\ Len(all) \in Nat
  BY <1>4 DEF Extracted
<1>6. m \in Nat /\ m <= Len(all) /\ m <= MaximumRegions /\ (m = MaximumRegions \/ m = Len(all))
  BY <1>5, PicturesAssumption DEF Smaller
<1>7. kept \in Seq(Region) /\ Len(kept) = m /\ \A i \in 1 .. m : kept[i] = all[i]
  <2>1. kept = SubSeq(all, 1, m)
    BY DEF Cut
  <2> HIDE DEF kept, m
  <2> QED
    BY <1>5, <1>6, <2>1
<1> HIDE DEF kept
<1>8. shown = 1 .. m
  BY <1>2, <1>7
<1>9. Picked(R, kept, 1 .. m) /\ Len(R) = m
  <2>1. 1 .. m \in SUBSET (1 .. Len(kept))
    BY <1>7
  <2>2. Cardinality(1 .. m) = m
    BY <1>6, UpTo
  <2> QED
    BY <1>7, <1>8, <2>1, <2>2, PlacesInOrder
<1> HIDE DEF R, m
<1>10. PICK o \in [1 .. m -> 1 .. m] :
         /\ \A i \in 1 .. m : R[i] = kept[o[i]]
         /\ \A i, j \in 1 .. m : i < j => o[i] < o[j]
         /\ \A p \in 1 .. m : \E i \in 1 .. m : o[i] = p
  <2>1. PICK o \in [1 .. Len(R) -> 1 .. m] :
          /\ \A i \in 1 .. Len(R) : R[i] = kept[o[i]]
          /\ \A i, j \in 1 .. Len(R) : i < j => o[i] < o[j]
          /\ \A p \in 1 .. m : \E i \in 1 .. Len(R) : o[i] = p
    BY <1>9 DEF Picked
  <2>2. Len(R) = m
    BY <1>9
  <2> QED
    BY <2>1, <2>2
<1> DEFINE first == {all[i] : i \in 1 .. m}
           N == 1 .. Len(all)
<1>11. \A i \in 1 .. m : i \in N /\ o[i] \in 1 .. m /\ R[i] = all[o[i]]
  <2> SUFFICES ASSUME NEW i \in 1 .. m
               PROVE  i \in N /\ o[i] \in 1 .. m /\ R[i] = all[o[i]]
    OBVIOUS
  <2>1. i \in N
    BY <1>5, <1>6
  <2>2. o[i] \in 1 .. m /\ R[i] = kept[o[i]]
    BY <1>10
  <2> QED
    BY <1>7, <2>1, <2>2
<1>12. Range(R) = first
  <2>1. DOMAIN R = 1 .. m
    BY <1>9 DEF Picked
  <2>2. \A i \in 1 .. m : R[i] \in first
    BY <1>11
  <2>3. \A p \in 1 .. m : \E i \in 1 .. m : R[i] = all[p]
    <3> SUFFICES ASSUME NEW p \in 1 .. m PROVE \E i \in 1 .. m : R[i] = all[p]
      OBVIOUS
    <3>1. PICK i \in 1 .. m : o[i] = p
      BY <1>10
    <3> QED
      BY <1>11, <3>1
  <2> QED
    BY <2>1, <2>2, <2>3 DEF Range
<1>13. /\ want = {all[i] : i \in N}
       /\ \A i, j \in N : i # j => all[i] # all[j]
       /\ \A i, j \in N : i < j => Area(all[i]) >= Area(all[j])
  BY <1>4 DEF Extracted
<1> HIDE DEF want
<1>14. Cardinality(want) = Len(all)
  <2> DEFINE f == [i \in N |-> all[i]]
  <2>1. IsFiniteSet(N) /\ Cardinality(N) = Len(all)
    BY <1>5, UpTo
  <2>2. /\ f \in [N -> want] /\ \A x, y \in N : x # y => f[x] # f[y]
        /\ \A z \in want : \E x \in N : f[x] = z
    BY <1>13
  <2> HIDE DEF f, N
  <2> QED
    BY <2>1, <2>2, PairedOff
<1>15. Cardinality(first) = m
  <2> DEFINE M == 1 .. m
             f == [i \in M |-> all[i]]
  <2>1. IsFiniteSet(M) /\ Cardinality(M) = m
    BY <1>6, UpTo
  <2>2. \A i \in M : i \in N
    BY <1>11
  <2>3. /\ f \in [M -> first] /\ \A x, y \in M : x # y => f[x] # f[y]
        /\ \A z \in first : \E x \in M : f[x] = z
    BY <1>13, <2>2
  <2> HIDE DEF f, M, first
  <2> QED
    BY <2>1, <2>3, PairedOff
<1>16. first \subseteq want
  BY <1>11, <1>13
<1>17. ASSUME NEW g \in want \ first, NEW h \in first
       PROVE  Area(g) <= Area(h)
  <2>1. PICK k \in N : g = all[k]
    BY <1>13, <1>17
  <2>2. PICK l \in 1 .. m : h = all[l]
    BY <1>17
  <2>3. k \notin 1 .. m
    BY <1>17, <2>1
  <2>4. l < k /\ l \in N
    BY <1>5, <1>6, <1>11, <2>3
  <2>5. Area(all[l]) >= Area(all[k])
    BY <1>13, <2>4
  <2>6. Area(all[l]) \in Nat /\ Area(all[k]) \in Nat
    BY <1>5, <2>4, ReportingIsAnOrder
  <2> QED
    BY <2>1, <2>2, <2>5, <2>6
<1>18. ASSUME NEW i \in 1 .. m, NEW j \in 1 .. m, i < j
       PROVE  Area(R[i]) >= Area(R[j])
  <2>1. o[i] < o[j] /\ o[i] \in N /\ o[j] \in N
    BY <1>10, <1>11, <1>18
  <2> QED
    BY <1>11, <1>13, <2>1
<1> HIDE DEF first
<1>19. /\ Len(R) = Cardinality(Range(R)) /\ Cardinality(Range(R)) = m
       /\ DOMAIN R = 1 .. m
  BY <1>9, <1>12, <1>15 DEF Picked
<1> QED
  <2>1. m = Smaller(MaximumRegions, Cardinality(want))
    BY <1>14 DEF m
  <2>2. /\ Range(R) \subseteq want
        /\ \A g \in want \ Range(R), h \in Range(R) : Area(g) <= Area(h)
    BY <1>12, <1>16, <1>17
  <2>3. figures.truncated <=> Cardinality(want) > MaximumRegions
    BY <1>1, <1>14
  <2>4. \A i, j \in DOMAIN R : i < j => Area(R[i]) >= Area(R[j])
    BY <1>18, <1>19
  <2> HIDE DEF N
  <2>5. FiguresAreRight(earlier, current, figures)
    BY <1>1, <1>19, <2>1, <2>2, <2>3, <2>4 DEF FiguresAreRight, want, mask
  <2> QED
    BY <2>5 DEF figures

-----------------------------------------------------------------------------
(* The invariant.                                                          *)

\* What was found of two pictures, each of which is what its file is of
\* unless the file is gone.
Found(source, target, figures) ==
  /\ source \in Id /\ target \in Id
  /\ \E s, t \in Shot :
       /\ files[target] \in {s, Gone} /\ files[source] \in {t, Gone}
       /\ Geometry[s][t].comparable
       /\ figures = Figures[s][t]

\* What a capture under way knows is so, as far as it has come.
Underway(p) ==
  /\ At(p, "decided") =>
       /\ call[p].claim \in Claim /\ call[p].warned \in BOOLEAN
       /\ call[p].request \in Requests /\ Admissible(call[p].request)
  /\ At(p, "written") \/ At(p, "recorded") =>
       /\ {"step", "warned"} \subseteq DOMAIN call[p]
       /\ call[p].claim \in Claim /\ call[p].warned \in BOOLEAN
       /\ call[p].id \in Id /\ call[p].shot \in Shot
       /\ files[call[p].id] \in {call[p].shot, Gone}
  /\ At(p, "recorded") => captures[call[p].id] # Null
  /\ At(p, "drawn") =>
       /\ captures[call[p].id] # Null /\ drawn[call[p].id] # Null
       /\ Found(call[p].id, call[p].target, call[p].figures)

Typed ==
  /\ files \in [Id -> Shot \cup {Null, Gone}]
  /\ captures \in [Id -> CaptureRow \cup {Null}]
  /\ drawn \in [Id -> (Shot \X Shot) \cup {Null}]
  /\ call = [p \in Process |-> call[p]]

RowsOfPictures ==
  \A i \in Id : captures[i] # Null =>
    /\ files[i] # Null
    /\ files[i] \in Shot => /\ captures[i].width = Picture[files[i]].width
                            /\ captures[i].height = Picture[files[i]].height
    /\ Schema!LegalCapture(captures[i])

RowsOfComparisons ==
  \A r \in comparisons :
    /\ captures[r.source] # Null /\ drawn[r.source] # Null
    /\ Found(r.source, r.target, r.figures)

CapturesInv == Typed /\ (\A p \in Process : Underway(p)) /\ RowsOfPictures /\ RowsOfComparisons

\* Nothing that was written is undone, but for a file that is cleared away.
Lasts ==
  /\ \A i \in Id : files[i] # Null => files'[i] \in {files[i], Gone}
  /\ \A i \in Id : captures[i] # Null => captures'[i] # Null
  /\ \A i \in Id : drawn[i] # Null => drawn'[i] # Null

-----------------------------------------------------------------------------
(* What a step leaves alone.                                               *)

LEMMA FoundLasts ==
  ASSUME Lasts, NEW source, NEW target, NEW figures, Found(source, target, figures)
  PROVE  Found(source, target, figures)'
<1>1. PICK s, t \in Shot :
        /\ files[target] \in {s, Gone} /\ files[source] \in {t, Gone}
        /\ Geometry[s][t].comparable /\ figures = Figures[s][t]
  BY DEF Found
<1>2. source \in Id /\ target \in Id
  BY DEF Found
<1>3. files'[target] \in {s, Gone} /\ files'[source] \in {t, Gone}
  BY <1>1, <1>2, MarkersAssumption DEF Lasts
<1> QED
  BY <1>1, <1>2, <1>3 DEF Found

LEMMA UnderwayLasts ==
  ASSUME Lasts, NEW p \in Process, Underway(p), call'[p] = call[p]
  PROVE  Underway(p)'
<1>1. \A step : At(p, step)' = At(p, step)
  BY DEF At
<1>2. CASE At(p, "decided")
  BY <1>1, <1>2 DEF Underway, At
<1>3. CASE At(p, "written") \/ At(p, "recorded")
  BY <1>1, <1>3, MarkersAssumption DEF Underway, At, Lasts
<1>4. CASE At(p, "drawn")
  <2>1. /\ captures[call[p].id] # Null /\ drawn[call[p].id] # Null
        /\ Found(call[p].id, call[p].target, call[p].figures)
    BY <1>4 DEF Underway
  <2>2. Found(call[p].id, call[p].target, call[p].figures)'
    <3>1. \A source, target, figures :
            Found(source, target, figures) => Found(source, target, figures)'
      BY FoundLasts
    <3> QED
      BY <2>1, <3>1 DEF Found
  <2>3. captures'[call[p].id] # Null /\ drawn'[call[p].id] # Null
    BY <2>1 DEF Lasts, Found
  <2> QED
    BY <1>1, <1>4, <2>2, <2>3 DEF Underway, At
<1>5. CASE \A step \in {"decided", "written", "recorded", "drawn"} : ~At(p, step)
  BY <1>1, <1>5 DEF Underway
<1> QED
  BY <1>2, <1>3, <1>4, <1>5

LEMMA ComparisonsLast ==
  ASSUME Lasts, RowsOfComparisons, comparisons' = comparisons
  PROVE  RowsOfComparisons'
<1> SUFFICES ASSUME NEW r \in comparisons
             PROVE  /\ captures'[r.source] # Null /\ drawn'[r.source] # Null
                    /\ Found(r.source, r.target, r.figures)'
  BY DEF RowsOfComparisons
<1>1. /\ captures[r.source] # Null /\ drawn[r.source] # Null
      /\ Found(r.source, r.target, r.figures)
  BY DEF RowsOfComparisons
<1> QED
  BY <1>1, FoundLasts DEF Found, Lasts

-----------------------------------------------------------------------------
(* What the steps do.                                                      *)

LEMMA DecideKeeps ==
  ASSUME CapturesInv, NEW p \in Process, NEW c \in Claim, NEW r \in Requests,
         NEW target \in Targets, Decide(p, c, r, target)
  PROVE  CapturesInv'
<1> DEFINE new == [step |-> "decided", claim |-> c, request |-> r, target |-> target[1],
                   proven |-> target[2], warned |-> Warned(CapturesTakenBy(c))]
<1>1. call' = [call EXCEPT ![p] = new] /\ UNCHANGED <<files, captures, drawn, comparisons>>
  BY DEF Decide
<1>2. Lasts /\ Typed'
  BY <1>1 DEF Lasts, CapturesInv, Typed
<1>3. /\ new.step = "decided" /\ new.claim = c /\ new.request = r /\ new.warned \in BOOLEAN
  BY DEF Warned
<1> HIDE DEF new
<1>4. call'[p] = new /\ \A q \in Process \ {p} : call'[q] = call[q]
  BY <1>1 DEF CapturesInv, Typed
<1>5. Underway(p)'
  BY <1>3, <1>4 DEF Decide, Underway, At
<1>6. \A q \in Process : Underway(q)'
  BY <1>2, <1>4, <1>5, UnderwayLasts DEF CapturesInv
<1>7. RowsOfPictures' /\ RowsOfComparisons'
  BY <1>1, <1>2, ComparisonsLast DEF CapturesInv, RowsOfPictures
<1> QED
  BY <1>2, <1>6, <1>7 DEF CapturesInv

LEMMA TakeCaptureKeeps ==
  ASSUME CapturesInv, NEW p \in Process, NEW page \in Page, TakeCapture(p, page)
  PROVE  CapturesInv'
<1>1. PICK i \in Id :
        /\ files[i] = Null
        /\ files' = [files EXCEPT ![i] = ShotOf(page, call[p].request)]
        /\ call' = [call EXCEPT ![p] =
             [step |-> "written", claim |-> call[p].claim, id |-> i,
              shot |-> ShotOf(page, call[p].request), target |-> call[p].target,
              proven |-> call[p].proven, warned |-> call[p].warned]]
  BY DEF TakeCapture
<1> DEFINE shot == ShotOf(page, call[p].request)
           new  == [step |-> "written", claim |-> call[p].claim, id |-> i, shot |-> shot,
                    target |-> call[p].target, proven |-> call[p].proven,
                    warned |-> call[p].warned]
<1>2. UNCHANGED <<captures, drawn, comparisons>>
  BY DEF TakeCapture
<1>3. call[p].claim \in Claim /\ call[p].warned \in BOOLEAN /\ shot \in Shot
  BY DEF TakeCapture, CapturesInv, Underway, Shot
<1>4. call' = [call EXCEPT ![p] = new]
  BY <1>1
<1>5. /\ new.step = "written" /\ {"step", "warned"} \subseteq DOMAIN new /\ new.id = i
      /\ new.shot = shot /\ new.claim = call[p].claim /\ new.warned = call[p].warned
  OBVIOUS
<1>6. files'[i] = shot /\ \A j \in Id \ {i} : files'[j] = files[j]
  BY <1>1 DEF CapturesInv, Typed
<1> HIDE DEF new, shot
<1>7. call'[p] = new /\ \A q \in Process \ {p} : call'[q] = call[q]
  BY <1>4 DEF CapturesInv, Typed
<1>8. Lasts
  BY <1>1, <1>2, <1>6 DEF Lasts
<1>9. Typed'
  <2>1. files' \in [Id -> Shot \cup {Null, Gone}]
    BY <1>1, <1>3 DEF CapturesInv, Typed, shot
  <2> QED
    BY <1>2, <1>4, <2>1 DEF CapturesInv, Typed
<1>10. Underway(p)'
  BY <1>3, <1>5, <1>6, <1>7 DEF Underway, At
<1>11. \A q \in Process : Underway(q)'
  BY <1>7, <1>8, <1>10, UnderwayLasts DEF CapturesInv
<1>12. RowsOfPictures'
  BY <1>1, <1>2, <1>6 DEF CapturesInv, RowsOfPictures
<1>13. RowsOfComparisons'
  BY <1>2, <1>8, ComparisonsLast DEF CapturesInv
<1> QED
  BY <1>9, <1>11, <1>12, <1>13 DEF CapturesInv

\* The row of a picture is one the table takes, with the picture's dimensions.
LEMMA RowIsLegal ==
  ASSUME NEW c, c.claim \in Claim, c.warned \in BOOLEAN, c.shot \in Shot
  PROVE  /\ Row(c) \in CaptureRow /\ Schema!LegalCapture(Row(c))
         /\ Row(c).width = Picture[c.shot].width /\ Row(c).height = Picture[c.shot].height
         /\ Row(c).claim = c.claim /\ Row(c).warned = c.warned
<1> DEFINE width == Picture[c.shot].width
           height == Picture[c.shot].height
<1>1. width \in Nat \ {0} /\ height \in Nat \ {0}
  BY PicturesAreOfSomeSize
<1>2. c.shot.kind \in Kinds /\ c.shot.tier \in Tier
  BY ShotsAreKnown
<1>3. Row(c) = [claim |-> c.claim, kind |-> c.shot.kind, tier |-> c.shot.tier,
                reason |-> c.shot.tier = "max", selector |-> c.shot.kind = "element",
                width |-> width, height |-> height, bytes |-> 0, absolute |-> FALSE,
                warned |-> c.warned]
  BY DEF Row
<1> HIDE DEF width, height
<1>4. Row(c) \in CaptureRow
  BY <1>1, <1>2, <1>3 DEF CaptureRow
<1>5. Schema!LegalCapture(Row(c))
  <2>1. /\ Row(c).kind = c.shot.kind /\ Row(c).tier = c.shot.tier
        /\ Row(c).width = width /\ Row(c).height = height
        /\ Row(c).bytes = 0 /\ Row(c).absolute = FALSE
    BY <1>3
  <2>2. /\ Row(c).reason = (c.shot.tier = "max")
        /\ Row(c).selector = (c.shot.kind = "element")
    BY <1>3
  <2>3. Row(c).tier = "max" => Row(c).reason
    BY <2>1, <2>2
  <2>4. Row(c).kind = "element" <=> Row(c).selector
    BY <2>1, <2>2
  <2> QED
    BY <1>1, <1>2, <2>1, <2>3, <2>4 DEF Schema!LegalCapture, Kinds, Tier
<1>6. Row(c).width = width /\ Row(c).height = height
      /\ Row(c).claim = c.claim /\ Row(c).warned = c.warned
  BY <1>3
<1> QED
  BY <1>4, <1>5, <1>6 DEF width, height

LEMMA RecordCaptureKeeps ==
  ASSUME CapturesInv, NEW p \in Process, RecordCapture(p)
  PROVE  CapturesInv'
<1> DEFINE i   == call[p].id
           row == Row(call[p])
           new == IF call[p].target = Null THEN Null
                  ELSE [call[p] EXCEPT !.step = "recorded", !.warned = FALSE]
<1>1. /\ {"step", "warned"} \subseteq DOMAIN call[p]
      /\ call[p].claim \in Claim /\ call[p].warned \in BOOLEAN
      /\ i \in Id /\ call[p].shot \in Shot /\ files[i] \in {call[p].shot, Gone}
  BY DEF RecordCapture, CapturesInv, Underway
<1>2. /\ row \in CaptureRow /\ Schema!LegalCapture(row)
      /\ row.width = Picture[call[p].shot].width /\ row.height = Picture[call[p].shot].height
  BY <1>1, RowIsLegal
<1>3. /\ call' = [call EXCEPT ![p] = new] /\ captures' = [captures EXCEPT ![i] = row]
      /\ UNCHANGED <<files, drawn, comparisons>>
  BY DEF RecordCapture
<1>4. /\ new # Null => new.step = "recorded" /\ {"step", "warned"} \subseteq DOMAIN new
      /\ new # Null => new.warned = FALSE /\ new.claim = call[p].claim
      /\ new # Null => new.id = i /\ new.shot = call[p].shot
  BY <1>1
<1> HIDE DEF new, row, i
<1>5. captures'[i] = row /\ \A j \in Id \ {i} : captures'[j] = captures[j]
  BY <1>1, <1>3 DEF CapturesInv, Typed
<1>6. call'[p] = new /\ \A q \in Process \ {p} : call'[q] = call[q]
  BY <1>3 DEF CapturesInv, Typed
<1>7. row # Null
  BY <1>2, MarkersAssumption
<1>8. Lasts
  BY <1>3, <1>5, <1>7 DEF Lasts
<1>9. Typed'
  BY <1>1, <1>2, <1>3 DEF CapturesInv, Typed
<1>10. Underway(p)'
  BY <1>1, <1>3, <1>4, <1>5, <1>6, <1>7 DEF Underway, At
<1>11. \A q \in Process : Underway(q)'
  BY <1>6, <1>8, <1>10, UnderwayLasts DEF CapturesInv
<1>12. RowsOfPictures'
  <2> SUFFICES ASSUME NEW j \in Id, captures'[j] # Null
               PROVE  /\ files[j] # Null
                      /\ files[j] \in Shot => /\ captures'[j].width = Picture[files[j]].width
                                              /\ captures'[j].height = Picture[files[j]].height
                      /\ Schema!LegalCapture(captures'[j])
    BY <1>3 DEF RowsOfPictures, Schema!LegalCapture
  <2>1. CASE j = i
    BY <1>1, <1>2, <1>5, <2>1, MarkersAssumption
  <2>2. CASE j # i
    BY <1>5, <2>2 DEF CapturesInv, RowsOfPictures
  <2> QED
    BY <2>1, <2>2
<1>13. RowsOfComparisons'
  BY <1>3, <1>8, ComparisonsLast DEF CapturesInv
<1> QED
  BY <1>9, <1>11, <1>12, <1>13 DEF CapturesInv

\* A call that ends, or has only its answer left, takes nothing with it.
LEMMA CallEndKeeps ==
  ASSUME CapturesInv, NEW p \in Process, NEW new,
         new = Null \/ new.step = "answered",
         call' = [call EXCEPT ![p] = new],
         UNCHANGED <<files, captures, drawn, comparisons>>
  PROVE  CapturesInv'
<1>1. call'[p] = new /\ \A q \in Process \ {p} : call'[q] = call[q]
  BY DEF CapturesInv, Typed
<1>2. Lasts /\ Typed'
  BY DEF Lasts, CapturesInv, Typed
<1>3. Underway(p)'
  BY <1>1 DEF Underway, At
<1>4. \A q \in Process : Underway(q)'
  BY <1>1, <1>2, <1>3, UnderwayLasts DEF CapturesInv
<1>5. RowsOfPictures' /\ RowsOfComparisons'
  BY <1>2, ComparisonsLast DEF CapturesInv, RowsOfPictures
<1> QED
  BY <1>2, <1>4, <1>5 DEF CapturesInv

LEMMA DrawKeeps ==
  ASSUME CapturesInv, NEW p \in Process, Draw(p)
  PROVE  CapturesInv'
<1> DEFINE i == call[p].id
           s == files[call[p].target]
           t == call[p].shot
           new == Measured(call[p])
<1>1. /\ i \in Id /\ t \in Shot /\ files[i] \in {t, Gone} /\ captures[i] # Null
      /\ call[p].target \in Id /\ s \in Shot /\ Geometry[s][t].comparable
  BY DEF Draw, CapturesInv, Underway, Readable, Owned, Pair
<1>2. /\ call' = [call EXCEPT ![p] = new] /\ drawn' = [drawn EXCEPT ![i] = <<s, t>>]
      /\ UNCHANGED <<files, captures, comparisons>>
  BY DEF Draw
<1>3. /\ new.step = "drawn" /\ new.id = i /\ new.target = call[p].target
      /\ new.figures = Figures[s][t]
  BY DEF Measured
<1>4. <<s, t>> \in Shot \X Shot /\ <<s, t>> # Null
  BY <1>1, MarkersAssumption
<1>5. call[p].target = new.target /\ s = files[new.target]
  BY <1>3
<1> HIDE DEF new, i, s, t
<1>6. call'[p] = new /\ \A q \in Process \ {p} : call'[q] = call[q]
  BY <1>2 DEF CapturesInv, Typed
<1>7. drawn'[i] = <<s, t>> /\ \A j \in Id \ {i} : drawn'[j] = drawn[j]
  BY <1>1, <1>2 DEF CapturesInv, Typed
<1>8. Lasts
  BY <1>2, <1>4, <1>7 DEF Lasts
<1>9. Typed'
  BY <1>1, <1>2, <1>4 DEF CapturesInv, Typed
<1>10. Found(call[p].id, call[p].target, call[p].figures)'
  BY <1>1, <1>2, <1>3, <1>5, <1>6 DEF Found
<1>11. Underway(p)'
  BY <1>1, <1>2, <1>3, <1>4, <1>6, <1>7, <1>10 DEF Underway, At
<1>12. \A q \in Process : Underway(q)'
  BY <1>6, <1>8, <1>11, UnderwayLasts DEF CapturesInv
<1>13. RowsOfPictures' /\ RowsOfComparisons'
  BY <1>2, <1>8, ComparisonsLast DEF CapturesInv, RowsOfPictures
<1> QED
  BY <1>9, <1>12, <1>13 DEF CapturesInv

LEMMA RecordComparisonKeeps ==
  ASSUME CapturesInv, NEW p \in Process, RecordComparison(p)
  PROVE  CapturesInv'
<1> DEFINE row == [source |-> call[p].id, target |-> call[p].target, claim |-> call[p].claim,
                   figures |-> call[p].figures]
           new == Answered(call[p], call[p].answer)
<1>1. /\ comparisons' = comparisons \cup {row} /\ call' = [call EXCEPT ![p] = new]
      /\ UNCHANGED <<files, captures, drawn>>
  BY DEF RecordComparison
<1>2. /\ captures[call[p].id] # Null /\ drawn[call[p].id] # Null
      /\ Found(call[p].id, call[p].target, call[p].figures)
  BY DEF RecordComparison, CapturesInv, Underway
<1>3. new.step = "answered"
  BY DEF Answered
<1>4. /\ captures[row.source] # Null /\ drawn[row.source] # Null
      /\ Found(row.source, row.target, row.figures)
  BY <1>2
<1> HIDE DEF new, row
<1>5. call'[p] = new /\ \A q \in Process \ {p} : call'[q] = call[q]
  BY <1>1 DEF CapturesInv, Typed
<1>6. Lasts /\ Typed'
  BY <1>1 DEF Lasts, CapturesInv, Typed
<1>7. Underway(p)'
  BY <1>3, <1>5 DEF Underway, At
<1>8. \A q \in Process : Underway(q)'
  BY <1>5, <1>6, <1>7, UnderwayLasts DEF CapturesInv
<1>9. \A r \in comparisons \cup {row} :
        /\ captures[r.source] # Null /\ drawn[r.source] # Null
        /\ Found(r.source, r.target, r.figures)
  BY <1>4 DEF CapturesInv, RowsOfComparisons
<1>10. \A r \in comparisons' :
         /\ captures'[r.source] # Null /\ drawn'[r.source] # Null
         /\ Found(r.source, r.target, r.figures)'
  BY <1>1, <1>9 DEF Found
<1>11. RowsOfComparisons' /\ RowsOfPictures'
  BY <1>1, <1>10 DEF RowsOfComparisons, CapturesInv, RowsOfPictures
<1> QED
  BY <1>6, <1>8, <1>11 DEF CapturesInv

LEMMA ClearingKeeps ==
  ASSUME CapturesInv, NEW i \in Id, ClearedByHand(i)
  PROVE  CapturesInv'
<1>1. /\ \/ files[i] \in Shot /\ files' = [files EXCEPT ![i] = Gone]
         \/ files' = files
      /\ UNCHANGED <<captures, drawn, comparisons, call>>
  BY DEF ClearedByHand
<1>2. \A j \in Id : files'[j] = files[j] \/ (files[j] \in Shot /\ files'[j] = Gone)
  BY <1>1 DEF CapturesInv, Typed
<1>3. Lasts /\ Typed'
  BY <1>1, <1>2 DEF Lasts, CapturesInv, Typed
<1>4. \A q \in Process : Underway(q)'
  BY <1>1, <1>3, UnderwayLasts DEF CapturesInv
<1>5. RowsOfPictures'
  BY <1>1, <1>2, MarkersAssumption DEF CapturesInv, RowsOfPictures
<1>6. RowsOfComparisons'
  BY <1>1, <1>3, ComparisonsLast DEF CapturesInv
<1> QED
  BY <1>3, <1>4, <1>5, <1>6 DEF CapturesInv

LEMMA StepsKeep ==
  ASSUME CapturesInv, [Next]_vars
  PROVE  CapturesInv'
<1>1. CASE UNCHANGED vars
  <2>1. Lasts /\ Typed'
    BY <1>1 DEF vars, Lasts, CapturesInv, Typed
  <2>2. \A q \in Process : Underway(q)'
    BY <1>1, <2>1, UnderwayLasts DEF vars, CapturesInv
  <2>3. RowsOfPictures' /\ RowsOfComparisons'
    BY <1>1, <2>1, ComparisonsLast DEF vars, CapturesInv, RowsOfPictures
  <2> QED
    BY <2>1, <2>2, <2>3 DEF CapturesInv
<1>2. ASSUME NEW p \in Process, Decline(p) \/ Finish(p) \/ Fail(p)
      PROVE  CapturesInv'
  <2>1. CASE Decline(p)
    <3> DEFINE answer == IF Readable(call[p]) THEN Answer(Pair(call[p])) ELSE NoDiff
    <3>1. /\ call' = [call EXCEPT ![p] = Answered(call[p], answer)]
          /\ UNCHANGED <<files, captures, drawn, comparisons>>
      BY <2>1 DEF Decline
    <3>2. Answered(call[p], answer).step = "answered"
      BY DEF Answered
    <3> HIDE DEF answer
    <3> QED
      BY <3>1, <3>2, CallEndKeeps
  <2>2. CASE Finish(p) \/ Fail(p)
    BY <2>2, CallEndKeeps DEF Finish, Fail
  <2> QED
    BY <1>2, <2>1, <2>2
<1> QED
  BY <1>1, <1>2, DecideKeeps, TakeCaptureKeeps, RecordCaptureKeeps, DrawKeeps,
     RecordComparisonKeeps, ClearingKeeps DEF Next

LEMMA StartsRight == Init => CapturesInv
<1> SUFFICES ASSUME Init PROVE CapturesInv
  OBVIOUS
<1>1. Typed
  BY DEF Init, Typed
<1>2. \A p \in Process : Underway(p)
  BY DEF Init, Underway, At
<1>3. RowsOfPictures /\ RowsOfComparisons
  BY DEF Init, RowsOfPictures, RowsOfComparisons
<1> QED
  BY <1>1, <1>2, <1>3 DEF CapturesInv

(***************************************************************************)
(* A row is written after its file and the crops' before a comparison's    *)
(* (capture-store.ts, comparison-store.ts), and processes come and go in   *)
(* between: each row is one the tables take, and speaks of a file with the *)
(* dimensions it says, or that has been cleared away since.                *)
(***************************************************************************)
THEOREM RowsDescribe == Spec => []RowsDescribePictures
<1>1. CapturesInv => RowsDescribePictures
  <2> SUFFICES ASSUME CapturesInv
               PROVE  RecordedPicturesExist /\ RowsAreLegal
    BY DEF RowsDescribePictures
  <2>1. RecordedPicturesExist
    BY DEF CapturesInv, RowsOfPictures, RowsOfComparisons, RecordedPicturesExist
  <2>2. ASSUME NEW r \in comparisons
        PROVE  Schema!LegalComparison(
                 [colourTolerance |-> ColourTolerance, minimumRegionArea |-> MinimumRegionArea,
                  maximumRegions |-> MaximumRegions, changedPixels |-> r.figures.changedPixels,
                  allPixels |-> r.figures.allPixels, absolute |-> FALSE])
    <3>1. PICK s, t \in Shot : Geometry[s][t].comparable /\ r.figures = Figures[s][t]
      BY <2>2 DEF CapturesInv, RowsOfComparisons, Found
    <3>2. /\ r.figures.changedPixels \in Nat
          /\ r.figures.changedPixels <= r.figures.allPixels
      BY <3>1, ChangesAreAmongPixels
    <3> QED
      BY <3>2, PicturesAssumption DEF Schema!LegalComparison
  <2>3. RowsAreLegal
    BY <2>2 DEF CapturesInv, RowsOfPictures, RowsAreLegal
  <2> QED
    BY <2>1, <2>3
<1> QED
  BY <1>1, StartsRight, StepsKeep, PTL DEF Spec

(***************************************************************************)
(* A comparison reads two files, writes crops of them and only then its    *)
(* row (comparison.ts), while the directory may be cleared by hand: the    *)
(* figures of the row are of the two pictures its files still show, or     *)
(* showed.                                                                 *)
(***************************************************************************)
FiguresOfTheFiles ==
  \A r \in comparisons :
    files[r.source] \in Shot /\ files[r.target] \in Shot =>
      r.figures = Figures[files[r.target]][files[r.source]]

THEOREM FiguresAreOfTheFiles == Spec => []FiguresOfTheFiles
<1>1. CapturesInv => FiguresOfTheFiles
  BY MarkersAssumption DEF CapturesInv, RowsOfComparisons, Found, FiguresOfTheFiles
<1> QED
  BY <1>1, StartsRight, StepsKeep, PTL DEF Spec

(***************************************************************************)
(* Pixels that changed are gathered into joined pieces, the pieces into    *)
(* regions where they are near, and the regions filtered, put in order and *)
(* cut off (regions.ts, comparison.ts).  Whatever the pictures are, a row  *)
(* whose two files are still there tells of just the regions that take the *)
(* fewest pieces together, the largest of them and in that order, and      *)
(* counts each changed pixel once.                                         *)
(***************************************************************************)
THEOREM RegionsAreChanges == Spec => []RegionsAreTheChanges
<1>1. ASSUME NEW s \in Shot, NEW t \in Shot
      PROVE  Right[s][t]
  <2> DEFINE earlier == Picture[s]
             current == Picture[t]
             height  == Geometry[s][t].height
  <2>1. /\ earlier.width \in Nat /\ earlier.height \in Nat
        /\ current.width \in Nat /\ current.height \in Nat
    BY PicturesAreOfSomeSize
  <2>2. Right[s][t] = (Geometry[s][t].comparable =>
                         FiguresAreRight(earlier, current, Figures[s][t]))
    BY DEF Right
  <2>3. Geometry[s][t].comparable => Figures[s][t] = Compared(earlier, current, height)
    BY DEF Figures
  <2>4. Geometry[s][t] = ReconcileGeometry(earlier, current, t.kind)
    BY DEF Geometry
  <2> HIDE DEF earlier, current
  <2>5. Geometry[s][t].comparable => height = Smaller(earlier.height, current.height)
    BY <2>1, <2>4 DEF ReconcileGeometry, Comparable, NotComparable, Smaller
  <2>6. Geometry[s][t].comparable => height \in Nat
    BY SharedRows
  <2> HIDE DEF height
  <2>7. Geometry[s][t].comparable =>
          FiguresAreRight(earlier, current, Compared(earlier, current, height))
    BY <2>1, <2>5, <2>6, ComparedIsRight
  <2> QED
    BY <2>2, <2>3, <2>7
<1>2. CapturesInv => RegionsAreTheChanges
  BY <1>1, MarkersAssumption
     DEF CapturesInv, RowsOfComparisons, Found, RegionsAreTheChanges
<1> QED
  BY <1>2, StartsRight, StepsKeep, PTL DEF Spec

-----------------------------------------------------------------------------
(* The warning.                                                            *)

UnwarnedRows(c) == {i \in Id : captures[i] # Null /\ captures[i].claim = c /\ ~captures[i].warned}

UnwarnedCalls(c) ==
  {p \in Process : (At(p, "decided") \/ At(p, "written"))
                   /\ call[p].claim = c /\ ~call[p].warned}

WarnedInTime(c) ==
  UnwarnedRows(c) \cup UnwarnedCalls(c) # {} =>
    Cardinality(UnwarnedRows(c)) + Cardinality(UnwarnedCalls(c))
      <= Threshold + Cardinality(Process) - 1

WarningInv == \A c \in Claim : WarnedInTime(c)

LEMMA UnwarnedAreFinite ==
  ASSUME NEW c
  PROVE  /\ IsFiniteSet(Id) /\ IsFiniteSet(Process) /\ Cardinality(Process) \in Nat
         /\ IsFiniteSet(UnwarnedRows(c)) /\ Cardinality(UnwarnedRows(c)) \in Nat
         /\ IsFiniteSet(UnwarnedCalls(c)) /\ Cardinality(UnwarnedCalls(c)) \in Nat
         /\ Cardinality(UnwarnedCalls(c)) <= Cardinality(Process)
<1>1. IsFiniteSet(Id) /\ IsFiniteSet(Process)
  BY CapturesAssumption, FS_Interval DEF Id
<1>2. UnwarnedRows(c) \subseteq Id /\ UnwarnedCalls(c) \subseteq Process
  BY DEF UnwarnedRows, UnwarnedCalls
<1>3. IsFiniteSet(UnwarnedRows(c)) /\ IsFiniteSet(UnwarnedCalls(c))
      /\ Cardinality(UnwarnedCalls(c)) <= Cardinality(Process)
  BY <1>1, <1>2, FS_Subset
<1> QED
  BY <1>1, <1>3, FS_CardinalityType

LEMMA NoneMore ==
  ASSUME NEW c \in Claim, WarnedInTime(c),
         UnwarnedRows(c)' \subseteq UnwarnedRows(c),
         UnwarnedCalls(c)' \subseteq UnwarnedCalls(c)
  PROVE  WarnedInTime(c)'
<1>1. /\ Cardinality(UnwarnedRows(c)') <= Cardinality(UnwarnedRows(c))
      /\ Cardinality(UnwarnedRows(c)') \in Nat
      /\ Cardinality(UnwarnedCalls(c)') <= Cardinality(UnwarnedCalls(c))
      /\ Cardinality(UnwarnedCalls(c)') \in Nat
  BY UnwarnedAreFinite, FS_Subset, FS_CardinalityType
<1>2. UnwarnedRows(c)' \cup UnwarnedCalls(c)' # {} => UnwarnedRows(c) \cup UnwarnedCalls(c) # {}
  OBVIOUS
<1> DEFINE few(n, m) == n + m <= Threshold + Cardinality(Process) - 1
<1>3. few(Cardinality(UnwarnedRows(c)), Cardinality(UnwarnedCalls(c)))
        => few(Cardinality(UnwarnedRows(c)'), Cardinality(UnwarnedCalls(c)'))
  BY <1>1, UnwarnedAreFinite, CapturesAssumption
<1> QED
  BY <1>2, <1>3 DEF WarnedInTime

\* A picture that is recorded is one row more and one call less.
LEMMA OneRecorded ==
  ASSUME NEW c \in Claim, WarnedInTime(c), NEW p \in UnwarnedCalls(c), NEW i,
         UnwarnedRows(c)' \subseteq UnwarnedRows(c) \cup {i},
         UnwarnedCalls(c)' \subseteq UnwarnedCalls(c) \ {p}
  PROVE  WarnedInTime(c)'
<1> DEFINE R == UnwarnedRows(c)
           S == UnwarnedCalls(c)
           R2 == UnwarnedRows(c)'
           S2 == UnwarnedCalls(c)'
<1>1. /\ IsFiniteSet(R) /\ IsFiniteSet(S) /\ Cardinality(R) \in Nat /\ Cardinality(S) \in Nat
      /\ Cardinality(Process) \in Nat
  BY UnwarnedAreFinite
<1>2. /\ IsFiniteSet(R \cup {i}) /\ Cardinality(R \cup {i}) \in Nat
      /\ Cardinality(R \cup {i}) <= Cardinality(R) + 1
  <2> HIDE DEF R
  <2>1. /\ IsFiniteSet(R \cup {i})
        /\ Cardinality(R \cup {i}) = IF i \in R THEN Cardinality(R) ELSE Cardinality(R) + 1
    BY <1>1, FS_AddElement
  <2> QED
    BY <1>1, <2>1
<1>3. /\ IsFiniteSet(S \ {p}) /\ Cardinality(S \ {p}) \in Nat
      /\ Cardinality(S \ {p}) = Cardinality(S) - 1
  BY <1>1, FS_RemoveElement, FS_CardinalityType
<1>4. /\ Cardinality(R2) <= Cardinality(R \cup {i}) /\ Cardinality(R2) \in Nat
      /\ Cardinality(S2) <= Cardinality(S \ {p}) /\ Cardinality(S2) \in Nat
  BY <1>2, <1>3, FS_Subset, FS_CardinalityType
<1>5. Cardinality(R) + Cardinality(S) <= Threshold + Cardinality(Process) - 1
  BY DEF WarnedInTime
<1>6. Cardinality(R2) + Cardinality(S2) <= Threshold + Cardinality(Process) - 1
  <2> HIDE DEF R, S, R2, S2
  <2> QED
    BY <1>1, <1>2, <1>3, <1>4, <1>5, CapturesAssumption
<1> QED
  BY <1>6 DEF WarnedInTime

\* A call is decided after counting the rows there are: the new call goes
\* without a warning only if they are fewer than the threshold, and there is
\* one call to a process.
LEMMA CountedBeforeDeciding ==
  ASSUME CapturesInv, WarningInv, NEW p \in Process, NEW c \in Claim, NEW r \in Requests,
         NEW target \in Targets, Decide(p, c, r, target)
  PROVE  WarningInv'
<1> DEFINE new == [step |-> "decided", claim |-> c, request |-> r, target |-> target[1],
                   proven |-> target[2], warned |-> Warned(CapturesTakenBy(c))]
<1>1. call' = [call EXCEPT ![p] = new] /\ UNCHANGED <<files, captures, drawn, comparisons>>
  BY DEF Decide
<1>2. new.claim = c /\ new.warned = Warned(CapturesTakenBy(c))
  OBVIOUS
<1> HIDE DEF new
<1>3. call'[p] = new /\ \A q \in Process \ {p} : call'[q] = call[q]
  BY <1>1 DEF CapturesInv, Typed
<1>4. \A d \in Claim : UnwarnedRows(d)' = UnwarnedRows(d)
  BY <1>1 DEF UnwarnedRows
<1> SUFFICES ASSUME NEW d \in Claim
             PROVE  WarnedInTime(d)'
  BY DEF WarningInv
<1>5. CASE d # c \/ Warned(CapturesTakenBy(c))
  <2>1. UnwarnedCalls(d)' \subseteq UnwarnedCalls(d)
    BY <1>2, <1>3, <1>5 DEF UnwarnedCalls, At
  <2> QED
    BY <1>4, <2>1, NoneMore DEF WarningInv
<1>6. CASE d = c /\ ~Warned(CapturesTakenBy(c))
  <2> DEFINE taken == {i \in Id : captures[i] # Null /\ captures[i].claim = c}
  <2>1. UnwarnedRows(c) \subseteq taken /\ taken \subseteq Id
    BY DEF UnwarnedRows
  <2>2. /\ Cardinality(taken) \in Nat /\ Cardinality(UnwarnedRows(c)) \in Nat
        /\ Cardinality(UnwarnedRows(c)) <= Cardinality(taken)
    BY <2>1, UnwarnedAreFinite, FS_Subset, FS_CardinalityType
  <2>3. Cardinality(taken) + 1 <= Threshold
    BY <1>6, <2>2, CapturesAssumption DEF Warned, CapturesTakenBy
  <2>4. /\ Cardinality(UnwarnedCalls(c)') \in Nat /\ Cardinality(Process) \in Nat
        /\ Cardinality(UnwarnedCalls(c)') <= Cardinality(Process)
    <3>1. UnwarnedCalls(c)' \subseteq Process
      BY DEF UnwarnedCalls
    <3> QED
      BY <3>1, UnwarnedAreFinite, FS_Subset, FS_CardinalityType
  <2> HIDE DEF taken
  <2>5. Cardinality(UnwarnedRows(c)) + Cardinality(UnwarnedCalls(c)')
          <= Threshold + Cardinality(Process) - 1
    BY <2>2, <2>3, <2>4, CapturesAssumption
  <2> QED
    BY <1>4, <1>6, <2>5 DEF WarnedInTime
<1> QED
  BY <1>5, <1>6

LEMMA RecordingCounts ==
  ASSUME CapturesInv, WarningInv, NEW p \in Process, RecordCapture(p)
  PROVE  WarningInv'
<1> DEFINE i   == call[p].id
           row == Row(call[p])
           new == IF call[p].target = Null THEN Null
                  ELSE [call[p] EXCEPT !.step = "recorded", !.warned = FALSE]
<1>1. /\ "step" \in DOMAIN call[p] /\ i \in Id
      /\ call[p].claim \in Claim /\ call[p].warned \in BOOLEAN /\ call[p].shot \in Shot
  BY DEF RecordCapture, CapturesInv, Underway
<1>2. row.claim = call[p].claim /\ row.warned = call[p].warned
  BY <1>1, RowIsLegal
<1>3. call' = [call EXCEPT ![p] = new] /\ captures' = [captures EXCEPT ![i] = row]
  BY DEF RecordCapture
<1>4. new = Null \/ new.step = "recorded"
  BY <1>1
<1> HIDE DEF new, row, i
<1>5. captures'[i] = row /\ \A j \in Id \ {i} : captures'[j] = captures[j]
  BY <1>1, <1>3 DEF CapturesInv, Typed
<1>6. call'[p] = new /\ \A q \in Process \ {p} : call'[q] = call[q]
  BY <1>3 DEF CapturesInv, Typed
<1> SUFFICES ASSUME NEW c \in Claim
             PROVE  WarnedInTime(c)'
  BY DEF WarningInv
<1>7. UnwarnedCalls(c)' \subseteq UnwarnedCalls(c) \ {p}
  BY <1>4, <1>6 DEF UnwarnedCalls, At
<1>8. CASE p \in UnwarnedCalls(c)
  <2>1. UnwarnedRows(c)' \subseteq UnwarnedRows(c) \cup {i}
    BY <1>5 DEF UnwarnedRows
  <2> QED
    BY <1>7, <1>8, <2>1, OneRecorded DEF WarningInv
<1>9. CASE p \notin UnwarnedCalls(c)
  <2>1. call[p].claim = c => call[p].warned
    BY <1>9 DEF RecordCapture, UnwarnedCalls
  <2>2. UnwarnedRows(c)' \subseteq UnwarnedRows(c)
    BY <1>2, <1>5, <2>1 DEF UnwarnedRows
  <2> QED
    BY <1>7, <2>2, NoneMore DEF WarningInv
<1> QED
  BY <1>8, <1>9

LEMMA OthersWarnNoLater ==
  ASSUME CapturesInv, WarningInv, captures' = captures,
         NEW p \in Process, \A q \in Process \ {p} : call'[q] = call[q],
         \A c \in Claim : p \in UnwarnedCalls(c)' => p \in UnwarnedCalls(c)
  PROVE  WarningInv'
<1> SUFFICES ASSUME NEW c \in Claim
             PROVE  WarnedInTime(c)'
  BY DEF WarningInv
<1>1. UnwarnedCalls(c)' \subseteq UnwarnedCalls(c) /\ UnwarnedRows(c)' = UnwarnedRows(c)
  BY DEF UnwarnedCalls, UnwarnedRows, At
<1> QED
  BY <1>1, NoneMore DEF WarningInv

LEMMA StepsWarnInTime ==
  ASSUME CapturesInv, WarningInv, [Next]_vars
  PROVE  WarningInv'
<1>1. CASE UNCHANGED vars
  BY <1>1 DEF vars, WarningInv, WarnedInTime, UnwarnedRows, UnwarnedCalls, At
<1>2. ASSUME NEW p \in Process, NEW page \in Page, TakeCapture(p, page)
      PROVE  WarningInv'
  <2>1. PICK new :
          /\ call' = [call EXCEPT ![p] = new]
          /\ new.claim = call[p].claim /\ new.warned = call[p].warned
    BY <1>2 DEF TakeCapture
  <2>2. call'[p] = new /\ \A q \in Process \ {p} : call'[q] = call[q]
    BY <2>1 DEF CapturesInv, Typed
  <2>3. captures' = captures /\ At(p, "decided")
    BY <1>2 DEF TakeCapture
  <2> QED
    BY <2>1, <2>2, <2>3, OthersWarnNoLater DEF UnwarnedCalls
<1>3. ASSUME NEW p \in Process,
             Decline(p) \/ Draw(p) \/ RecordComparison(p) \/ Finish(p) \/ Fail(p)
      PROVE  WarningInv'
  <2>1. PICK new : /\ call' = [call EXCEPT ![p] = new]
                   /\ new = Null \/ new.step \in {"drawn", "answered"}
    BY <1>3 DEF Decline, Draw, RecordComparison, Finish, Fail, Measured, Answered
  <2>2. call'[p] = new /\ \A q \in Process \ {p} : call'[q] = call[q]
    BY <2>1 DEF CapturesInv, Typed
  <2>3. captures' = captures
    BY <1>3 DEF Decline, Draw, RecordComparison, Finish, Fail
  <2> QED
    BY <2>1, <2>2, <2>3, OthersWarnNoLater DEF UnwarnedCalls, At
<1>4. ASSUME NEW i \in Id, ClearedByHand(i)
      PROVE  WarningInv'
  BY <1>4 DEF ClearedByHand, WarningInv, WarnedInTime, UnwarnedRows, UnwarnedCalls, At
<1> QED
  BY <1>1, <1>2, <1>3, <1>4, CountedBeforeDeciding, RecordingCounts DEF Next

(***************************************************************************)
(* The captures of a lease are counted before a picture is taken and its   *)
(* row written after (pages.ts, decideCapture; capture-store.ts): with any *)
(* number of processes, the pictures a lease has without a warning, taken  *)
(* and under way, are never more than the threshold and one for each other *)
(* process.                                                                *)
(***************************************************************************)
THEOREM WarningIsBounded == Spec => []WarningLateByOthersAtMost
<1>1. Init => WarningInv
  BY DEF Init, WarningInv, WarnedInTime, UnwarnedRows, UnwarnedCalls, At
<1>2. WarningInv => WarningLateByOthersAtMost
  BY DEF WarningInv, WarnedInTime, UnwarnedRows, UnwarnedCalls, WarningLateByOthersAtMost
<1> QED
  BY <1>1, <1>2, StartsRight, StepsKeep, StepsWarnInTime, PTL DEF Spec

-----------------------------------------------------------------------------
(* Whose what is drawn is.                                                 *)

\* A picture has been taken and may still be recorded or compared.
Busy(p) == At(p, "written") \/ At(p, "recorded") \/ At(p, "drawn")

\* What is drawn on disk under an identifier, and what was found of the same two pictures.
FoundOfDrawn(id, figures) ==
  \E s, t \in Shot :
    /\ drawn[id] = <<s, t>> /\ Geometry[s][t].comparable /\ figures = Figures[s][t]

\* An identifier is one call's or one comparison's.
OwnIds ==
  /\ \A p \in Process : Busy(p) =>
       /\ call[p].id \in Id /\ files[call[p].id] # Null /\ call[p].claim \in Claim
       /\ \A r \in comparisons : r.source # call[p].id
  /\ \A p, q \in Process : p # q /\ Busy(p) /\ Busy(q) => call[p].id # call[q].id
  /\ \A r \in comparisons :
       /\ r.claim \in Claim /\ r.source \in Id /\ files[r.source] # Null
       /\ \A r2 \in comparisons : r2.source = r.source => r2 = r

FiguresOfDrawn ==
  /\ \A p \in Process : At(p, "drawn") => FoundOfDrawn(call[p].id, call[p].figures)
  /\ \A r \in comparisons : FoundOfDrawn(r.source, r.figures)

DrawnInv == OwnIds /\ FiguresOfDrawn

\* Each call goes on to be none, or to have the identifier and the lease it had.
LEMMA OwnIdsLast ==
  ASSUME CapturesInv, DrawnInv, NEW p \in Process, comparisons' = comparisons,
         \A i \in Id : files[i] # Null => files'[i] # Null,
         \A q \in Process \ {p} : call'[q] = call[q],
         Busy(p)' => Busy(p) /\ call'[p].id = call[p].id /\ call'[p].claim = call[p].claim
  PROVE  OwnIds'
<1>1. \A q \in Process :
        Busy(q)' => Busy(q) /\ call'[q].id = call[q].id /\ call'[q].claim = call[q].claim
  BY DEF Busy, At
<1>2. \A q \in Process : Busy(q)' =>
        /\ call'[q].id \in Id /\ files'[call'[q].id] # Null /\ call'[q].claim \in Claim
        /\ \A r \in comparisons : r.source # call'[q].id
  BY <1>1 DEF DrawnInv, OwnIds
<1>3. \A q, r \in Process : q # r /\ Busy(q)' /\ Busy(r)' => call'[q].id # call'[r].id
  BY <1>1 DEF DrawnInv, OwnIds
<1>4. \A r \in comparisons :
        /\ r.claim \in Claim /\ r.source \in Id /\ files'[r.source] # Null
        /\ \A r2 \in comparisons : r2.source = r.source => r2 = r
  BY DEF DrawnInv, OwnIds
<1> QED
  BY <1>2, <1>3, <1>4 DEF OwnIds

\* What nobody draws over is still of the pictures it was of.
LEMMA DrawnLasts ==
  ASSUME CapturesInv, DrawnInv, NEW p \in Process, comparisons' = comparisons, drawn' = drawn,
         \A q \in Process \ {p} : call'[q] = call[q],
         ~At(p, "drawn")'
  PROVE  FiguresOfDrawn'
<1>1. \A q \in Process : At(q, "drawn")' => At(q, "drawn") /\ call'[q] = call[q]
  BY DEF At
<1>2. \A id, figures : FoundOfDrawn(id, figures)' <=> FoundOfDrawn(id, figures)
  BY DEF FoundOfDrawn
<1>3. \A q \in Process : At(q, "drawn")' =>
        \E s, t \in Shot : /\ drawn'[call'[q].id] = <<s, t>> /\ Geometry[s][t].comparable
                           /\ call'[q].figures = Figures[s][t]
  <2> SUFFICES ASSUME NEW q \in Process, At(q, "drawn")'
               PROVE  \E s, t \in Shot :
                        /\ drawn'[call'[q].id] = <<s, t>> /\ Geometry[s][t].comparable
                        /\ call'[q].figures = Figures[s][t]
    OBVIOUS
  <2>1. At(q, "drawn") /\ call'[q] = call[q]
    BY <1>1
  <2>2. FoundOfDrawn(call[q].id, call[q].figures)
    BY <2>1 DEF DrawnInv, FiguresOfDrawn
  <2> QED
    BY <2>1, <2>2 DEF FoundOfDrawn
<1>4. \A r \in comparisons' :
        \E s, t \in Shot : /\ drawn'[r.source] = <<s, t>> /\ Geometry[s][t].comparable
                           /\ r.figures = Figures[s][t]
  BY DEF DrawnInv, FiguresOfDrawn, FoundOfDrawn
<1> QED
  BY <1>3, <1>4 DEF FiguresOfDrawn, FoundOfDrawn

LEMMA TakingKeepsDrawn ==
  ASSUME CapturesInv, DrawnInv, NEW p \in Process, NEW page \in Page, TakeCapture(p, page)
  PROVE  DrawnInv'
<1> DEFINE shot == ShotOf(page, call[p].request)
           New(i) == [step |-> "written", claim |-> call[p].claim, id |-> i, shot |-> shot,
                      target |-> call[p].target, proven |-> call[p].proven,
                      warned |-> call[p].warned]
<1>0. PICK i \in Id :
        /\ files[i] = Null /\ files' = [files EXCEPT ![i] = shot]
        /\ call' = [call EXCEPT ![p] = New(i)]
  BY DEF TakeCapture
<1> DEFINE new == New(i)
<1>1. /\ files[i] = Null /\ files' = [files EXCEPT ![i] = shot]
      /\ call' = [call EXCEPT ![p] = new]
      /\ new.step = "written" /\ new.id = i /\ new.claim = call[p].claim
  BY <1>0
<1> HIDE DEF new, New
<1>2. UNCHANGED <<captures, drawn, comparisons>>
  BY DEF TakeCapture
<1>3. call[p].claim \in Claim /\ shot \in Shot
  BY DEF TakeCapture, CapturesInv, Underway, Shot
<1> HIDE DEF shot
<1>4. call'[p] = new /\ \A q \in Process \ {p} : call'[q] = call[q]
  BY <1>1 DEF CapturesInv, Typed
<1>5. /\ files'[i] # Null /\ \A j \in Id \ {i} : files'[j] = files[j]
      /\ \A j \in Id : files[j] # Null => files'[j] # Null
  BY <1>1, <1>3, MarkersAssumption DEF CapturesInv, Typed
<1>6. \A q \in Process \ {p} : Busy(q)' => Busy(q) /\ call'[q] = call[q]
  BY <1>4 DEF Busy, At
<1>7. \A q \in Process \ {p} : Busy(q) =>
        /\ call[q].id \in Id \ {i} /\ call[q].claim \in Claim /\ files[call[q].id] # Null
        /\ \A r \in comparisons : r.source # call[q].id
  BY <1>1 DEF DrawnInv, OwnIds
<1>8. \A r \in comparisons : r.source # i
  BY <1>1 DEF DrawnInv, OwnIds
<1>9. \A q \in Process : Busy(q)' =>
        /\ call'[q].id \in Id /\ files'[call'[q].id] # Null /\ call'[q].claim \in Claim
        /\ \A r \in comparisons : r.source # call'[q].id
  <2> SUFFICES ASSUME NEW q \in Process, Busy(q)'
               PROVE  /\ call'[q].id \in Id /\ files'[call'[q].id] # Null
                      /\ call'[q].claim \in Claim
                      /\ \A r \in comparisons : r.source # call'[q].id
    OBVIOUS
  <2>1. CASE q = p
    BY <1>1, <1>3, <1>4, <1>5, <1>8, <2>1
  <2>2. CASE q # p
    BY <1>5, <1>6, <1>7, <2>2
  <2> QED
    BY <2>1, <2>2
<1>10. \A q, r \in Process : q # r /\ Busy(q)' /\ Busy(r)' => call'[q].id # call'[r].id
  <2> SUFFICES ASSUME NEW q \in Process, NEW r \in Process, q # r, Busy(q)', Busy(r)'
               PROVE  call'[q].id # call'[r].id
    OBVIOUS
  <2>1. CASE q = p \/ r = p
    BY <1>1, <1>4, <1>6, <1>7, <2>1
  <2>2. CASE q # p /\ r # p
    BY <1>6, <2>2 DEF DrawnInv, OwnIds
  <2> QED
    BY <2>1, <2>2
<1>11. OwnIds'
  <2>1. \A r \in comparisons :
          /\ r.claim \in Claim /\ r.source \in Id /\ files'[r.source] # Null
          /\ \A r2 \in comparisons : r2.source = r.source => r2 = r
    BY <1>5 DEF DrawnInv, OwnIds
  <2> QED
    BY <1>2, <1>9, <1>10, <2>1 DEF OwnIds
<1>12. ~At(p, "drawn")'
  BY <1>1, <1>4 DEF At
<1> QED
  BY <1>2, <1>4, <1>11, <1>12, DrawnLasts DEF DrawnInv

LEMMA DrawingKeepsDrawn ==
  ASSUME CapturesInv, DrawnInv, NEW p \in Process, Draw(p)
  PROVE  DrawnInv'
<1> DEFINE c == call[p]
           i == c.id
           new == Measured(c)
           s == files[c.target]
           t == c.shot
<1>1. /\ drawn' = [drawn EXCEPT ![i] = <<s, t>>] /\ call' = [call EXCEPT ![p] = new]
      /\ UNCHANGED <<files, captures, comparisons>>
  BY DEF Draw
<1>2. /\ new.step = "drawn" /\ new.id = i /\ new.claim = c.claim /\ new.figures = Figures[s][t]
  BY DEF Measured
<1>3. Busy(p) /\ i \in Id /\ s \in Shot /\ t \in Shot /\ Geometry[s][t].comparable
  BY DEF Draw, Busy, Readable, Pair, CapturesInv, Underway
<1> HIDE DEF new, c, i, s, t
<1>4. call'[p] = new /\ \A q \in Process \ {p} : call'[q] = call[q]
  BY <1>1 DEF CapturesInv, Typed
<1>5. drawn'[i] = <<s, t>> /\ \A j \in Id \ {i} : drawn'[j] = drawn[j]
  BY <1>1, <1>3 DEF CapturesInv, Typed
<1>6. OwnIds'
  BY <1>1, <1>2, <1>3, <1>4, OwnIdsLast DEF c, i
<1>7. \A q \in Process : At(q, "drawn")' =>
        \E a, b \in Shot : /\ drawn'[call'[q].id] = <<a, b>> /\ Geometry[a][b].comparable
                           /\ call'[q].figures = Figures[a][b]
  <2> SUFFICES ASSUME NEW q \in Process, At(q, "drawn")'
               PROVE  \E a, b \in Shot :
                        /\ drawn'[call'[q].id] = <<a, b>> /\ Geometry[a][b].comparable
                        /\ call'[q].figures = Figures[a][b]
    OBVIOUS
  <2>1. CASE q = p
    BY <1>2, <1>3, <1>4, <1>5, <2>1
  <2>2. CASE q # p
    <3>1. At(q, "drawn") /\ call'[q] = call[q]
      BY <1>4, <2>2 DEF At
    <3>2. call[q].id \in Id /\ call[q].id # i
      BY <1>3, <2>2, <3>1 DEF DrawnInv, OwnIds, Busy, c, i
    <3>3. FoundOfDrawn(call[q].id, call[q].figures)
      BY <3>1 DEF DrawnInv, FiguresOfDrawn
    <3> QED
      BY <1>5, <3>1, <3>2, <3>3 DEF FoundOfDrawn
  <2> QED
    BY <2>1, <2>2
<1>8. \A r \in comparisons :
        \E a, b \in Shot : /\ drawn'[r.source] = <<a, b>> /\ Geometry[a][b].comparable
                           /\ r.figures = Figures[a][b]
  <2>1. \A r \in comparisons : r.source \in Id \ {i}
    BY <1>3 DEF DrawnInv, OwnIds, c, i
  <2> QED
    BY <1>5, <2>1 DEF DrawnInv, FiguresOfDrawn, FoundOfDrawn
<1>9. FiguresOfDrawn'
  BY <1>1, <1>7, <1>8 DEF FiguresOfDrawn, FoundOfDrawn
<1> QED
  BY <1>6, <1>9 DEF DrawnInv

LEMMA RecordingKeepsDrawn ==
  ASSUME CapturesInv, DrawnInv, NEW p \in Process, RecordComparison(p)
  PROVE  DrawnInv'
<1> DEFINE c == call[p]
           row == [source |-> c.id, target |-> c.target, claim |-> c.claim,
                   figures |-> c.figures]
           new == Answered(c, c.answer)
<1>1. /\ comparisons' = comparisons \cup {row} /\ call' = [call EXCEPT ![p] = new]
      /\ UNCHANGED <<files, captures, drawn>>
  BY DEF RecordComparison
<1>2. new.step = "answered"
  BY DEF Answered
<1>3. row.source = c.id /\ row.claim = c.claim /\ row.figures = c.figures
  OBVIOUS
<1>4. Busy(p) /\ At(p, "drawn")
  BY DEF RecordComparison, Busy
<1> HIDE DEF new, row
<1>5. call'[p] = new /\ \A q \in Process \ {p} : call'[q] = call[q]
  BY <1>1 DEF CapturesInv, Typed
<1>6. \A q \in Process : Busy(q)' => q # p /\ Busy(q) /\ call'[q] = call[q]
  BY <1>2, <1>5 DEF Busy, At
<1>7. /\ c.id \in Id /\ files[c.id] # Null /\ c.claim \in Claim
      /\ \A r \in comparisons : r.source # c.id
      /\ \A q \in Process \ {p} : Busy(q) => call[q].id # c.id
      /\ FoundOfDrawn(c.id, c.figures)
  BY <1>4 DEF DrawnInv, OwnIds, FiguresOfDrawn
<1> HIDE DEF c
<1>8. \A q \in Process : Busy(q)' =>
        /\ call'[q].id \in Id /\ files'[call'[q].id] # Null /\ call'[q].claim \in Claim
        /\ \A r \in comparisons' : r.source # call'[q].id
  BY <1>1, <1>3, <1>6, <1>7 DEF DrawnInv, OwnIds
<1>9. \A q, r \in Process : q # r /\ Busy(q)' /\ Busy(r)' => call'[q].id # call'[r].id
  BY <1>6 DEF DrawnInv, OwnIds
<1>10. \A r \in comparisons' :
         /\ r.claim \in Claim /\ r.source \in Id /\ files'[r.source] # Null
         /\ \A r2 \in comparisons' : r2.source = r.source => r2 = r
  BY <1>1, <1>3, <1>7 DEF DrawnInv, OwnIds
<1>11. OwnIds'
  BY <1>8, <1>9, <1>10 DEF OwnIds
<1>12. \A q \in Process : At(q, "drawn")' => At(q, "drawn") /\ call'[q] = call[q]
  BY <1>2, <1>5 DEF At
<1>13. \A q \in Process : At(q, "drawn")' =>
         \E a, b \in Shot : /\ drawn'[call'[q].id] = <<a, b>> /\ Geometry[a][b].comparable
                            /\ call'[q].figures = Figures[a][b]
  BY <1>1, <1>12 DEF DrawnInv, FiguresOfDrawn, FoundOfDrawn
<1>14. \A r \in comparisons' :
         \E a, b \in Shot : /\ drawn'[r.source] = <<a, b>> /\ Geometry[a][b].comparable
                            /\ r.figures = Figures[a][b]
  BY <1>1, <1>3, <1>7 DEF DrawnInv, FiguresOfDrawn, FoundOfDrawn
<1>15. FiguresOfDrawn'
  BY <1>13, <1>14 DEF FiguresOfDrawn, FoundOfDrawn
<1> QED
  BY <1>11, <1>15 DEF DrawnInv

\* A call that draws nothing and records no comparison.
LEMMA OthersKeepDrawn ==
  ASSUME CapturesInv, DrawnInv, NEW p \in Process, NEW new,
         UNCHANGED <<files, drawn, comparisons>>, call' = [call EXCEPT ![p] = new],
         new = Null \/ new.step \in {"decided", "answered"}
           \/ (Busy(p) /\ new.step = "recorded" /\ new.id = call[p].id
                 /\ new.claim = call[p].claim)
  PROVE  DrawnInv'
<1>1. call'[p] = new /\ \A q \in Process \ {p} : call'[q] = call[q]
  BY DEF CapturesInv, Typed
<1>2. ~At(p, "drawn")'
  BY <1>1 DEF At
<1>3. Busy(p)' => Busy(p) /\ call'[p].id = call[p].id /\ call'[p].claim = call[p].claim
  BY <1>1 DEF Busy, At
<1>4. OwnIds'
  BY <1>1, <1>3, OwnIdsLast
<1> QED
  BY <1>1, <1>2, <1>4, DrawnLasts DEF DrawnInv

LEMMA StepsKeepDrawn ==
  ASSUME CapturesInv, DrawnInv, [Next]_vars
  PROVE  DrawnInv'
<1>1. CASE UNCHANGED vars
  BY <1>1 DEF vars, DrawnInv, OwnIds, FiguresOfDrawn, FoundOfDrawn, Busy, At
<1>2. ASSUME NEW i \in Id, ClearedByHand(i)
      PROVE  DrawnInv'
  <2>1. \A j \in Id : files[j] # Null => files'[j] # Null
    BY <1>2, MarkersAssumption DEF ClearedByHand, CapturesInv, Typed
  <2> QED
    BY <1>2, <2>1 DEF ClearedByHand, DrawnInv, OwnIds, FiguresOfDrawn, FoundOfDrawn, Busy, At
<1>3. ASSUME NEW p \in Process, NEW c \in Claim, NEW r \in Requests, NEW target \in Targets,
             Decide(p, c, r, target)
      PROVE  DrawnInv'
  <2> DEFINE new == [step |-> "decided", claim |-> c, request |-> r, target |-> target[1],
                     proven |-> target[2], warned |-> Warned(CapturesTakenBy(c))]
  <2>1. call' = [call EXCEPT ![p] = new] /\ UNCHANGED <<files, drawn, comparisons>>
    BY <1>3 DEF Decide
  <2>2. new.step = "decided"
    OBVIOUS
  <2> HIDE DEF new
  <2> QED
    BY <2>1, <2>2, OthersKeepDrawn
<1>4. ASSUME NEW p \in Process, RecordCapture(p)
      PROVE  DrawnInv'
  <2> DEFINE new == IF call[p].target = Null THEN Null
                    ELSE [call[p] EXCEPT !.step = "recorded", !.warned = FALSE]
  <2>1. call' = [call EXCEPT ![p] = new] /\ UNCHANGED <<files, drawn, comparisons>>
    BY <1>4 DEF RecordCapture
  <2>2. "step" \in DOMAIN call[p] /\ Busy(p)
    BY <1>4 DEF RecordCapture, Busy, CapturesInv, Underway
  <2>3. \/ new = Null
        \/ /\ new.step = "recorded" /\ new.id = call[p].id
           /\ new.claim = call[p].claim
    BY <2>2
  <2> HIDE DEF new
  <2> QED
    BY <2>1, <2>2, <2>3, OthersKeepDrawn
<1>5. ASSUME NEW p \in Process, Decline(p) \/ Finish(p) \/ Fail(p)
      PROVE  DrawnInv'
  <2>1. PICK new : /\ call' = [call EXCEPT ![p] = new]
                   /\ new = Null \/ new.step = "answered"
    BY <1>5 DEF Decline, Finish, Fail, Answered
  <2>2. UNCHANGED <<files, drawn, comparisons>>
    BY <1>5 DEF Decline, Finish, Fail
  <2> QED
    BY <2>1, <2>2, OthersKeepDrawn
<1> QED
  BY <1>1, <1>2, <1>3, <1>4, <1>5, TakingKeepsDrawn, DrawingKeepsDrawn, RecordingKeepsDrawn
     DEF Next

LEMMA NothingDrawnFirst == Init => DrawnInv
BY DEF Init, DrawnInv, OwnIds, FiguresOfDrawn, Busy, At

-----------------------------------------------------------------------------
(* What is read of a command line.                                         *)

\* What can be known of a line whose words are in V.
LineOf(V) ==
  {line \in [ok : BOOLEAN, after : Selectors \cup Options \cup {Null},
             given : [Options -> V], selected : Seq(Selectors \X V)] :
     /\ line.given["index"] # Null => line.given["index"].number \in Nat
     /\ line.given["side"] # Null => line.given["side"].text \in Sides}

LEMMA ReadWordReads ==
  ASSUME NEW V, Null \in V, NEW line \in LineOf(V), NEW word \in V
  PROVE  ReadWord(line, word) \in LineOf(V)
<1> DEFINE next == ReadWord(line, word)
           After == Selectors \cup Options \cup {Null}
           L == [ok : BOOLEAN, after : After, given : [Options -> V],
                 selected : Seq(Selectors \X V)]
<1>1. /\ line \in L
      /\ line.ok \in BOOLEAN /\ line.after \in After
      /\ line.given \in [Options -> V] /\ line.selected \in Seq(Selectors \X V)
      /\ line.given["index"] # Null => line.given["index"].number \in Nat
      /\ line.given["side"] # Null => line.given["side"].text \in Sides
  BY DEF LineOf
<1>2. ASSUME NEW m \in L, m.given = line.given PROVE m \in LineOf(V)
  BY <1>1, <1>2 DEF LineOf
<1>3. CASE ~line.ok
  BY <1>3 DEF ReadWord
<1>4. CASE line.ok /\ line.after # Null
  <2>1. CASE ~Takes(line.after, word)
    <3>1. next = [line EXCEPT !.ok = FALSE]
      BY <1>4, <2>1 DEF ReadWord
    <3>2. [line EXCEPT !.ok = FALSE] \in L /\ [line EXCEPT !.ok = FALSE].given = line.given
      BY <1>1
    <3> QED
      BY <1>2, <3>1, <3>2
  <2>2. CASE Takes(line.after, word) /\ line.after \in Selectors
    <3> DEFINE pair == <<line.after, word>>
               m == [line EXCEPT !.after = Null, !.selected = Append(@, pair)]
    <3>1. next = m
      BY <1>4, <2>2 DEF ReadWord
    <3>2. Append(line.selected, pair) \in Seq(Selectors \X V)
      BY <1>1, <2>2
    <3>3. m = [line EXCEPT !.after = Null, !.selected = Append(line.selected, pair)]
      BY <1>1
    <3> HIDE DEF pair
    <3>4. m \in L /\ m.given = line.given
      BY <1>1, <3>2, <3>3
    <3> HIDE DEF m, next, L
    <3>5. m \in LineOf(V)
      BY <1>2, <3>4
    <3> QED
      BY <3>1, <3>5 DEF next
  <2>3. CASE Takes(line.after, word) /\ line.after \notin Selectors
    <3> DEFINE g == [line.given EXCEPT ![line.after] = word]
               m == [line EXCEPT !.after = Null, !.given = g]
    <3>1. next = m
      <4>1. next = [line EXCEPT !.after = Null, !.given[line.after] = word]
        BY <1>4, <2>3 DEF ReadWord
      <4> QED
        BY <1>1, <4>1
    <3>2. line.after \in Options
      BY <1>1, <1>4, <2>3
    <3>3. g \in [Options -> V]
      BY <1>1, <3>2
    <3>4. /\ g[line.after] = word
         /\ \A option \in Options : option # line.after => g[option] = line.given[option]
      BY <1>1, <3>2
    <3>5. {"index", "side"} \subseteq Options
      BY DEF Options
    <3>6. line.after = "index" => word.number \in Nat
      BY <2>3 DEF Takes, Selectors
    <3>7. line.after = "side" => word.text \in Sides
      BY <2>3 DEF Takes, Selectors, Text
    <3> HIDE DEF g
    <3>8. g["index"] # Null => g["index"].number \in Nat
      BY <1>1, <3>4, <3>5, <3>6
    <3>9. g["side"] # Null => g["side"].text \in Sides
      BY <1>1, <3>4, <3>5, <3>7
    <3>10. m \in L /\ m.given = g
      BY <1>1, <3>3
    <3> HIDE DEF m
    <3> QED
      BY <3>1, <3>8, <3>9, <3>10 DEF LineOf
  <2> QED
    BY <2>1, <2>2, <2>3
<1>5. CASE line.ok /\ line.after = Null
  <2>1. \/ next = line
        \/ next = [line EXCEPT !.ok = FALSE]
        \/ /\ word.flag \in Selectors \cup Options
           /\ next = [line EXCEPT !.after = word.flag]
    <3>1. CASE word = Flag("json")
      BY <1>5, <3>1 DEF ReadWord
    <3>2. CASE word # Flag("json")
      BY <1>5, <3>2 DEF ReadWord
    <3> QED
      BY <3>1, <3>2
  <2>2. next \in L /\ next.given = line.given
    <3> HIDE DEF next
    <3> QED
      BY <1>1, <2>1
  <2> QED
    BY <1>2, <2>2
<1> QED
  BY <1>1, <1>3, <1>4, <1>5

LEMMA LinesAreRead ==
  ASSUME NEW argv, argv \in Seq(Range(argv))
  PROVE  Read(argv) \in LineOf(Range(argv) \cup {Null})
<1> DEFINE N == Len(argv)
           S == 0 .. N
           V == Range(argv) \cup {Null}
           T == LineOf(V)
           stop == {0}
           base == [n \in S |-> Unread]
           prev == [n \in S |-> IF n = 0 THEN 0 ELSE n - 1]
           comb == [z \in S \X T |-> IF z[1] = 0 THEN Unread ELSE ReadWord(z[2], argv[z[1]])]
           size == [n \in S |-> n]
           Is(f) == f = [n \in S |-> IF n = 0 THEN Unread ELSE ReadWord(f[n - 1], argv[n])]
<1>1. N \in Nat /\ \A n \in S \ {0} : argv[n] \in V
  BY DEF Range
<1>2. Unread \in T
  <2>1. [option \in Options |-> Null] \in [Options -> V]
    OBVIOUS
  <2> QED
    BY <2>1 DEF LineOf, Unread, Options
<1> HIDE DEF N, V, T
<1>3. prev \in [S -> S] /\ size \in [S -> Nat] /\ \A n \in S \ stop : size[prev[n]] < size[n]
  BY <1>1
<1>4. \E f : Recursion(f, S, stop, base, prev, comb)
  <2> HIDE DEF base, prev, comb, size, stop, S
  <2> QED
    BY <1>3, RecursionExists
<1>5. PICK f : Recursion(f, S, stop, base, prev, comb)
  BY <1>4
<1>6. f = [n \in S |-> IF n \in stop THEN base[n] ELSE comb[<<n, f[prev[n]]>>]]
  BY <1>5 DEF Recursion
<1>7. \A n \in S : f[n] = IF n = 0 THEN Unread ELSE comb[<<n, f[n - 1]>>]
  <2> HIDE DEF comb
  <2> QED
    BY <1>6
<1>8. ASSUME NEW g, NEW n \in S, n = 0 \/ g[n - 1] \in T,
             g[n] = IF n = 0 THEN Unread ELSE ReadWord(g[n - 1], argv[n])
      PROVE  g[n] \in T
  <2>1. CASE n = 0
    BY <1>2, <1>8, <2>1
  <2>2. CASE n # 0
    <3>1. argv[n] \in V /\ Null \in V
      BY <1>1, <2>2 DEF V
    <3>2. ReadWord(g[n - 1], argv[n]) \in T
      BY <1>8, <2>2, <3>1, ReadWordReads DEF T
    <3> QED
      BY <1>8, <2>2, <3>2
  <2> QED
    BY <2>1, <2>2
<1>9. ASSUME NEW n \in S, n = 0 \/ f[n - 1] \in T
      PROVE  f[n] = IF n = 0 THEN Unread ELSE ReadWord(f[n - 1], argv[n])
  BY <1>7, <1>9
<1>10. ASSUME NEW g, \A n \in S : (n = 0 \/ g[n - 1] \in T) => g[n] \in T
       PROVE  \A n \in S : g[n] \in T
  <2> DEFINE G == {n \in S : g[n] \in T}
  <2>1. ASSUME NEW n \in S, \A m \in S : size[m] < size[n] => m \in G
        PROVE  n \in G
    <3>1. CASE n = 0
      BY <1>10, <3>1
    <3>2. CASE n # 0
      <4>1. n - 1 \in S /\ size[n - 1] < size[n]
        BY <1>1, <3>2
      <4> QED
        BY <1>10, <2>1, <4>1
    <3> QED
      BY <3>1, <3>2
  <2> HIDE DEF G, size
  <2>2. \A n \in S : n \in G
    BY <1>3, <2>1, BySize
  <2> QED
    BY <2>2 DEF G
<1>11. \A n \in S : f[n] \in T
  <2>1. \A n \in S : (n = 0 \/ f[n - 1] \in T) => f[n] \in T
    BY <1>8, <1>9
  <2> QED
    BY <1>10, <2>1
<1>12. \E g : Is(g)
  <2>1. \A n \in S : n = 0 \/ f[n - 1] \in T
    <3>1. \A n \in S : n = 0 \/ n - 1 \in S
      BY <1>1
    <3> HIDE DEF S
    <3> QED
      BY <1>11, <3>1
  <2>2. \A n \in S : f[n] = IF n = 0 THEN Unread ELSE ReadWord(f[n - 1], argv[n])
    BY <1>9, <2>1
  <2>3. f = [n \in S |-> f[n]]
    <3> HIDE DEF base, comb, prev, stop
    <3> QED
      BY <1>6
  <2>4. f = [n \in S |-> IF n = 0 THEN Unread ELSE ReadWord(f[n - 1], argv[n])]
    BY <2>2, <2>3
  <2> QED
    BY <2>4
<1> DEFINE lines == Lines(argv)
<1>13. lines = CHOOSE g : Is(g)
  BY DEF Lines, N
<1>14. Is(lines)
  <2> HIDE DEF Is, lines
  <2> QED
    BY <1>12, <1>13
<1> HIDE DEF lines
<1>15. \A n \in S : lines[n] = IF n = 0 THEN Unread ELSE ReadWord(lines[n - 1], argv[n])
  BY <1>14
<1>16. \A n \in S : lines[n] \in T
  <2>1. \A n \in S : (n = 0 \/ lines[n - 1] \in T) => lines[n] \in T
    BY <1>8, <1>15
  <2> QED
    BY <1>10, <2>1
<1>17. Read(argv) = lines[N]
  BY DEF Read, lines, N
<1>18. lines[N] \in T
  <2>1. N \in S
    BY <1>1
  <2> QED
    BY <1>16, <2>1
<1> QED
  BY <1>17, <1>18 DEF T, V

\* What is asked for is a place in a list, counted from zero, and a side.
LEMMA AskedIsAPlace ==
  ASSUME NEW q \in Asked
  PROVE  q.index \in Nat /\ q.side \in Sides
<1>1. PICK argv \in ImageLines : q = ParseImageArguments(argv) /\ q # Malformed
  BY DEF Asked
<1> DEFINE line == Read(argv)
           Has(f) == line.given[f] # Null
           chosen == line.selected[1]
<1>2. line \in LineOf(Range(argv) \cup {Null})
  BY ImagesAssumption, LinesAreRead
<1>3. q = [ok |-> TRUE, key |-> line.given["lease-key"], out |-> line.given["out"],
           kind |-> chosen[1], id |-> chosen[2],
           index |-> IF Has("index") THEN line.given["index"].number ELSE 0,
           side  |-> IF Has("side") THEN line.given["side"].text ELSE "after"]
  BY <1>1 DEF ParseImageArguments
<1> HIDE DEF line
<1>4. /\ Has("index") => line.given["index"].number \in Nat
      /\ Has("side") => line.given["side"].text \in Sides
  BY <1>2 DEF LineOf
<1>5. "after" \in Sides
  BY DEF Sides
<1>6. /\ q.index = IF Has("index") THEN line.given["index"].number ELSE 0
      /\ q.side = IF Has("side") THEN line.given["side"].text ELSE "after"
  BY <1>3
<1> QED
  BY <1>4, <1>5, <1>6

-----------------------------------------------------------------------------
(* What the files show.                                                    *)

\* All places, in order, are the sequence.
LEMMA AllPlaces ==
  ASSUME NEW s \in Seq(Region), NEW places, places = DOMAIN s
  PROVE  InPlaces(s, places) = s
<1> DEFINE n == Len(s)
           before == {b \in places \X places : b[1] < b[2]}
           Ahead(x) == {y \in places : <<y, x>> \in before}
           o == Listing(places, before)
<1>1. n \in Nat /\ places = 1 .. n /\ s = [i \in 1 .. n |-> s[i]]
  OBVIOUS
<1>2. Cardinality(places) = n
  BY <1>1, UpTo
<1> HIDE DEF n
<1>3. \A x \in places : Cardinality(Ahead(x)) = x - 1
  <2> SUFFICES ASSUME NEW x \in places PROVE Cardinality(Ahead(x)) = x - 1
    OBVIOUS
  <2>1. \A y \in places : <<y, x>> \in before <=> y < x
    OBVIOUS
  <2> HIDE DEF before
  <2>2. x - 1 \in Nat /\ Ahead(x) = 1 .. x - 1
    BY <1>1, <2>1
  <2> QED
    BY <2>2, UpTo
<1>4. o = [i \in 1 .. n |-> CHOOSE x \in places : Cardinality(Ahead(x)) = i - 1]
  BY <1>2 DEF Listing
<1>5. InPlaces(s, places) = [i \in DOMAIN o |-> s[o[i]]]
  BY DEF InPlaces
<1> HIDE DEF Ahead, o, before
<1>6. ASSUME NEW i \in 1 .. n PROVE o[i] = i
  <2>1. i \in places /\ Cardinality(Ahead(i)) = i - 1
    BY <1>1, <1>3
  <2>2. o[i] \in places /\ Cardinality(Ahead(o[i])) = i - 1
    BY <1>4, <2>1
  <2>3. o[i] - 1 = i - 1
    BY <1>3, <2>2
  <2> QED
    BY <1>1, <2>2, <2>3
<1>7. DOMAIN o = 1 .. n
  BY <1>4
<1> QED
  BY <1>1, <1>5, <1>6, <1>7

\* A crop shows every pixel that was counted of its region.
LEMMA CropShows ==
  ASSUME NEW earlier, NEW current, NEW H \in Nat, current.width \in Nat,
         NEW U \in SUBSET Mask(earlier, current, H), U # {},
         NEW box \in PaddedRectangle(BoxOf(U), current.width, H)
  PROVE  ShowChange([before |-> Crop(earlier, box), after |-> Crop(current, box)], BoxOf(U))
<1> DEFINE W == current.width
           b == BoxOf(U)
           old == Crop(earlier, box)
           new == Crop(current, box)
           mask == Mask(old, new, new.height)
           pixels == Pixels(box.width, box.height)
           Differs(m, n) == Larger(m - n, -(m - n)) > ColourTolerance
<1>1. U \in SUBSET Pixels(W, H) /\ \A p \in U : Differs(earlier.shade[p], current.shade[p])
  BY DEF Mask
<1>2. /\ b.x \in Nat /\ b.y \in Nat /\ b.width \in Nat /\ b.height \in Nat
      /\ b.x + b.width <= W /\ b.y + b.height <= H
      /\ b.changedPixels = Cardinality(U)
      /\ \A p \in U : b.x <= p[1] /\ p[1] < b.x + b.width /\ b.y <= p[2] /\ p[2] < b.y + b.height
  BY <1>1, BoxBounds DEF Bounds, Region
<1>3. CropPadding \in Nat
  BY PicturesAssumption
<1> HIDE DEF b
<1> DEFINE left == Larger(0, b.x - CropPadding)
           top == Larger(0, b.y - CropPadding)
           right == Smaller(W, b.x + b.width + CropPadding)
           bottom == Smaller(H, b.y + b.height + CropPadding)
<1>4. /\ box = [x |-> left, y |-> top, width |-> right - left, height |-> bottom - top]
      /\ box.width > 0 /\ box.height > 0
  BY DEF PaddedRectangle, b
<1>5. /\ box.x = left /\ box.y = top /\ box.width = right - left /\ box.height = bottom - top
  BY <1>4
<1>6. /\ left \in Nat /\ top \in Nat /\ right \in Nat /\ bottom \in Nat
      /\ left <= b.x /\ b.x + b.width <= right
      /\ top <= b.y /\ b.y + b.height <= bottom
  BY <1>2, <1>3 DEF Larger, Smaller
<1> HIDE DEF left, top, right, bottom
<1>7. box.width \in Nat /\ box.height \in Nat
  BY <1>4, <1>5, <1>6
<1>8. /\ old.shade = [p \in pixels |-> earlier.shade[<<box.x + p[1], box.y + p[2]>>]]
      /\ new.shade = [p \in pixels |-> current.shade[<<box.x + p[1], box.y + p[2]>>]]
      /\ new.width = box.width /\ new.height = box.height
  BY DEF Crop
<1>9. DOMAIN old.shade = DOMAIN new.shade
  BY <1>8
<1>10. mask = {p \in pixels : Differs(old.shade[p], new.shade[p])}
  BY <1>8 DEF Mask
<1> DEFINE f == [p \in U |-> <<p[1] - box.x, p[2] - box.y>>]
           T == {f[p] : p \in U}
<1> HIDE DEF old, new, mask, Differs
<1>11. ASSUME NEW p \in U
       PROVE  /\ f[p] \in pixels /\ f[p][1] = p[1] - box.x /\ f[p][2] = p[2] - box.y
              /\ <<box.x + f[p][1], box.y + f[p][2]>> = p
              /\ p[1] \in Nat /\ p[2] \in Nat /\ p = <<p[1], p[2]>>
  <2>1. p[1] \in Nat /\ p[2] \in Nat /\ p = <<p[1], p[2]>>
    BY <1>1, <1>2 DEF Pixels
  <2>2. f[p] = <<p[1] - box.x, p[2] - box.y>>
    OBVIOUS
  <2>3. p[1] - box.x \in 0 .. box.width - 1 /\ p[2] - box.y \in 0 .. box.height - 1
    BY <1>2, <1>5, <1>6, <2>1
  <2>4. f[p] \in pixels
    BY <2>2, <2>3 DEF Pixels
  <2>5. box.x + (p[1] - box.x) = p[1] /\ box.y + (p[2] - box.y) = p[2]
    BY <1>5, <1>6, <2>1
  <2> QED
    BY <2>1, <2>2, <2>4, <2>5
<1> HIDE DEF pixels, W
<1>12. ASSUME NEW p \in U PROVE f[p] \in mask
  <2>1. old.shade[f[p]] = earlier.shade[p] /\ new.shade[f[p]] = current.shade[p]
    <3> DEFINE g == f[p]
    <3>1. g \in pixels /\ <<box.x + g[1], box.y + g[2]>> = p
      BY <1>11
    <3> HIDE DEF g, f
    <3>2. /\ old.shade[g] = earlier.shade[<<box.x + g[1], box.y + g[2]>>]
          /\ new.shade[g] = current.shade[<<box.x + g[1], box.y + g[2]>>]
      BY <1>8, <3>1
    <3> QED
      BY <3>1, <3>2 DEF g
  <2> HIDE DEF f
  <2> QED
    BY <1>1, <1>10, <1>11, <2>1
<1>13. \A p, q \in U : p # q => f[p] # f[q]
  <2> SUFFICES ASSUME NEW p \in U, NEW q \in U, f[p] = f[q] PROVE p = q
    OBVIOUS
  <2> HIDE DEF f
  <2> QED
    BY <1>11
<1>14. IsFiniteSet(U) /\ f \in [U -> T] /\ \A z \in T : \E p \in U : f[p] = z
  BY <1>1, <1>2, PixelsAreFinite DEF W
<1>15. T \in SUBSET mask
  BY <1>12
<1> HIDE DEF f, T
<1>16. IsFiniteSet(T) /\ Cardinality(T) = Cardinality(U)
  BY <1>13, <1>14, PairedOff
<1>17. IsFiniteSet(mask) /\ Cardinality(mask) \in Nat
  <2>1. mask \in SUBSET Pixels(box.width, box.height)
    BY <1>10 DEF pixels
  <2> QED
    BY <1>7, <2>1, PixelsAreFinite
<1>18. Cardinality(T) <= Cardinality(mask) /\ Cardinality(T) \in Nat
  BY <1>15, <1>16, <1>17, FS_Subset, FS_CardinalityType
<1>19. Cardinality(mask) >= b.changedPixels
  BY <1>2, <1>16, <1>17, <1>18
<1> QED
  BY <1>9, <1>19 DEF ShowChange, mask, old, new, b

\* Nothing is marked outside the regions.
LEMMA OverlaysAreMarked ==
  ASSUME NEW pic, "shade" \in DOMAIN pic, NEW regions
  PROVE  OnlyMarked(Overlay(pic, regions), pic, regions)
<1> DEFINE overlay == Overlay(pic, regions)
           marked(p) == \E i \in DOMAIN regions : Outlined(p, regions[i])
<1>1. overlay = [pic EXCEPT !.shade = [p \in DOMAIN pic.shade |->
                                         IF marked(p) THEN Red ELSE pic.shade[p]]]
  BY DEF Overlay
<1> HIDE DEF overlay
<1>2. overlay.shade = [p \in DOMAIN pic.shade |-> IF marked(p) THEN Red ELSE pic.shade[p]]
  <2> HIDE DEF marked
  <2> QED
    BY <1>1
<1>3. \A p \in DOMAIN pic.shade : overlay.shade[p] # pic.shade[p] => marked(p)
  BY <1>2
<1>4. \A p \in DOMAIN pic.shade :
        overlay.shade[p] # pic.shade[p] => \E i \in DOMAIN regions : Inside(p, regions[i], 0)
  BY <1>3 DEF Outlined
<1> QED
  BY <1>2, <1>4 DEF OnlyMarked, overlay

\* The regions of a row are those that were kept; each has its crops, which show
\* its change, and the overlay is marked within them.
ShowsAll(s, t) ==
  /\ Figures[s][t].regions = Kept[s][t] /\ Kept[s][t] \in Seq(Region)
  /\ ShownIn(Crops[s][t]) = 1 .. Len(Kept[s][t])
  /\ \A k \in 1 .. Len(Kept[s][t]) : Crops[s][t][k] # {} /\ CropsShow[s][t][k]
  /\ OverlayShows[s][t]

LEMMA KeptAreShown ==
  ASSUME NEW s \in Shot, NEW t \in Shot, Geometry[s][t].comparable
  PROVE  ShowsAll(s, t)
<1> DEFINE earlier == Picture[s]
           current == Picture[t]
           H == Geometry[s][t].height
           mask == Mask(earlier, current, H)
           all == ExtractRegions(mask)
           K == Kept[s][t]
           box(k) == PaddedRectangle(K[k], current.width, H)
           pair(b) == [before |-> Crop(earlier, b), after |-> Crop(current, b)]
<1>1. H \in Nat /\ current.width \in Nat
  BY SharedRows, PicturesAreOfSomeSize
<1>2. K = Cut(all, MaximumRegions)
  BY DEF Kept
<1>3. \A n \in DOMAIN K : PaddedRectangle(K[n], current.width, H) # {}
  <2> HIDE DEF earlier, current, H
  <2> QED
    BY <1>1, <1>2, AllAreShown
<1>4. Figures[s][t] = Compared(earlier, current, H)
  BY DEF Figures
<1>5. Crops[s][t] = [k \in DOMAIN K |-> {pair(b) : b \in box(k)}]
  BY DEF Crops
<1>6. CropsShow[s][t] = [k \in DOMAIN K |-> \A p \in Crops[s][t][k] : ShowChange(p, K[k])]
  BY DEF CropsShow
<1>7. OverlayShows[s][t] /\ "shade" \in DOMAIN current
  <2>1. "shade" \in DOMAIN current
    BY DEF Picture, Downscale
  <2>2. Overlays[s][t] = Overlay(current, K)
    BY DEF Overlays
  <2>3. OverlayShows[s][t] = OnlyMarked(Overlays[s][t], current, K)
    BY DEF OverlayShows
  <2> HIDE DEF current, K
  <2> QED
    BY <2>1, <2>2, <2>3, OverlaysAreMarked
<1> HIDE DEF earlier, current, H, K
<1>8. mask \in SUBSET Pixels(current.width, H)
  BY DEF Mask
<1>9. Extracted(all, mask)
  <2> HIDE DEF mask
  <2> QED
    BY <1>1, <1>8, ExtractedAreRegions
<1>10. Figures[s][t].regions
         = InPlaces(K, {n \in DOMAIN K : PaddedRectangle(K[n], current.width, H) # {}})
  <2> HIDE DEF all
  <2>1. Compared(earlier, current, H).regions
          = InPlaces(K, {n \in DOMAIN K : PaddedRectangle(K[n], current.width, H) # {}})
    BY <1>2 DEF Compared, all
  <2> QED
    BY <1>4, <2>1
<1> HIDE DEF all, mask
<1>11. /\ all \in Seq(Region) /\ Len(all) \in Nat
       /\ \A i \in 1 .. Len(all) : \E U \in SUBSET mask : U # {} /\ all[i] = BoxOf(U)
  BY <1>9 DEF Extracted
<1>12. /\ K \in Seq(Region) /\ DOMAIN K = 1 .. Len(K)
       /\ \A k \in DOMAIN K : k \in 1 .. Len(all) /\ K[k] = all[k]
  BY <1>2, <1>11, PicturesAssumption DEF Cut, Smaller
<1>13. Figures[s][t].regions = K
  <2>1. {n \in DOMAIN K : PaddedRectangle(K[n], current.width, H) # {}} = DOMAIN K
    BY <1>3
  <2> QED
    BY <1>10, <1>12, <2>1, AllPlaces
<1>14. ASSUME NEW k \in DOMAIN K
       PROVE  Crops[s][t][k] # {} /\ CropsShow[s][t][k]
  <2>1. PICK U \in SUBSET mask : U # {} /\ K[k] = BoxOf(U)
    BY <1>11, <1>12
  <2>2. Crops[s][t][k] = {pair(b) : b \in box(k)}
    BY <1>5
  <2>3. box(k) # {}
    BY <1>3
  <2>4. \A b \in box(k) : ShowChange(pair(b), K[k])
    BY <1>1, <2>1, CropShows DEF mask
  <2>5. CropsShow[s][t][k] = (\A p \in Crops[s][t][k] : ShowChange(p, K[k]))
    BY <1>6
  <2> HIDE DEF box, pair
  <2> QED
    BY <2>2, <2>3, <2>4, <2>5
<1>15. ShownIn(Crops[s][t]) = DOMAIN K
  <2>1. DOMAIN Crops[s][t] = DOMAIN K
    BY <1>5
  <2> QED
    BY <1>14, <2>1 DEF ShownIn
<1> QED
  BY <1>7, <1>12, <1>13, <1>14, <1>15 DEF ShowsAll, K

\* The numbers up to m in order.
LEMMA NthOfFirst ==
  ASSUME NEW m \in Nat, NEW i \in Nat
  PROVE  NthOf(1 .. m, i + 1) = IF i < m THEN {i + 1} ELSE {}
<1>1. \A k \in 1 .. m : Cardinality({l \in 1 .. m : l <= k}) = k
  <2> SUFFICES ASSUME NEW k \in 1 .. m PROVE Cardinality({l \in 1 .. m : l <= k}) = k
    OBVIOUS
  <2>1. {l \in 1 .. m : l <= k} = 1 .. k /\ k \in Nat
    OBVIOUS
  <2> QED
    BY <2>1, UpTo
<1>2. NthOf(1 .. m, i + 1) = {k \in 1 .. m : k = i + 1}
  BY <1>1 DEF NthOf
<1>3. {k \in 1 .. m : k = i + 1} = IF i < m THEN {i + 1} ELSE {}
  <2>1. CASE i < m
    <3>1. i + 1 \in 1 .. m
      BY <2>1
    <3> DEFINE j == i + 1
               S == 1 .. m
    <3> HIDE DEF j, S
    <3>2. j \in S => {k \in S : k = j} = {j}
      OBVIOUS
    <3> QED
      BY <2>1, <3>1, <3>2 DEF j, S
  <2>2. CASE ~(i < m)
    <3>1. \A k \in 1 .. m : k # i + 1
      BY <2>2
    <3> QED
      BY <2>2, <3>1
  <2> QED
    BY <2>1, <2>2
<1> QED
  BY <1>2, <1>3

\* Of a comparison somebody asks for, only its lease is told.
LEMMA OneComparison ==
  ASSUME DrawnInv, NEW r \in comparisons, NEW claim
  PROVE  ComparisonOf(claim, Ident(r.source)) = IF claim = r.claim THEN {r} ELSE {}
<1>1. \A r2 \in comparisons : r2.source = r.source => r2 = r
  BY DEF DrawnInv, OwnIds
<1>2. \A r2 \in comparisons : Ident(r2.source) = Ident(r.source) <=> r2.source = r.source
  <2>1. \A a, b : Ident(a) = Ident(b) => a = b
    <3> SUFFICES ASSUME NEW a, NEW b, Ident(a) = Ident(b) PROVE a = b
      OBVIOUS
    <3>1. Ident(a).id = a /\ Ident(b).id = b
      BY DEF Ident
    <3> QED
      BY <3>1
  <2> QED
    BY <2>1
<1>3. ComparisonOf(claim, Ident(r.source))
        = {r2 \in comparisons : r2.source = r.source /\ r2.claim = claim}
  BY <1>2 DEF ComparisonOf
<1> QED
  BY <1>1, <1>3

\* Who asks with the key of the lease is answered as the lease, anybody else in
\* another's name or not at all.
LEMMA AnsweredAs ==
  ASSUME NEW q, NEW claim \in Claim
  PROVE  \/ q.key = Key(claim) /\ RunImage(q) = FetchArtifact(claim, q)
         \/ q.key # Key(claim) /\ RunImage(q) = Refused("not_found")
         \/ /\ q.key # Key(claim)
            /\ \E c \in Claim \ {claim} : RunImage(q) = FetchArtifact(c, q)
<1>1. CASE \A c \in Claim : Key(c) # q.key
  BY <1>1 DEF RunImage
<1>2. CASE \E c \in Claim : Key(c) = q.key
  <2> DEFINE c == CHOOSE x \in Claim : Key(x) = q.key
  <2>1. c \in Claim /\ Key(c) = q.key
    BY <1>2
  <2>2. RunImage(q) = FetchArtifact(c, q)
    BY <1>2 DEF RunImage
  <2> HIDE DEF c
  <2>3. c = claim <=> Key(c) = Key(claim)
    <3>1. Key(c).key = c /\ Key(claim).key = claim
      BY DEF Key
    <3> QED
      BY <3>1
  <2> QED
    BY <2>1, <2>2, <2>3
<1> QED
  BY <1>1, <1>2

LEMMA OneIsServed ==
  ASSUME NEW name, NEW q, Contents(name) # {}
  PROVE  Served({name}, q) = IF name \in cleared THEN Refused("unreadable")
                             ELSE [exit |-> "served", to |-> q.out, file |-> name]
BY DEF Served

LEMMA NoneIsServed ==
  ASSUME NEW q
  PROVE  Served({}, q) = Refused("not_found")
BY DEF Served

LEMMA RegionsAreServed ==
  ASSUME DrawnInv, NEW r \in comparisons, NEW q \in Asked, q.id = Ident(r.source),
         q.kind = "region", NEW s \in Shot, NEW t \in Shot, drawn[r.source] = <<s, t>>,
         ShowsAll(s, t)
  PROVE  LET name == RegionCropFileName(r.source, q.side, q.index + 1)
         IN RunImage(q) =
              IF ~(q.key = Key(r.claim) /\ q.index < Len(Kept[s][t])) THEN Refused("not_found")
              ELSE IF name \in cleared THEN Refused("unreadable")
              ELSE [exit |-> "served", to |-> q.out, file |-> name]
<1> DEFINE m == Len(Kept[s][t])
           name == RegionCropFileName(r.source, q.side, q.index + 1)
           got == RunImage(q)
<1>1. q.index \in Nat /\ q.side \in Sides /\ m \in Nat
  BY AskedIsAPlace DEF ShowsAll
<1>2. CropNumber(r.source, q.index) = IF q.index < m THEN {q.index + 1} ELSE {}
  <2>1. CropNumber(r.source, q.index) = NthOf(ShownIn(Crops[s][t]), q.index + 1)
    BY DEF CropNumber
  <2>2. ShownIn(Crops[s][t]) = 1 .. m
    BY DEF ShowsAll
  <2> HIDE DEF m
  <2> QED
    BY <1>1, <2>1, <2>2, NthOfFirst
<1>3. \A c : ResolveRequest(c, q) =
        UNION {{RegionCropFileName(r2.source, q.side, n) : n \in CropNumber(r2.source, q.index)} :
                 r2 \in ComparisonOf(c, q.id)}
  BY DEF ResolveRequest
<1>4. \A c : c # r.claim => ResolveRequest(c, q) = {}
  <2>1. \A c : c # r.claim => ComparisonOf(c, q.id) = {}
    BY OneComparison
  <2> QED
    BY <1>3, <2>1
<1>5. ResolveRequest(r.claim, q) = IF q.index < m THEN {name} ELSE {}
  <2>1. ComparisonOf(r.claim, q.id) = {r}
    BY OneComparison
  <2>2. ResolveRequest(r.claim, q)
          = {RegionCropFileName(r.source, q.side, n) : n \in CropNumber(r.source, q.index)}
    <3> DEFINE F(r2) ==
                 {RegionCropFileName(r2.source, q.side, n) : n \in CropNumber(r2.source, q.index)}
    <3>1. ResolveRequest(r.claim, q) = UNION {F(r2) : r2 \in {r}}
      BY <1>3, <2>1
    <3> HIDE DEF F
    <3>2. UNION {F(r2) : r2 \in {r}} = F(r)
      OBVIOUS
    <3>3. ResolveRequest(r.claim, q) = F(r)
      BY <3>1, <3>2
    <3> QED
      BY <3>3 DEF F
  <2> HIDE DEF m
  <2> QED
    BY <1>2, <2>2
<1>6. q.index < m => Contents(name) # {}
  <2>1. /\ name.of = r.source /\ name.part = q.side /\ name.number = q.index + 1
        /\ drawn[name.of][1] = s /\ drawn[name.of][2] = t
    BY DEF RegionCropFileName, Stored
  <2>2. Contents(name) = {c[name.part] : c \in Crops[s][t][name.number]}
    BY <1>1, <2>1 DEF Contents, Sides
  <2>3. q.index < m => Crops[s][t][q.index + 1] # {}
    BY <1>1 DEF ShowsAll
  <2> HIDE DEF name
  <2> QED
    BY <2>1, <2>2, <2>3
<1>7. r.claim \in Claim
  BY DEF DrawnInv, OwnIds
<1> HIDE DEF m, name
<1>9. CASE q.key = Key(r.claim)
  <2>1. got = Served(ResolveRequest(r.claim, q), q)
    BY <1>7, <1>9, AnsweredAs DEF FetchArtifact
  <2>2. CASE q.index < m
    <3>1. got = IF name \in cleared THEN Refused("unreadable")
                ELSE [exit |-> "served", to |-> q.out, file |-> name]
      BY <1>5, <1>6, <2>1, <2>2, OneIsServed
    <3> QED
      BY <1>9, <2>2, <3>1 DEF m, name
  <2>3. CASE ~(q.index < m)
    <3>1. got = Refused("not_found")
      BY <1>5, <2>1, <2>3, NoneIsServed
    <3> QED
      BY <2>3, <3>1 DEF m
  <2> QED
    BY <2>2, <2>3
<1>10. CASE q.key # Key(r.claim)
  <2>1. \/ got = Refused("not_found")
        \/ \E c \in Claim \ {r.claim} : got = Served(ResolveRequest(c, q), q)
    BY <1>7, <1>10, AnsweredAs DEF FetchArtifact
  <2>2. got = Refused("not_found")
    BY <1>4, <2>1, NoneIsServed
  <2> QED
    BY <1>10, <2>2
<1> QED
  BY <1>9, <1>10

LEMMA OverlaysAreServed ==
  ASSUME DrawnInv, NEW r \in comparisons, NEW q \in Asked, q.id = Ident(r.source),
         q.kind = "overlay"
  PROVE  LET name == OverlayFileName(r.source)
         IN RunImage(q) =
              IF q.key # Key(r.claim) THEN Refused("not_found")
              ELSE IF name \in cleared THEN Refused("unreadable")
              ELSE [exit |-> "served", to |-> q.out, file |-> name]
<1> DEFINE name == OverlayFileName(r.source)
           got == RunImage(q)
<1>1. \A c : ResolveRequest(c, q) = {OverlayFileName(r2.source) : r2 \in ComparisonOf(c, q.id)}
  BY DEF ResolveRequest
<1>2. \A c : c # r.claim => ResolveRequest(c, q) = {}
  <2>1. \A c : c # r.claim => ComparisonOf(c, q.id) = {}
    BY OneComparison
  <2> QED
    BY <1>1, <2>1
<1>3. ResolveRequest(r.claim, q) = {name}
  <2>1. ComparisonOf(r.claim, q.id) = {r}
    BY OneComparison
  <2> QED
    BY <1>1, <2>1
<1>4. Contents(name) # {}
  <2>1. name.part = "overlay"
    BY DEF OverlayFileName, Stored
  <2>2. Contents(name) = {Overlays[drawn[name.of][1]][drawn[name.of][2]]}
    <3> HIDE DEF name
    <3> QED
      BY <2>1 DEF Contents, Sides
  <2> QED
    BY <2>2
<1>5. r.claim \in Claim
  BY DEF DrawnInv, OwnIds
<1> HIDE DEF name
<1>7. CASE q.key = Key(r.claim)
  <2>1. got = Served({name}, q)
    BY <1>3, <1>5, <1>7, AnsweredAs DEF FetchArtifact
  <2>2. got = IF name \in cleared THEN Refused("unreadable")
              ELSE [exit |-> "served", to |-> q.out, file |-> name]
    BY <1>4, <2>1, OneIsServed
  <2> QED
    BY <1>7, <2>2 DEF name
<1>8. CASE q.key # Key(r.claim)
  <2>1. \/ got = Refused("not_found")
        \/ \E c \in Claim \ {r.claim} : got = Served(ResolveRequest(c, q), q)
    BY <1>5, <1>8, AnsweredAs DEF FetchArtifact
  <2>2. got = Refused("not_found")
    BY <1>2, <2>1, NoneIsServed
  <2> QED
    BY <1>8, <2>2
<1> QED
  BY <1>7, <1>8

(***************************************************************************)
(* A lease that asks for an image names a comparison and a place in its    *)
(* list of regions, and is served a file found under a number of its own   *)
(* (service/artifacts.ts, diff/crops.ts).  Whatever has been taken or      *)
(* compared since, for any pictures, settings and command lines: it is the *)
(* crop of that region, with every pixel that was counted of it, or the    *)
(* overlay, marked only where a region is; only the lease that made the    *)
(* comparison is served; and once that file is cleared away the lease is   *)
(* told so, and served no other.                                           *)
(***************************************************************************)
THEOREM ImagesShowChanges == Spec => []ImagesShowTheChanges
<1>1. ASSUME DrawnInv, NEW r \in comparisons, NEW q \in Asked, q.id = Ident(r.source),
             q.kind \in {"overlay", "region"}
      PROVE  \A got \in {RunImage(q)}, asked \in {AskedFor(r, q)}, of \in {drawn[r.source]} :
               /\ got.exit = "served" \/ got = Refused("unreadable") <=> asked # {}
               /\ got = Refused("unreadable") => asked \cap cleared # {}
               /\ got.exit = "served" =>
                    /\ got.file \in asked \ cleared
                    /\ IF q.kind = "overlay" THEN OverlayShows[of[1]][of[2]]
                       ELSE CropsShow[of[1]][of[2]][got.file.number]
  <2>1. PICK s, t \in Shot :
          /\ drawn[r.source] = <<s, t>> /\ Geometry[s][t].comparable
          /\ r.figures = Figures[s][t]
    BY <1>1 DEF DrawnInv, FiguresOfDrawn, FoundOfDrawn
  <2> DEFINE got == RunImage(q)
             K == Kept[s][t]
             asked == AskedFor(r, q)
             mine == q.key = Key(r.claim)
  <2>2. ShowsAll(s, t)
    BY <2>1, KeptAreShown
  <2>3. r.figures.regions = K /\ K \in Seq(Region) /\ Len(K) \in Nat /\ OverlayShows[s][t]
    BY <2>1, <2>2 DEF ShowsAll
  <2>4. drawn[r.source][1] = s /\ drawn[r.source][2] = t
    BY <2>1
  <2>5. /\ Refused("unreadable").exit # "served" /\ Refused("not_found").exit # "served"
        /\ Refused("unreadable") # Refused("not_found")
    <3>1. Refused("unreadable").reason = "unreadable" /\ Refused("not_found").reason = "not_found"
      BY DEF Refused
    <3> QED
      BY <3>1 DEF Refused
  <2>6. asked = CASE ~mine -> {}
                  [] mine /\ q.kind = "overlay" -> {OverlayFileName(r.source)}
                  [] mine /\ q.kind = "region" ->
                       {RegionCropFileName(r.source, q.side, n) : n \in
                          {n \in DOMAIN K : q.index < Len(K) /\ K[n] = K[q.index + 1]}}
    BY <2>3, <2>4 DEF AskedFor
  <2> HIDE DEF got, K, asked, mine
  <2> SUFFICES /\ got.exit = "served" \/ got = Refused("unreadable") <=> asked # {}
               /\ got = Refused("unreadable") => asked \cap cleared # {}
               /\ got.exit = "served" =>
                    /\ got.file \in asked \ cleared
                    /\ IF q.kind = "overlay" THEN OverlayShows[s][t]
                       ELSE CropsShow[s][t][got.file.number]
    BY <2>4 DEF got, asked
  <2>7. CASE q.kind = "region"
    <3> DEFINE name == RegionCropFileName(r.source, q.side, q.index + 1)
    <3>1. got = IF ~(mine /\ q.index < Len(K)) THEN Refused("not_found")
                ELSE IF name \in cleared THEN Refused("unreadable")
                ELSE [exit |-> "served", to |-> q.out, file |-> name]
      BY <1>1, <2>1, <2>2, <2>7, RegionsAreServed DEF got, K, mine
    <3>2. q.index \in Nat
      BY AskedIsAPlace
    <3>3. q.index < Len(K) => q.index + 1 \in DOMAIN K /\ CropsShow[s][t][q.index + 1]
      BY <2>2, <2>3, <3>2 DEF ShowsAll, K
    <3>4. name.number = q.index + 1
      BY DEF RegionCropFileName, Stored
    <3>5. mine /\ q.index < Len(K) => name \in asked
      BY <2>6, <2>7, <3>3
    <3>6. ~(mine /\ q.index < Len(K)) => asked = {}
      BY <2>6, <2>7
    <3> HIDE DEF name
    <3> QED
      BY <2>5, <2>7, <3>1, <3>3, <3>4, <3>5, <3>6
  <2>8. CASE q.kind = "overlay"
    <3> DEFINE name == OverlayFileName(r.source)
    <3>1. got = IF ~mine THEN Refused("not_found")
                ELSE IF name \in cleared THEN Refused("unreadable")
                ELSE [exit |-> "served", to |-> q.out, file |-> name]
      BY <1>1, <2>8, OverlaysAreServed DEF got, mine
    <3>2. asked = IF mine THEN {name} ELSE {}
      BY <2>6, <2>8
    <3> HIDE DEF name
    <3> QED
      BY <2>3, <2>5, <2>8, <3>1, <3>2
  <2> QED
    BY <1>1, <2>7, <2>8
<1>2. DrawnInv => ImagesShowTheChanges
  BY <1>1 DEF ImagesShowTheChanges
<1> QED
  BY <1>2, StartsRight, StepsKeep, NothingDrawnFirst, StepsKeepDrawn, PTL DEF Spec
=============================================================================
