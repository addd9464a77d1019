------------------------------- MODULE Captures -------------------------------
(***************************************************************************)
(* Taking pictures of pages and comparing them                             *)
(* (service/operations/pages.ts, decideCapture; capture/pipeline.ts;       *)
(* service/comparison.ts).                                                 *)
(*                                                                         *)
(* A call is decided in a transaction; then, one after another and outside *)
(* any, the picture is taken and its file written, its row is written, and *)
(* if an earlier capture was named the two are compared, what shows the    *)
(* differences is drawn and the comparison's row is written.  A process    *)
(* may fail or die at any point of that, and others take pictures under    *)
(* the same lease in the meantime.                                         *)
(*                                                                         *)
(* A file is the page, the kind and the tier it is a picture of.  A page   *)
(* changes as it likes: a call finds any of them.                          *)
(***************************************************************************)
EXTENDS Pictures

CONSTANTS
  Process, Claim,
  Page,           \* what a page may look like when a picture is taken
  Layout,         \* Layout[page]: its width, height, dark pixels and element
  ViewportHeight, \* the rows of a page a viewport shows
  Requests,       \* the arguments of captures that are tried
  Threshold,      \* CAPTURES_BEFORE_WARNING
  MaxCaptures,    \* bounds the pictures taken in a behaviour
  MaxCleared,     \* bounds the files cleared away in a behaviour
  Null, Gone

VARIABLES
  files,        \* files[id]: what the capture's file is a picture of, Null
                \* before it is written, or Gone
  cleared,      \* the crops and overlays that are gone from the disk
  captures,     \* captures[id]: its row, or Null
  drawn,        \* drawn[id]: the two pictures the crops and the overlay were
                \* made of, the earlier first, or Null
  comparisons,  \* the comparison rows
  call          \* call[p]: the capture p is in the middle of, or Null

vars == <<files, cleared, captures, drawn, comparisons, call>>

Kinds == {"viewport", "element", "full_page"}
Id    == 1 .. MaxCaptures

\* No reason, one too short, and one that will do.
Reasons == {"none", "short", "good"}

ASSUME CapturesAssumption ==
  /\ IsFiniteSet(Process)
  /\ ViewportHeight \in Nat \ {0} /\ {Threshold, MaxCaptures, MaxCleared} \subseteq Nat
  /\ Requests \subseteq [fullPage : BOOLEAN, selector : BOOLEAN,
                         tier : Tier \cup {"other", Null}, reason : Reasons]
  /\ \A page \in Page :
       LET l == Layout[page] IN
       /\ {l.width, l.height, l.element.width, l.element.height} \subseteq Nat \ {0}
       /\ l.dark \subseteq Pixels(l.width, l.height)
       /\ l.element.x \in 0 .. l.width - l.element.width
       /\ l.element.y \in 0 .. l.height - l.element.height

Schema == INSTANCE Schema WITH BrowserName <- {}

-----------------------------------------------------------------------------
(* Pictures.                                                               *)

\* What the browser makes a picture of.
Frame(page, kind) ==
  LET l == Layout[page] IN
  CASE kind = "full_page" -> [x |-> 0, y |-> 0, width |-> l.width, height |-> l.height]
    [] kind = "element"   -> l.element
    [] OTHER -> [x |-> 0, y |-> 0, width |-> l.width, height |-> ViewportHeight]

Raw(page, kind) ==
  LET f == Frame(page, kind) IN
  [width |-> f.width, height |-> f.height,
   shade |-> [p \in Pixels(f.width, f.height) |->
                IF <<f.x + p[1], f.y + p[2]>> \in Layout[page].dark THEN 255 ELSE 0]]

-----------------------------------------------------------------------------
(* What is asked for.                                                      *)

\* validateCaptureMode and validateCaptureTier: not both an element and the
\* whole page, and no tier but the two that may be asked for.
Admissible(r) == ~(r.fullPage /\ r.selector) /\ r.tier \in {"detail", "max", Null}

\* refuseArgumentMistakes, of the pipeline: the highest tier wants a reason.
\* It is found out after the call was decided.
Serveable(r) == r.tier = "max" => r.reason = "good"

KindOf(r) ==
  IF r.selector THEN "element" ELSE IF r.fullPage THEN "full_page" ELSE "viewport"

TierOf(r) == IF r.tier = Null THEN "default" ELSE r.tier

ShotOf(page, r) == [page |-> page, kind |-> KindOf(r), tier |-> TierOf(r)]

\* The files there can be, the pictures in them, and what any two make.
Shot == {ShotOf(page, r) : page \in Page, r \in {q \in Requests : Admissible(q) /\ Serveable(q)}}

Picture == [s \in Shot |-> Downscale(Raw(s.page, s.kind), TierEdge[s.tier])]

Geometry ==
  [s \in Shot |-> [t \in Shot |-> ReconcileGeometry(Picture[s], Picture[t], t.kind)]]

Figures ==
  [s \in Shot |-> [t \in Shot |->
     IF Geometry[s][t].comparable
     THEN Compared(Picture[s], Picture[t], Geometry[s][t].height) ELSE Null]]

\* What a row of captures may hold.
CaptureRow ==
  [claim : Claim, kind : Kinds, tier : Tier, reason : BOOLEAN, selector : BOOLEAN,
   width : Nat, height : Nat, bytes : Nat, absolute : BOOLEAN, warned : BOOLEAN]

\* What is not there is told from what is.
ASSUME MarkersAssumption ==
  Null # Gone /\ {Null, Gone} \cap Shot = {} /\ Null \notin CaptureRow \cup (Shot \X Shot)

-----------------------------------------------------------------------------
(* Deciding.                                                               *)

CapturesTakenBy(c) == Cardinality({i \in Id : captures[i] # Null /\ captures[i].claim = c})

WarnedPast(takenBefore) == takenBefore > Threshold

\* captureWarning counts this capture too.
Warned(takenBefore) == takenBefore + 1 > Threshold

\* What a call may name to be compared with: nothing, something that is no
\* capture, or a capture, with the key of a lease (its own, as without one).
Targets == {<<Null, Null>>, <<Gone, Null>>}
             \cup ({i \in Id : captures[i] # Null} \X Claim)

Decide(p, c, r, target) ==
  /\ call[p] = Null
  /\ Admissible(r)
  /\ call' = [call EXCEPT ![p] =
       [step |-> "decided", claim |-> c, request |-> r, target |-> target[1],
        proven |-> target[2], warned |-> Warned(CapturesTakenBy(c))]]
  /\ UNCHANGED <<files, cleared, captures, drawn, comparisons>>

At(p, step) == call[p] # Null /\ call[p].step = step

\* The call ends with an error, or the process with it: what it has written
\* stays, and nothing else is left.
Fail(p) ==
  /\ call[p] # Null
  /\ call' = [call EXCEPT ![p] = Null]
  /\ UNCHANGED <<files, cleared, captures, drawn, comparisons>>

-----------------------------------------------------------------------------
(* Taking and recording the picture.                                       *)

\* takeCapture: the picture goes under a new identifier.
TakeCapture(p, page) ==
  /\ At(p, "decided") /\ Serveable(call[p].request)
  /\ \E i \in Id :
       /\ files[i] = Null /\ \A j \in 1 .. i - 1 : files[j] # Null
       /\ LET c    == call[p]
              shot == ShotOf(page, c.request)
          IN /\ files' = [files EXCEPT ![i] = shot]
             /\ call' = [call EXCEPT ![p] =
                  [step |-> "written", claim |-> c.claim, id |-> i, shot |-> shot,
                   target |-> c.target, proven |-> c.proven, warned |-> c.warned]]
  /\ UNCHANGED <<cleared, captures, drawn, comparisons>>

RowOfSource(c) ==
  [claim |-> c.claim, kind |-> c.shot.kind, tier |-> c.shot.tier,
   reason |-> c.shot.tier = "max", selector |-> c.shot.kind = "element",
   width |-> Raw(c.shot.page, c.shot.kind).width, height |-> Raw(c.shot.page, c.shot.kind).height,
   bytes |-> 0, absolute |-> FALSE, warned |-> c.warned]

\* recordCapture, of what the pipeline measured: only the highest tier keeps
\* its reason, and only an element its selector.
Row(c) ==
  [claim |-> c.claim, kind |-> c.shot.kind, tier |-> c.shot.tier,
   reason |-> c.shot.tier = "max", selector |-> c.shot.kind = "element",
   width |-> Picture[c.shot].width, height |-> Picture[c.shot].height,
   bytes |-> 0, absolute |-> FALSE, warned |-> c.warned]

RecordCapture(p) ==
  /\ At(p, "written")
  /\ captures' = [captures EXCEPT ![call[p].id] = Row(call[p])]
  /\ call' = [call EXCEPT ![p] =
       IF call[p].target = Null THEN Null
       ELSE [call[p] EXCEPT !.step = "recorded", !.warned = FALSE]]
  /\ UNCHANGED <<files, cleared, drawn, comparisons>>

-----------------------------------------------------------------------------
(* Comparing.                                                              *)

\* A capture that is not there and one of somebody else are answered alike.
Owned(c) == c.target \in Id /\ captures[c.target].claim \in {c.claim, c.proven}

Readable(c) == Owned(c) /\ files[c.target] \in Shot

Pair(c) == Geometry[files[c.target]][c.shot]

NoDiff == [diffed |-> FALSE, widthMismatch |-> FALSE, pageLengthChange |-> 0]

Answer(g) ==
  [diffed |-> g.comparable, widthMismatch |-> g.widthMismatch,
   pageLengthChange |-> g.pageLengthChange]

Answered(c, answer) ==
  [step |-> "answered", shot |-> c.shot, target |-> c.target, answer |-> answer]

\* The new picture is read back from its file.  With nothing to compare it
\* with, or nothing that can be, the call answers with an explanation.
Decline(p) ==
  /\ At(p, "recorded") /\ files[call[p].id] \in Shot
  /\ Readable(call[p]) => ~Pair(call[p]).comparable
  /\ call' = [call EXCEPT ![p] =
       Answered(call[p], IF Readable(call[p]) THEN Answer(Pair(call[p])) ELSE NoDiff)]
  /\ UNCHANGED <<files, cleared, captures, drawn, comparisons>>

\* What was found, kept to be recorded.
Measured(c) ==
  [step |-> "drawn", id |-> c.id, claim |-> c.claim, shot |-> c.shot, target |-> c.target,
   answer |-> Answer(Pair(c)), figures |-> Figures[files[c.target]][c.shot]]

\* The crops of the regions and the overlay are written, under names made of
\* the new capture's.
Draw(p) ==
  /\ At(p, "recorded") /\ files[call[p].id] \in Shot
  /\ Readable(call[p]) /\ Pair(call[p]).comparable
  /\ drawn' = [drawn EXCEPT ![call[p].id] = <<files[call[p].target], call[p].shot>>]
  /\ call' = [call EXCEPT ![p] = Measured(call[p])]
  /\ UNCHANGED <<files, cleared, captures, comparisons>>

\* insertComparison, of what was found when it was drawn.
RecordComparison(p) ==
  /\ At(p, "drawn")
  /\ comparisons' = comparisons \cup
       {[source |-> call[p].id, target |-> call[p].target, claim |-> call[p].claim,
         figures |-> call[p].figures]}
  /\ call' = [call EXCEPT ![p] = Answered(call[p], call[p].answer)]
  /\ UNCHANGED <<files, cleared, captures, drawn>>

Finish(p) ==
  /\ At(p, "answered")
  /\ call' = [call EXCEPT ![p] = Null]
  /\ UNCHANGED <<files, cleared, captures, drawn, comparisons>>

-----------------------------------------------------------------------------
(* What is drawn of two pictures, and where it is stored.                  *)

Crop(pic, box) ==
  [width |-> box.width, height |-> box.height,
   shade |-> [p \in Pixels(box.width, box.height) |-> pic.shade[<<box.x + p[1], box.y + p[2]>>]]]

\* The regions of two pictures, and their crops, numbered by region, those with
\* nothing to show left out.
Kept ==
  [s \in Shot |-> [t \in Shot |->
     IF Geometry[s][t].comparable
     THEN Cut(ExtractRegions(Mask(Picture[s], Picture[t], Geometry[s][t].height)), MaximumRegions)
     ELSE << >>]]

Crops ==
  [s \in Shot |-> [t \in Shot |->
     [k \in DOMAIN Kept[s][t] |->
        {[before |-> Crop(Picture[s], box), after |-> Crop(Picture[t], box)] :
           box \in PaddedRectangle(Kept[s][t][k], Picture[t].width, Geometry[s][t].height)}]]]

ShownIn(crops) == {k \in DOMAIN crops : crops[k] # {}}

\* A file by where it is stored: the capture it was made for, and what it
\* shows.  All of a capture's files are in one directory of its lease.
Stored(of, part, number) == [of |-> of, part |-> part, number |-> number]

\* The sides of a region.
Sides == {"before", "after"}

\* Whatever else of the page is put into a name, the identifier tells it apart.
CaptureFileName(id)             == Stored(id, "picture", 0)
OverlayFileName(id)             == Stored(id, "overlay", 0)
RegionCropFileName(id, side, n) == Stored(id, side, n)

DrawnFiles(i) ==
  {OverlayFileName(i)} \cup
  {RegionCropFileName(i, side, n) : side \in Sides, n \in ShownIn(Crops[drawn[i][1]][drawn[i][2]])}

-----------------------------------------------------------------------------
(* Somebody clears the artifact directory.                                 *)

ClearedByHand(i) ==
  /\ Cardinality({j \in Id : files[j] = Gone}) + Cardinality(cleared) < MaxCleared
  /\ \/ /\ files[i] \in Shot
        /\ files' = [files EXCEPT ![i] = Gone]
        /\ UNCHANGED cleared
     \/ /\ drawn[i] # Null
        /\ \E name \in DrawnFiles(i) \ cleared : cleared' = cleared \cup {name}
        /\ UNCHANGED files
  /\ UNCHANGED <<captures, drawn, comparisons, call>>

-----------------------------------------------------------------------------
Init ==
  /\ files = [i \in Id |-> Null] /\ cleared = {} /\ captures = [i \in Id |-> Null]
  /\ drawn = [i \in Id |-> Null] /\ comparisons = {}
  /\ call = [p \in Process |-> Null]

Next ==
  \/ \E p \in Process :
       \/ \E c \in Claim, r \in Requests, target \in Targets : Decide(p, c, r, target)
       \/ \E page \in Page : TakeCapture(p, page)
       \/ RecordCapture(p) \/ Decline(p) \/ Draw(p) \/ RecordComparison(p)
       \/ Finish(p) \/ Fail(p)
  \/ \E i \in Id : ClearedByHand(i)

Spec == Init /\ [][Next]_vars

-----------------------------------------------------------------------------
(* Properties.                                                             *)

\* A row is the record that a file exists (capture-store.ts): a capture's row
\* is there only once its file is, with the file's dimensions, and a
\* comparison's only once its overlay and crops were drawn, whatever fails or
\* dies in between.
RecordedPicturesExist ==
  /\ \A i \in Id : captures[i] # Null =>
       /\ files[i] # Null
       /\ files[i] \in Shot => /\ captures[i].width = Picture[files[i]].width
                               /\ captures[i].height = Picture[files[i]].height
  /\ \A r \in comparisons : drawn[r.source] # Null /\ captures[r.source] # Null

\* What the pipeline writes is what the tables accept: their checks on kinds,
\* tiers, reasons, sizes and ratios (step-001-initial.ts) refuse no row.
RowsAreLegal ==
  /\ \A i \in Id : captures[i] # Null => Schema!LegalCapture(captures[i])
  /\ \A r \in comparisons :
       Schema!LegalComparison(
         [colourTolerance |-> ColourTolerance, minimumRegionArea |-> MinimumRegionArea,
          maximumRegions |-> MaximumRegions, changedPixels |-> r.figures.changedPixels,
          allPixels |-> r.figures.allPixels, absolute |-> FALSE])

\* Each row of a picture is one the tables take and speaks of files that are
\* there, with the dimensions they have, at every moment of a capture and of the
\* comparison that follows it (capture-store.ts, comparison-store.ts).
RowsDescribePictures == RecordedPicturesExist /\ RowsAreLegal

\* The count behind the warning is read before the picture is taken, so calls
\* under way in other processes are not in it (capture-store.ts: it costs "a
\* warning that fires one capture late").  However their steps fall, a lease
\* has no more captures without a warning, rows and calls under way together,
\* than the threshold and one for each other process.
WarningLateByOthersAtMost ==
  \A c \in Claim :
    LET rows  == {i \in Id : captures[i] # Null /\ captures[i].claim = c /\ ~captures[i].warned}
        calls == {p \in Process : (At(p, "decided") \/ At(p, "written"))
                                  /\ call[p].claim = c /\ ~call[p].warned}
    IN rows \cup calls # {} =>
         Cardinality(rows) + Cardinality(calls) <= Threshold + Cardinality(Process) - 1

\* The ways to put pieces into groups, a group being the pixels of its pieces.
Groupings(pieces) ==
  {{UNION {q \in pieces : f[q] = f[p]} : p \in pieces} : f \in [pieces -> pieces]}

\* No two groups are near.
Apart(groups) == \A A, B \in groups : A # B => ~Within(BoxOf(A), BoxOf(B), MergeDistance)

\* The regions of a mask without a way to find them: its joined pieces put into
\* groups that are apart, and no pieces together that need not be.
RegionsFor(mask) ==
  LET apart  == {G \in Groupings({JoinedTo(p, mask) : p \in mask}) : Apart(G)}
      finest == CHOOSE G \in apart : \A H \in apart : \A A \in G : \E B \in H : A \subseteq B
  IN {BoxOf(A) : A \in finest}

\* The regions a comparison reports are those of the two pictures on disk,
\* the largest first and no more than the limit: nothing that changed in the
\* rows both have is missed but what is too small and no line, no pixel is
\* counted twice, and what was merged had to be (regions.ts, comparison.ts).
FiguresAreRight(earlier, current, figures) ==
  LET mask  == Mask(earlier, current, Smaller(earlier.height, current.height))
      all   == {g \in RegionsFor(mask) : SurvivesSizeFilter(g)}
      shown == Range(figures.regions)
  IN /\ figures.changedPixels = Cardinality(mask)
     /\ shown \subseteq all
     /\ Len(figures.regions) = Cardinality(shown)
     /\ Cardinality(shown) = Smaller(MaximumRegions, Cardinality(all))
     /\ \A g \in all \ shown, h \in shown : Area(g) <= Area(h)
     /\ \A i, j \in DOMAIN figures.regions :
          i < j => Area(figures.regions[i]) >= Area(figures.regions[j])
     /\ figures.truncated <=> Cardinality(all) > MaximumRegions

Right ==
  [s \in Shot |-> [t \in Shot |->
     Geometry[s][t].comparable => FiguresAreRight(Picture[s], Picture[t], Figures[s][t])]]

RegionsAreTheChanges ==
  \A r \in comparisons :
    files[r.source] \in Shot /\ files[r.target] \in Shot =>
      /\ r.figures = Figures[files[r.target]][files[r.source]]
      /\ Right[files[r.target]][files[r.source]]
=============================================================================
