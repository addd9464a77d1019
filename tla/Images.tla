-------------------------------- MODULE Images --------------------------------
(***************************************************************************)
(* Fetching the picture files back (cli/image.ts, service/artifacts.ts): a *)
(* command line names a lease's key and one artifact by the identifier of  *)
(* its row, and is served the bytes of the file the row names.             *)
(*                                                                         *)
(* A command line is a sequence of words: a flag, or an identifier, a      *)
(* number or a text that stands after one.  A file is named by the capture *)
(* it was made for and what it shows of it (artifacts/names.ts,            *)
(* diff/artifact-path.ts): no two captures have the same identifier.       *)
(***************************************************************************)
EXTENDS Captures

CONSTANT ImageLines   \* the command lines that are tried

ASSUME ImagesAssumption == \A argv \in ImageLines : argv \in Seq(Range(argv))

-----------------------------------------------------------------------------
(* parseImageArguments.                                                    *)

Flag(name)   == [flag |-> name]
Ident(id)    == [id |-> id]
Key(claim)   == [key |-> claim]
Number(n)    == [number |-> n]
Text(text)   == [text |-> text]

IsFlag(word) == "flag" \in DOMAIN word

Selectors == {"capture", "overlay", "region"}
Options   == {"lease-key", "out", "index", "side"}

\* The values a flag may have after it.
Takes(name, word) ==
  CASE name \in Selectors \cup {"lease-key", "out"} -> ~IsFlag(word)
    [] name = "index" -> "number" \in DOMAIN word /\ word.number \in Nat
    [] name = "side"  -> word \in {Text(side) : side \in Sides}
    [] OTHER          -> FALSE

Unread ==
  [ok |-> TRUE, after |-> Null, given |-> [option \in Options |-> Null], selected |-> << >>]

\* One word more of the line.  A flag given twice is what it was given last,
\* but what is asked for is kept each time.
ReadWord(line, word) ==
  CASE ~line.ok -> line
    [] line.ok /\ line.after # Null ->
         IF ~Takes(line.after, word) THEN [line EXCEPT !.ok = FALSE]
         ELSE IF line.after \in Selectors
         THEN [line EXCEPT !.after = Null, !.selected = Append(@, <<line.after, word>>)]
         ELSE [line EXCEPT !.after = Null, !.given[line.after] = word]
    [] line.ok /\ line.after = Null /\ word = Flag("json") -> line
    [] line.ok /\ line.after = Null /\ word # Flag("json") ->
         IF IsFlag(word) /\ word.flag \in Selectors \cup Options
         THEN [line EXCEPT !.after = word.flag] ELSE [line EXCEPT !.ok = FALSE]

\* What is known of a line after each number of its words.
Lines(argv) ==
  LET line[n \in 0 .. Len(argv)] ==
        IF n = 0 THEN Unread ELSE ReadWord(line[n - 1], argv[n])
  IN line

Read(argv) == Lines(argv)[Len(argv)]

Malformed == [ok |-> FALSE]

\* The region that was asked for, or the largest, as it is now.
ParseImageArguments(argv) ==
  LET line   == Read(argv)
      Has(f) == line.given[f] # Null
      chosen == line.selected[1]
  IN IF \/ ~line.ok \/ line.after # Null
        \/ ~Has("lease-key") \/ ~Has("out")
        \/ Len(line.selected) # 1
        \/ chosen[1] # "region" /\ (Has("index") \/ Has("side"))
     THEN Malformed
     ELSE [ok |-> TRUE, key |-> line.given["lease-key"], out |-> line.given["out"],
           kind |-> chosen[1], id |-> chosen[2],
           index |-> IF Has("index") THEN line.given["index"].number ELSE 0,
           side  |-> IF Has("side") THEN line.given["side"].text ELSE "after"]

Asked == {ParseImageArguments(argv) : argv \in ImageLines} \ {Malformed}

-----------------------------------------------------------------------------
(* What the files hold.                                                    *)

OutlineThickness == 2
Red              == 256   \* no shade of grey

Inside(p, r, ring) ==
  /\ p[1] \in r.x + ring .. r.x + r.width - 1 - ring
  /\ p[2] \in r.y + ring .. r.y + r.height - 1 - ring

\* The rings outlineRectangle draws: on the edge of the rectangle and inside.
Outlined(p, r) == Inside(p, r, 0) /\ ~Inside(p, r, OutlineThickness)

Overlay(pic, regions) ==
  [pic EXCEPT !.shade = [p \in DOMAIN @ |->
     IF \E i \in DOMAIN regions : Outlined(p, regions[i]) THEN Red ELSE @[p]]]

\* The overlay of two pictures.
Overlays == [s \in Shot |-> [t \in Shot |-> Overlay(Picture[t], Kept[s][t])]]

\* What was written into a file, if it was.
Contents(name) ==
  LET earlier == drawn[name.of][1]
      current == drawn[name.of][2]
  IN CASE name.part = "picture" -> {Picture[s] : s \in {files[name.of]} \cap Shot}
       [] name.part = "overlay" -> {Overlays[earlier][current]}
       [] name.part \in Sides   -> {c[name.part] : c \in Crops[earlier][current][name.number]}

-----------------------------------------------------------------------------
(* Serving one.                                                            *)

\* The n-th number of some, if they are so many.
NthOf(numbers, n) == {k \in numbers : Cardinality({m \in numbers : m <= k}) = n}

CropNumberFromOne(id, place) == NthOf(ShownIn(Crops[drawn[id][1]][drawn[id][2]]), place)

\* The row's region at this place in its list: its crops have the number of
\* the region among all that were kept.
CropNumber(id, place) == NthOf(ShownIn(Crops[drawn[id][1]][drawn[id][2]]), place + 1)

\* The comparison of this identifier, if the lease ran it.  A comparison is
\* known by its new capture: no capture is compared twice.
ComparisonOf(claim, id) == {r \in comparisons : Ident(r.source) = id /\ r.claim = claim}

\* resolveRequest: what is not there and what is somebody else's alike.
ResolveRequest(claim, q) ==
  CASE q.kind = "capture" ->
         {CaptureFileName(i) : i \in {j \in Id : Ident(j) = q.id /\ captures[j] # Null
                                                  /\ captures[j].claim = claim}}
    [] q.kind = "overlay" ->
         {OverlayFileName(r.source) : r \in ComparisonOf(claim, q.id)}
    [] q.kind = "region" ->
         UNION {{RegionCropFileName(r.source, q.side, n) : n \in CropNumber(r.source, q.index)} :
                  r \in ComparisonOf(claim, q.id)}

Refused(reason) == [exit |-> "refused", reason |-> reason]

Served(names, q) ==
  IF names = {} THEN Refused("not_found")
  ELSE IF \A name \in names : name \in cleared \/ Contents(name) = {} THEN Refused("unreadable")
  ELSE [exit |-> "served", to |-> q.out, file |-> CHOOSE name \in names : TRUE]

\* fetchArtifact: the file, if it can still be read.
FetchArtifact(claim, q) == Served(ResolveRequest(claim, q), q)

\* runImage, of a line that was understood.
RunImage(q) ==
  IF \A c \in Claim : Key(c) # q.key THEN Refused("not_found")
  ELSE FetchArtifact(CHOOSE c \in Claim : Key(c) = q.key, q)

-----------------------------------------------------------------------------
\* Two crops of one size that show the change of a region: at least as many
\* pixels of it as were counted.
ShowChange(pair, region) ==
  /\ DOMAIN pair.before.shade = DOMAIN pair.after.shade
  /\ Cardinality(Mask(pair.before, pair.after, pair.after.height)) >= region.changedPixels

\* A picture marked only within the regions.
OnlyMarked(overlay, pic, regions) ==
  /\ DOMAIN overlay.shade = DOMAIN pic.shade
  /\ \A p \in DOMAIN pic.shade :
       overlay.shade[p] # pic.shade[p] => \E i \in DOMAIN regions : Inside(p, regions[i], 0)

CropsShow ==
  [s \in Shot |-> [t \in Shot |-> [k \in DOMAIN Kept[s][t] |->
     \A pair \in Crops[s][t][k] : ShowChange(pair, Kept[s][t][k])]]]

OverlayShows ==
  [s \in Shot |-> [t \in Shot |-> OnlyMarked(Overlays[s][t], Picture[t], Kept[s][t])]]

\* The file a line asks for that names a comparison: if the lease of its key ran
\* it, the overlay, or the crop of one side of the region in that place.
AskedFor(r, q) ==
  LET kept   == Kept[drawn[r.source][1]][drawn[r.source][2]]
      wanted == {n \in DOMAIN kept : /\ q.index < Len(r.figures.regions)
                                      /\ kept[n] = r.figures.regions[q.index + 1]}
  IN CASE q.key # Key(r.claim) -> {}
       [] q.key = Key(r.claim) /\ q.kind = "overlay" -> {OverlayFileName(r.source)}
       [] q.key = Key(r.claim) /\ q.kind = "region" ->
            {RegionCropFileName(r.source, q.side, n) : n \in wanted}

\* Whatever has been taken or compared since, a lease that asks for a region of
\* a comparison of its own is served the crop of the side it asked for of the
\* region its row has in that place, cut so that both sides show the change; its
\* overlay is the new picture, marked only within the regions; and nobody else
\* is served either.  When that very file has been cleared away, and only then,
\* the lease is told that it cannot be read: it is served no other in its stead,
\* nor told that it asked for nothing (service/artifacts.ts, diff/crops.ts).
ImagesShowTheChanges ==
  \A r \in comparisons : \A q \in {a \in Asked : a.id = Ident(r.source) /\ a.kind \in {"overlay", "region"}} :
    \A got \in {RunImage(q)}, asked \in {AskedFor(r, q)}, of \in {drawn[r.source]} :
      /\ got.exit = "served" \/ got = Refused("unreadable") <=> asked # {}
      /\ got = Refused("unreadable") => asked \cap cleared # {}
      /\ got.exit = "served" =>
           /\ got.file \in asked \ cleared
           /\ IF q.kind = "overlay" THEN OverlayShows[of[1]][of[2]]
              ELSE CropsShow[of[1]][of[2]][got.file.number]
=============================================================================
