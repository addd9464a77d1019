-------------------------------- MODULE Readers --------------------------------
(***************************************************************************)
(* What is written down for people to read, and how it is read back: the   *)
(* ledger of calls, the captures and what they cost, the comparisons and   *)
(* the feedback (service/events.ts, operations/ledger.ts, telemetry.ts,    *)
(* service/comparison-store.ts, feedback/).                                *)
(*                                                                         *)
(* Callers go on calling while a reader, a process of its own, reads page  *)
(* by page, or adds up with one SELECT after another.  A row's identifier  *)
(* in the ledger and among the feedback is its place; those of captures    *)
(* and comparisons are drawn at random, and so is the order of two rows    *)
(* of one instant.  Whether a claim is live, and what a call is refused    *)
(* for, is Leases' and Rules'.                                             *)
(***************************************************************************)
EXTENDS Queries

CONSTANTS
  Caller,         \* processes in a call that takes more than one step
  Claim,
  SessionOf,      \* the session each claim was made in
  Pictures,       \* what a capture may be, but for when and whose
  Settings,       \* what a comparison may be run with
  Submissions,    \* what is submitted as feedback
  EventLines, CaptureLines, DiffLines,   \* the readers' command lines
  DefaultLimit, MaximumLimit,            \* DEFAULT_LEDGER_LIMIT, MAXIMUM_...
  MaximumReasons,                        \* MAXIMUM_ESCALATION_REASONS
  Ids,            \* identifiers captures and comparisons may draw
  MaxUnderWay,    \* bound on the calls under way at once, for each of `about`
  MaxEntries,     \* bound on the rows of the ledger and of feedback
  MaxShots,       \* bound on the rows of captures and comparisons
  LastInstant     \* bound on the clock

\* A number is whole, and no text is nothing.
WellSpelt(word) ==
  /\ "number" \in DOMAIN word => word.number \in Int
  /\ "text" \in DOMAIN word => word.text # Null
  /\ word # Null /\ word # Bare

\* A rule about the arguments of a call alone.
ArgumentRule == "capture.exclusive_mode"

ASSUME ReadersAssumption ==
  /\ DefaultLimit \in Nat \ {0} /\ MaximumLimit \in Nat /\ MaximumLimit >= DefaultLimit
  /\ MaximumReasons \in Nat \ {0}
  /\ Null \notin Int /\ Null # ArgumentRule
  /\ Ids \subseteq Int
  /\ Submissions \subseteq [rating : Int, category : STRING, noteLength : Nat]
  /\ \A line \in EventLines \cup CaptureLines :
       /\ line \in Seq(ToSet(line))
       /\ \A word \in ToSet(line) :
            /\ WellSpelt(word)
            /\ IsJoined(word) => WellSpelt(word.value)

VARIABLES
  about,        \* which tables this is about
  now,
  events,       \* the ledger
  shots,        \* the rows of captures
  comparisons,
  feedback,
  caller,       \* where the call of each is
  heard,        \* per claim: what its caller was answered last
  reader        \* what the reader has printed or added up

readersVars == <<about, now, events, shots, comparisons, feedback, caller, heard, reader>>
tables == <<events, shots, comparisons, feedback>>

Session == {SessionOf[c] : c \in Claim}

\* The rows a SELECT finds, in the order it asks for, and the first k of them
\* if there are as many.
Sorted(S, Precedes(_, _)) ==
  CHOOSE seq \in [1 .. Cardinality(S) -> S] :
    \A i, j \in DOMAIN seq : i < j => Precedes(seq[i], seq[j])

First(seq, k) == SubSeq(seq, 1, IF k < Len(seq) THEN k ELSE Len(seq))

\* Rows by their numbers, from the oldest on and from the newest back.
Ascending(S)  == Sorted(S, LAMBDA i, j : i < j)
Descending(S) == Sorted(S, LAMBDA i, j : i > j)

-----------------------------------------------------------------------------
(* The ledger.                                                             *)

Event(kind, outcome, guard, c) ==
  [kind |-> kind, outcome |-> outcome, guard |-> guard, claim |-> c,
   session |-> IF c = Null THEN Null ELSE SessionOf[c]]

IsOrAny(asked, found) == asked = Null \/ asked = found

\* buildConditions, of row i.
Matches(q, i) ==
  /\ q.kinds # {} => events[i].kind \in q.kinds
  /\ IsOrAny(q.outcome, events[i].outcome)
  /\ IsOrAny(q.guard, events[i].guard)
  /\ IsOrAny(q.session, events[i].session)
  /\ IsOrAny(q.claim, events[i].claim)
  /\ q.since # Null => i > q.since
  /\ q.before # Null => i < q.before

ClampLimit(limit) ==
  IF limit = Null THEN DefaultLimit
  ELSE IF limit < 1 THEN DefaultLimit
  ELSE IF limit > MaximumLimit THEN MaximumLimit ELSE limit

Matching(q) == {i \in DOMAIN events : Matches(q, i)}

ReadLedger(q) ==
  LET found   == Matching(q)
      entries == First(IF q.order = "oldest" THEN Ascending(found) ELSE Descending(found),
                       ClampLimit(q.limit))
  IN [entries |-> entries,
      cursor  |-> IF entries = << >> THEN Null
                  ELSE CHOOSE i \in ToSet(entries) : \A j \in ToSet(entries) : j <= i,
      total   |-> Cardinality(found)]

\* How many refusals of each rule, whatever rule was asked for.
CountByGuard(q) ==
  LET refusals == {i \in Matching([q EXCEPT !.guard = Null]) : events[i].guard # Null}
  IN [g \in {events[i].guard : i \in refusals} |->
        Cardinality({i \in refusals : events[i].guard = g})]

-----------------------------------------------------------------------------
(* The cost of captures.                                                   *)

InWindowToTheEnd(w, shot) ==
  /\ w.since # Null => shot.takenAt >= w.since
  /\ w.until # Null => shot.takenAt <= w.until
  /\ IsOrAny(w.claim, shot.claim)

\* buildCaptureConditions: from `since` on, and before `until`.
InWindow(w, shot) ==
  /\ w.since # Null => shot.takenAt >= w.since
  /\ w.until # Null => shot.takenAt < w.until
  /\ IsOrAny(w.claim, shot.claim)

CountIf(S, Is(_)) == Cardinality({x \in S : Is(x)})

ToCost(S) ==
  [captures   |-> Cardinality(S),
   downscaled |-> CountIf(S, LAMBDA shot : shot.picture.downscaled),
   warned     |-> CountIf(S, LAMBDA shot : shot.picture.warned)]

ToGroups(S, GroupOf(_)) ==
  [g \in {GroupOf(shot) : shot \in S} |-> ToCost({shot \in S : GroupOf(shot) = g})]

\* Newest first, and of one instant the greatest identifier.
Later(x, y) == x.at > y.at \/ (x.at = y.at /\ x.id > y.id)

Newest(S) == Sorted(S, Later)

\* Those that had to be reasoned for, and were: the last of them.
EscalationReasons(S) ==
  First(Newest({[id |-> shot.id, at |-> shot.takenAt] : shot \in {s \in S : s.picture.reason}}),
        MaximumReasons)

\* The four SELECTs of readCaptureRollup, each over the rows of its moment.
RollupPart(k, w) ==
  LET S == {shot \in shots : InWindow(w, shot)}
  IN CASE k = 1 -> ToGroups(S, LAMBDA shot : "")
       [] k = 2 -> ToGroups(S, LAMBDA shot : shot.picture.tier)
       [] k = 3 -> ToGroups(S, LAMBDA shot : shot.picture.kind)
       [] k = 4 -> EscalationReasons(S)

-----------------------------------------------------------------------------
(* Comparisons, as `broker diffs` lists them and as `broker captures` adds *)
(* them up.                                                                *)

ListComparisons(q) ==
  LET found == Newest({r \in comparisons :
                 /\ IsOrAny(q.source, r.source)
                 /\ IsOrAny(q.target, r.target)
                 /\ IsOrAny(q.claim, r.claim)})
  IN IF q.limit = Null THEN found ELSE First(found, q.limit)

HowMany(seq, Is(_)) == Cardinality({i \in DOMAIN seq : Is(seq[i])})

ToOutcomes(found) ==
  [comparisons |-> Len(found),
   changed     |-> HowMany(found, LAMBDA r : r.changed),
   settings    |-> [x \in {r.settings : r \in ToSet(found)} |->
                      [comparisons |-> HowMany(found, LAMBDA r : r.settings = x),
                       changed     |-> HowMany(found, LAMBDA r : r.settings = x /\ r.changed)]]]

CaptureDiffActivity(shot, limit) ==
  [asSource |-> ToOutcomes(First(Newest({r \in comparisons : r.source = shot}), ClampLimit(limit))),
   asTarget |-> ToOutcomes(First(Newest({r \in comparisons : r.target = shot}), ClampLimit(limit)))]

\* Those compared against most often come first.
MostDiffedTargets(limit) ==
  LET Against(shot) == {r \in comparisons : r.target = shot}
      found == {[target |-> t, comparisons |-> Cardinality(Against(t)),
                 changed |-> CountIf(Against(t), LAMBDA r : r.changed)] :
                  t \in {r.target : r \in comparisons}}
      More(x, y) == \/ x.comparisons > y.comparisons
                    \/ x.comparisons = y.comparisons /\ x.target < y.target
  IN First(Sorted(found, More), ClampLimit(limit))

-----------------------------------------------------------------------------
(* Feedback.                                                               *)

Latest(Is(_)) ==
  LET found == {i \in DOMAIN events : Is(i)}
  IN IF found = {} THEN Null ELSE CHOOSE i \in found : \A j \in found : j <= i

ContextOfAnybody(c, s) ==
  LET last == Latest(LAMBDA i : TRUE)
  IN [claim |-> c, lastEvent |-> last,
      lastGuard |-> IF last = Null THEN Null ELSE events[last].guard]

\* The last row of the claim whose key was given, or, without one, of the
\* session.
CaptureContext(c, s) ==
  LET last == IF c # Null THEN Latest(LAMBDA i : events[i].claim = c)
              ELSE IF s # Null THEN Latest(LAMBDA i : events[i].session = s)
              ELSE Null
  IN [claim |-> c, lastEvent |-> last,
      lastGuard |-> IF last = Null THEN Null ELSE events[last].guard]

\* refuseSubmission.
RefuseSubmission(asked) ==
  \/ asked.rating \notin 1 .. 5
  \/ asked.category \notin FeedbackCategories
  \/ asked.noteLength < 20 \/ asked.noteLength > 2000

\* readFeedback, newest first.
ReadFeedback(category, limit) ==
  First(Descending({n \in DOMAIN feedback : IsOrAny(category, feedback[n].category)}), limit)

-----------------------------------------------------------------------------
(* Callers.                                                                *)

Idle == [at |-> "idle"]

Goes(p, to) == caller' = [caller EXCEPT ![p] = to]

\* Whoever makes a call is told whether it is let through, or else the rule,
\* and for a claim that is its last answer.  What is kept of it: the rule,
\* whether this call left a row, and the row of the last one that did.
Hears(c, i, rule) ==
  heard' = IF c = Null THEN heard ELSE [heard EXCEPT ![c] = [row |-> i, rule |-> rule, left |-> TRUE]]

HearsOnly(c, rule) ==
  heard' = IF c = Null THEN heard
           ELSE [heard EXCEPT ![c] = [row |-> heard[c].row, rule |-> rule, left |-> FALSE]]

MayCall(p) ==
  /\ caller[p] = Idle
  /\ Cardinality({q \in Caller : caller[q] # Idle}) < MaxUnderWay[about]

RoomInLedger == Len(events) + Len(feedback) < MaxEntries
RoomForShots == Cardinality(shots) + Cardinality(comparisons) < MaxShots

Ledger(event) == RoomInLedger /\ events' = Append(events, event)

\* A row, and then the answer.
LeavesRow(p, event) ==
  /\ Ledger(event)
  /\ Goes(p, [at |-> "answering", claim |-> event.claim, row |-> Len(events'), rule |-> event.guard])
  /\ UNCHANGED <<now, shots, comparisons, feedback, heard, reader>>

\* A call that is accepted leaves its row with what it decided, in one
\* transaction; what it does with the page comes before the answer.
Call(p, c) ==
  /\ MayCall(p)
  /\ LeavesRow(p, Event("navigate", "allow", Null, c))

\* A call that is refused is rolled back; the row of its refusal, which for a
\* key nobody has names no claim, is kept for a write of its own.
RefuseCall(p, c) ==
  /\ MayCall(p)
  /\ Goes(p, [at |-> "refused", claim |-> c])
  /\ UNCHANGED <<now, tables, heard, reader>>

\* But arguments are looked at before the key is, and a call that is refused
\* for those has collected no row.
RefuseArguments(c) ==
  /\ HearsOnly(c, ArgumentRule)
  /\ UNCHANGED <<now, tables, caller, reader>>

GuardOf(c) == IF c = Null THEN "key.valid" ELSE "claim.live"

\* writeRefusals, before the caller is answered.
WriteRefusal(p) ==
  /\ caller[p].at = "refused"
  /\ LeavesRow(p, Event("claim_renewed", "deny", GuardOf(caller[p].claim), caller[p].claim))

\* The write fails, and the caller is answered all the same; or it dies.
LoseRefusal(p) ==
  /\ caller[p].at = "refused"
  /\ \/ HearsOnly(caller[p].claim, GuardOf(caller[p].claim))
     \/ heard' = heard
  /\ Goes(p, Idle)
  /\ UNCHANGED <<now, tables, reader>>

Answer(p) ==
  /\ caller[p].at = "answering"
  /\ Hears(caller[p].claim, caller[p].row, caller[p].rule)
  /\ Goes(p, Idle)
  /\ UNCHANGED <<now, tables, reader>>

\* A capture, after its call: the picture is stamped when it is taken, and its
\* row is written by itself.
TakePicture(p, c, picture) ==
  /\ MayCall(p)
  /\ Goes(p, [at |-> "taken", claim |-> c, picture |-> picture, takenAt |-> now])
  /\ UNCHANGED <<now, tables, heard, reader>>

RecordShot(p, id) ==
  /\ caller[p].at = "taken"
  /\ RoomForShots
  /\ id \notin {shot.id : shot \in shots}
  /\ shots' = shots \cup {[id |-> id, takenAt |-> caller[p].takenAt, claim |-> caller[p].claim,
                           picture |-> caller[p].picture]}
  /\ Goes(p, Idle)
  /\ UNCHANGED <<now, events, comparisons, feedback, heard, reader>>

\* It fails, or its process dies, with nothing written.
LoseShot(p) ==
  /\ caller[p].at = "taken"
  /\ Goes(p, Idle)
  /\ UNCHANGED <<now, tables, heard, reader>>

\* Once its row is written, a capture is compared with another of its claim if
\* it asked for that, and the comparison's row is written in its turn.
Compare(id, source, target, settings, changed) ==
  /\ RoomForShots
  /\ source # target /\ source.claim = target.claim
  /\ \A r \in comparisons : r.id # id /\ r.source # source.id
  /\ comparisons' = comparisons \cup
       {[id |-> id, at |-> now, source |-> source.id, target |-> target.id,
         claim |-> source.claim, settings |-> settings, changed |-> changed]}
  /\ UNCHANGED <<now, events, shots, feedback, caller, heard, reader>>

\* recordFeedback: with the key of a claim, or one nobody has, and with the
\* session it was made in, or without.
Submit(c, s, asked) ==
  /\ ~RefuseSubmission(asked)
  /\ RoomInLedger
  /\ LET context == CaptureContext(c, s)
     IN feedback' = Append(feedback,
          [rating |-> asked.rating, category |-> asked.category, noteLength |-> asked.noteLength,
           session |-> s, claim |-> context.claim,
           lastEvent |-> context.lastEvent, lastGuard |-> context.lastGuard])
  /\ UNCHANGED <<now, events, shots, comparisons, caller, heard, reader>>

Tick ==
  /\ now < LastInstant
  /\ now' = now + 1
  /\ UNCHANGED <<tables, caller, heard, reader>>

-----------------------------------------------------------------------------
(* Readers.                                                                *)

Away == [job |-> "none"]

Untouched == UNCHANGED <<now, tables, caller, heard>>

EventQuery   == {ParseEvents(l) : l \in EventLines} \ {Nothing}
CaptureQuery == {ParseCaptures(l) : l \in CaptureLines} \ {Nothing}
DiffQuery    == {ParseDiffs(l) : l \in DiffLines} \ {Nothing}

\* A ledger is read from one line on: `seen` is what was printed of it, in
\* the order of the rows.
OpenLedger(line) ==
  /\ reader = Away
  /\ ParseEvents(line) # Nothing
  /\ reader' = [job |-> "ledger", line |-> line, seen |-> << >>, cursor |-> Null]
  /\ Untouched

InOrder(q, slice) == IF q.order = "oldest" THEN slice.entries ELSE Reverse(slice.entries)

\* The same line again, with the cursor it printed.
ReadOn ==
  /\ reader.job = "ledger"
  /\ LET q == ParseEvents(IF reader.cursor = Null THEN reader.line
                          ELSE reader.line \o <<Flag("since"), Number(reader.cursor)>>)
         slice == ReadLedger(q)
     IN reader' = [reader EXCEPT !.seen = @ \o InOrder(q, slice),
                                 !.cursor = IF slice.cursor = Null THEN @ ELSE slice.cursor]
  /\ Untouched

\* Or with the first row it printed, to see what came before.
ReadBack ==
  /\ reader.job = "ledger"
  /\ reader.seen # << >>
  /\ LET q == ParseEvents(reader.line \o <<Flag("before"), Number(Head(reader.seen))>>)
     IN reader' = [reader EXCEPT !.seen = InOrder(q, ReadLedger(q)) \o @]
  /\ Untouched

\* The captures up to an instant are added up, and then those since.
Since(q) == [q EXCEPT !.since = q.until, !.until = Null]

OpenCaptures(q) ==
  /\ reader = Away
  /\ q.mode = "rollup" /\ q.since = Null /\ q.until # Null
  /\ Since(q) \in CaptureQuery
  /\ reader' = [job |-> "captures", window |-> q, parts |-> << >>, known |-> shots]
  /\ Untouched

SelectPart ==
  /\ reader.job = "captures"
  /\ Len(reader.parts) < 8
  /\ LET n == Len(reader.parts)
     IN reader' = [reader EXCEPT !.parts =
                     Append(@, IF n < 4 THEN RollupPart(n + 1, reader.window)
                               ELSE RollupPart(n - 3, Since(reader.window)))]
  /\ Untouched

Leave ==
  /\ reader # Away
  /\ reader' = Away
  /\ Untouched

-----------------------------------------------------------------------------
ReadersInit ==
  /\ about \in {"ledger", "feedback", "captures"}
  /\ now = 0
  /\ events = << >> /\ shots = {} /\ comparisons = {} /\ feedback = << >>
  /\ caller = [p \in Caller |-> Idle]
  /\ heard = [c \in Claim |-> [row |-> 0, rule |-> Null, left |-> FALSE]]
  /\ reader = Away

\* Readers follow the ledger, feedback is given about it, and captures and
\* comparisons, which share no table with either, are added up: one of the
\* three is looked at at a time.
LedgerStep ==
  /\ about \in {"ledger", "feedback"}
  /\ UNCHANGED about
  /\ \/ \E p \in Caller, c \in Claim : Call(p, c)
     \/ \E p \in Caller, c \in Claim \cup {Null} : RefuseCall(p, c)
     \/ \E c \in Claim : RefuseArguments(c)
     \/ \E p \in Caller : WriteRefusal(p) \/ LoseRefusal(p) \/ Answer(p)
     \/ /\ about = "feedback"
        /\ \E c \in Claim \cup {Null}, s \in Session \cup {Null}, asked \in Submissions :
             Submit(c, s, asked)
     \/ /\ about = "ledger"
        /\ \/ \E line \in EventLines : OpenLedger(line)
           \/ ReadOn \/ ReadBack \/ Leave

CaptureStep ==
  /\ about = "captures"
  /\ UNCHANGED about
  /\ \/ \E p \in Caller, c \in Claim, picture \in Pictures : TakePicture(p, c, picture)
     \/ \E p \in Caller, id \in Ids : RecordShot(p, id)
     \/ \E p \in Caller : LoseShot(p)
     \/ \E id \in Ids, source, target \in shots, settings \in Settings, changed \in BOOLEAN :
          Compare(id, source, target, settings, changed)
     \/ \E q \in CaptureQuery : OpenCaptures(q)
     \/ SelectPart \/ Leave
     \/ Tick

ReadersNext == LedgerStep \/ CaptureStep

ReadersSpec == ReadersInit /\ [][ReadersNext]_readersVars

-----------------------------------------------------------------------------
(* Properties.                                                             *)

\* Whoever reads the ledger page by page, on from the cursor that was printed
\* or back from the first row, while calls and late refusals are written,
\* prints every row that matches between the first and the last one once, and
\* in order (operations/ledger.ts: readLedger, runEventsCommand).
FollowerMissesNothing ==
  reader.job = "ledger" /\ reader.seen # << >> =>
    LET q == [ParseEvents(reader.line) EXCEPT !.since = Head(reader.seen) - 1]
    IN reader.seen = Ascending({i \in Matching(q) : i <= Last(reader.seen)})

\* Feedback that is given with a key names a row of that claim, and the rule
\* of that very row.  The row is no older than the last call that was answered
\* and left one, and when it is that call's, and no other was answered since,
\* the rule is the one its caller was told (feedback/record.ts:
\* captureContext).  A call that is refused for its arguments leaves no row:
\* feedback given next names a call before it, or after, and never the rule
\* it is about.  The table takes whatever was let through, and who reads the
\* feedback of that category is shown it first.
FeedbackNamesTheCall ==
  [][\A n \in DOMAIN feedback' \ DOMAIN feedback :
       LET f == feedback'[n] IN
       /\ f.lastEvent # Null => f.lastGuard = events[f.lastEvent].guard
       /\ f.claim # Null =>
            LET last == heard[f.claim] IN
            /\ f.lastEvent # Null => events[f.lastEvent].claim = f.claim
            /\ last.row # 0 => f.lastEvent # Null /\ f.lastEvent >= last.row
            /\ last.left /\ f.lastEvent = last.row => f.lastGuard = last.rule
            /\ last.rule = ArgumentRule => ~last.left /\ f.lastGuard # last.rule
       /\ LegalFeedback(f)
       /\ \A k \in {f.category} : ReadFeedback(k, 1)' = <<n>>]_readersVars

\* What groups have of a field together, counted one by one.
Total(field, groups) ==
  Cardinality(UNION {{g} \X (1 .. groups[g][field]) : g \in DOMAIN groups})

\* The captures until an instant and those since make up all of them: none
\* that was recorded beforehand is left out and none is counted twice, and of
\* one window no later SELECT finds less than an earlier one.
WindowsCountOnce ==
  reader.job = "captures" =>
    \A field \in {"captures", "downscaled", "warned"} :
      LET Sum(n) == Total(field, reader.parts[n])
          done   == DOMAIN reader.parts
          Whole(S) == Total(field, ToGroups({x \in S : IsOrAny(reader.window.claim, x.claim)},
                                            LAMBDA shot : ""))
      IN /\ \A n \in {2, 3, 6, 7} \cap done : Sum(n - 1) <= Sum(n)
         /\ 5 \in done => /\ Whole(reader.known) <= Sum(1) + Sum(5)
                          /\ Sum(1) + Sum(5) <= Whole(shots)

\* The window of each SELECT.
WindowAt(window, n) == IF n < 5 THEN window ELSE Since(window)

ReasonsIn(w, S) ==
  {[id |-> x.id, at |-> x.takenAt] : x \in {y \in S : InWindow(w, y) /\ y.picture.reason}}

\* The written reasons a rollup lists are those of its window's newest rows
\* that have one: newest first, as many as are shown, and no row that was
\* there when the reader began is passed over for one that is older.
ReasonsAreTheNewest ==
  reader.job = "captures" =>
    \A n \in {4, 8} \cap DOMAIN reader.parts :
      LET listed == reader.parts[n]
          Reasons(S) == ReasonsIn(WindowAt(reader.window, n), S)
      IN /\ Len(listed) <= MaximumReasons
         /\ ToSet(listed) \subseteq Reasons(shots)
         /\ \A i, j \in DOMAIN listed : i < j => Later(listed[i], listed[j])
         /\ \A x \in Reasons(reader.known) \ ToSet(listed) :
              Len(listed) = MaximumReasons /\ \A i \in DOMAIN listed : Later(listed[i], x)

\* The comparisons of a capture, as many as are asked for, are the ones that
\* are listed for it, and so are those of the most compared against.
DiffsAddUp ==
  /\ \A q \in CaptureQuery, d \in DiffQuery :
       /\ q.mode = "capture" /\ d.claim = Null /\ d.limit = ClampLimit(q.limit)
       => LET activity == CaptureDiffActivity(q.capture, q.limit)
              listed   == ToOutcomes(ListComparisons(d))
          IN /\ d.source = q.capture /\ d.target = Null => activity.asSource = listed
             /\ d.source = Null /\ d.target = q.capture => activity.asTarget = listed
  /\ \A q \in CaptureQuery, d \in DiffQuery :
       q.mode = "targets" =>
       \A t \in ToSet(MostDiffedTargets(q.limit)) :
         d = [ok |-> TRUE, source |-> Null, target |-> t.target, claim |-> Null, limit |-> Null]
         => LET listed == ToOutcomes(ListComparisons(d))
            IN t.comparisons = listed.comparisons /\ t.changed = listed.changed

\* As many refusals of a rule are counted as the ledger has rows that name it.
RefusalsAddUp ==
  \A q \in EventQuery :
    LET counts == CountByGuard(q)
    IN \A g \in DOMAIN counts : counts[g] = ReadLedger([q EXCEPT !.guard = g]).total

\* Whatever is added up of the records agrees with what is listed of them,
\* though each is read by code of its own and beside callers that write.
ReadingsAgree ==
  IF about = "captures" THEN WindowsCountOnce /\ ReasonsAreTheNewest /\ DiffsAddUp ELSE RefusalsAddUp
=============================================================================
