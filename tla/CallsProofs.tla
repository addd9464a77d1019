------------------------------ MODULE CallsProofs ------------------------------
(* Theorems about Calls, for any number of processes, claims and pages and *)
(* whatever lines the callers write: nothing is assumed of what a line     *)
(* asks.                                                                   *)
EXTENDS Calls, FiniteSetTheorems, SequenceTheorems, TLAPS

-----------------------------------------------------------------------------
(* The rows of a claim.                                                    *)

Row == [state : {"opening", "open", "closing", "closed"}, page : Page \cup {Null}]

LiveIn(rows) == {n \in DOMAIN rows : rows[n].state \in Live}

\* Rows are kept from a claim's grant, and one of them is live until its end.
RowsInv ==
  /\ state \in [Claim -> {"none", "queued", "active", "ended"}]
  /\ tabs \in [Claim -> Seq(Row)]
  /\ \A c \in Claim :
       /\ state[c] \in {"none", "queued"} => tabs[c] = << >>
       /\ state[c] = "active" => \E n \in DOMAIN tabs[c] : LiveIn(tabs[c]) = {n}
       /\ state[c] # "active" => LiveIn(tabs[c]) = {}

\* A call at work is about a row of its claim, and one that opened a page for
\* it opened that page for its claim.
WorkOf(p) ==
  /\ At(p, "look up") => {"step", "tab"} \subseteq DOMAIN call[p]
  /\ \A step \in {"open", "record", "seed", "work"} : At(p, step) =>
       /\ {"step", "claim", "tab", "page", "seeds"} \subseteq DOMAIN call[p]
       /\ call[p].claim \in Claim
       /\ call[p].tab \in DOMAIN tabs[call[p].claim]
  /\ At(p, "record") \/ At(p, "seed") =>
       call[p].page \in Page /\ openedFor[call[p].page] = call[p].claim

WorkInv ==
  /\ call = [p \in Process |-> call[p]]
  /\ \A p \in Process : WorkOf(p)

Grows == \A c \in Claim : DOMAIN tabs[c] \subseteq DOMAIN tabs'[c]

LEMMA RowsReserved ==
  /\ Reserved \in Row /\ <<Reserved>> \in Seq(Row)
  /\ DOMAIN <<Reserved>> = {1} /\ LiveIn(<<Reserved>>) = {1}
<1>1. Reserved \in Row
  BY DEF Reserved, Row
<1>2. DOMAIN <<Reserved>> = {1}
  OBVIOUS
<1>3. LiveIn(<<Reserved>>) = {1}
  BY <1>2 DEF LiveIn, Reserved, Live
<1> QED
  BY <1>1, <1>2, <1>3

LEMMA GivenUpRow ==
  ASSUME NEW row \in Row
  PROVE  GivenUp(row) \in Row /\ GivenUp(row).state \notin Live
BY DEF GivenUp, Row, Live

LEMMA GivenUpRows ==
  ASSUME NEW c \in Claim, tabs[c] \in Seq(Row)
  PROVE  /\ GivenUpAll(c) \in Seq(Row)
         /\ DOMAIN GivenUpAll(c) = DOMAIN tabs[c]
         /\ LiveIn(GivenUpAll(c)) = {}
<1>1. \A n \in DOMAIN tabs[c] : tabs[c][n] \in Row
  OBVIOUS
<1>2. /\ DOMAIN GivenUpAll(c) = DOMAIN tabs[c]
      /\ \A n \in DOMAIN tabs[c] : GivenUpAll(c)[n] = GivenUp(tabs[c][n])
  BY DEF GivenUpAll
<1>3. \A n \in DOMAIN tabs[c] : GivenUpAll(c)[n] \in Row /\ GivenUpAll(c)[n].state \notin Live
  BY <1>1, <1>2, GivenUpRow
<1>4. LiveIn(GivenUpAll(c)) = {}
  BY <1>2, <1>3 DEF LiveIn
<1>5. DOMAIN tabs[c] = 1 .. Len(tabs[c]) /\ Len(tabs[c]) \in Nat
  OBVIOUS
<1>6. GivenUpAll(c) \in [1 .. Len(tabs[c]) -> Row]
  BY <1>2, <1>3, <1>5 DEF GivenUpAll
<1>7. GivenUpAll(c) \in Seq(Row)
  BY <1>5, <1>6, SeqDef
<1> QED
  BY <1>2, <1>4, <1>7

\* The rows of a claim whose live row gives way to a new one.
Replaced(rows, n) == Append([rows EXCEPT ![n] = GivenUp(rows[n])], Reserved)

\* Replacing the live row leaves the new one as the only live row.
LEMMA RowsReplaced ==
  ASSUME NEW rows \in Seq(Row), NEW n \in DOMAIN rows, LiveIn(rows) = {n}
  PROVE  /\ Replaced(rows, n) \in Seq(Row)
         /\ DOMAIN rows \subseteq DOMAIN Replaced(rows, n)
         /\ Len(rows) + 1 \in DOMAIN Replaced(rows, n)
         /\ LiveIn(Replaced(rows, n)) = {Len(rows) + 1}
<1>0. PICK after : after = Replaced(rows, n)
  OBVIOUS
<1> DEFINE given == [rows EXCEPT ![n] = GivenUp(rows[n])]
<1>1. rows[n] \in Row /\ GivenUp(rows[n]) \in Row /\ GivenUp(rows[n]).state \notin Live
  BY GivenUpRow
<1>2. given \in Seq(Row) /\ Len(given) = Len(rows)
  BY <1>1
<1>3. /\ after \in Seq(Row) /\ Len(after) = Len(rows) + 1
      /\ after[Len(rows) + 1] = Reserved
      /\ \A k \in 1 .. Len(rows) : after[k] = given[k]
  BY <1>0, <1>2, RowsReserved DEF Replaced
<1>4. Len(rows) \in Nat /\ DOMAIN rows = 1 .. Len(rows)
  OBVIOUS
<1>5. DOMAIN after = 1 .. (Len(rows) + 1)
  BY <1>3
<1>6. \A k \in 1 .. Len(rows) : after[k].state \notin Live
  <2> SUFFICES ASSUME NEW k \in 1 .. Len(rows)
               PROVE  after[k].state \notin Live
    OBVIOUS
  <2>1. CASE k = n
    BY <2>1, <1>1, <1>3, <1>4
  <2>2. CASE k # n
    <3>1. after[k] = rows[k]
      BY <2>2, <1>3, <1>4
    <3> QED
      BY <2>2, <3>1, <1>4 DEF LiveIn
  <2> QED
    BY <2>1, <2>2
<1>7. after[Len(rows) + 1].state \in Live
  BY <1>3 DEF Reserved, Live
<1>8. LiveIn(after) = {Len(rows) + 1}
  BY <1>4, <1>5, <1>6, <1>7 DEF LiveIn
<1>9. DOMAIN rows \subseteq DOMAIN after /\ Len(rows) + 1 \in DOMAIN after
  BY <1>4, <1>5
<1> QED
  BY <1>0, <1>3, <1>8, <1>9

LEMMA RowsOpened ==
  ASSUME NEW rows \in Seq(Row), NEW n \in DOMAIN rows, rows[n].state = "opening", NEW g \in Page,
         NEW after, after = [rows EXCEPT ![n] = [state |-> "open", page |-> g]]
  PROVE  /\ after \in Seq(Row)
         /\ DOMAIN after = DOMAIN rows
         /\ LiveIn(after) = LiveIn(rows)
<1>1. [state |-> "open", page |-> g] \in Row
  BY DEF Row
<1>2. after \in Seq(Row) /\ DOMAIN after = DOMAIN rows
  BY <1>1
<1>3. \A k \in DOMAIN rows : after[k].state \in Live <=> rows[k].state \in Live
  BY DEF Live
<1> QED
  BY <1>2, <1>3 DEF LiveIn

LEMMA LiveRowsAre == \A c \in Claim : LiveRows(c) = LiveIn(tabs[c])
BY DEF LiveRows, LiveIn

-----------------------------------------------------------------------------
(* One live row.                                                           *)

LEMMA RowsWritten ==
  ASSUME RowsInv, NEW c \in Claim, NEW s \in {"none", "queued", "active", "ended"},
         NEW rows \in Seq(Row),
         s \in {"none", "queued"} => rows = << >>,
         s = "active" => \E n \in DOMAIN rows : LiveIn(rows) = {n},
         s # "active" => LiveIn(rows) = {},
         DOMAIN tabs[c] \subseteq DOMAIN rows,
         state' = [state EXCEPT ![c] = s], tabs' = [tabs EXCEPT ![c] = rows]
  PROVE  RowsInv' /\ Grows
<1>1. /\ state' \in [Claim -> {"none", "queued", "active", "ended"}]
      /\ tabs' \in [Claim -> Seq(Row)]
  BY DEF RowsInv
<1>2. state'[c] = s /\ tabs'[c] = rows
  BY DEF RowsInv
<1>3. \A d \in Claim \ {c} : state'[d] = state[d] /\ tabs'[d] = tabs[d]
  BY DEF RowsInv
<1>4. \A d \in Claim :
        /\ state'[d] \in {"none", "queued"} => tabs'[d] = << >>
        /\ state'[d] = "active" => \E n \in DOMAIN tabs'[d] : LiveIn(tabs'[d]) = {n}
        /\ state'[d] # "active" => LiveIn(tabs'[d]) = {}
  <2> SUFFICES ASSUME NEW d \in Claim
               PROVE  /\ state'[d] \in {"none", "queued"} => tabs'[d] = << >>
                      /\ state'[d] = "active" => \E n \in DOMAIN tabs'[d] : LiveIn(tabs'[d]) = {n}
                      /\ state'[d] # "active" => LiveIn(tabs'[d]) = {}
    OBVIOUS
  <2>1. CASE d = c
    BY <1>2, <2>1
  <2>2. CASE d # c
    <3>1. state'[d] = state[d] /\ tabs'[d] = tabs[d]
      BY <1>3, <2>2
    <3> QED
      BY <3>1 DEF RowsInv
  <2> QED
    BY <2>1, <2>2
<1>5. Grows
  BY <1>2, <1>3 DEF Grows
<1> QED
  BY <1>1, <1>4, <1>5 DEF RowsInv

LEMMA RowsAtRest ==
  ASSUME RowsInv, UNCHANGED rowVars
  PROVE  RowsInv' /\ Grows
BY DEF RowsInv, rowVars, Grows

\* A grant, at once or after a wait.
LEMMA RowsGranted ==
  ASSUME RowsInv, NEW c \in Claim, state[c] \in {"none", "queued"},
         state' = [state EXCEPT ![c] = "active"], tabs' = [tabs EXCEPT ![c] = <<Reserved>>]
  PROVE  RowsInv' /\ Grows
<1>1. DOMAIN tabs[c] = {}
  BY DEF RowsInv
<1> QED
  BY <1>1, RowsReserved, RowsWritten

\* An end, by release or by lapse.
LEMMA RowsEnded ==
  ASSUME RowsInv, NEW c \in Claim,
         state' = [state EXCEPT ![c] = "ended"], tabs' = [tabs EXCEPT ![c] = GivenUpAll(c)]
  PROVE  RowsInv' /\ Grows
<1>1. tabs[c] \in Seq(Row)
  BY DEF RowsInv
<1> QED
  BY <1>1, GivenUpRows, RowsWritten

LEMMA QueueRows ==
  ASSUME RowsInv, NEW p \in Process, NEW c \in Claim, Queue(p, c)
  PROVE  RowsInv' /\ Grows
<1>1. tabs[c] = << >> /\ tabs[c] \in Seq(Row) /\ LiveIn(tabs[c]) = {}
  BY DEF RowsInv, Queue
<1>2. tabs' = [tabs EXCEPT ![c] = tabs[c]]
  BY DEF RowsInv, Queue
<1>3. state' = [state EXCEPT ![c] = "queued"]
  BY DEF Queue
<1> QED
  BY <1>1, <1>2, <1>3, RowsWritten

LEMMA TabReplaceRows ==
  ASSUME RowsInv, NEW p \in Process, TabReplace(p)
  PROVE  /\ RowsInv' /\ Grows
         /\ call[p].key \in Claim /\ Len(tabs[call[p].key]) + 1 \in DOMAIN tabs'[call[p].key]
<1> DEFINE c == call[p].key
           n == call[p].tab
           after == Append([tabs[c] EXCEPT ![n] = GivenUp(tabs[c][n])], Reserved)
<1>1. /\ c \in Claim /\ n \in DOMAIN tabs[c] /\ tabs[c][n].state \in Live
      /\ tabs' = [tabs EXCEPT ![c] = after] /\ state' = state
  BY DEF TabReplace, Admitted, Resolves, OwnedTab, TabOps
<1>2. tabs[c] \in Seq(Row) /\ n \in LiveIn(tabs[c])
  BY <1>1 DEF RowsInv, LiveIn
<1>3. state[c] = "active" /\ LiveIn(tabs[c]) = {n}
  BY <1>1, <1>2 DEF RowsInv
<1>4. /\ after \in Seq(Row) /\ DOMAIN tabs[c] \subseteq DOMAIN after
      /\ Len(tabs[c]) + 1 \in DOMAIN after /\ LiveIn(after) = {Len(tabs[c]) + 1}
  <2>1. after = Replaced(tabs[c], n)
    BY DEF Replaced
  <2> QED
    BY <1>1, <1>2, <1>3, <2>1, RowsReplaced
<1> HIDE DEF after
<1>5. state' = [state EXCEPT ![c] = "active"]
  BY <1>1, <1>3 DEF RowsInv
<1>6. RowsInv' /\ Grows
  BY <1>1, <1>4, <1>5, RowsWritten
<1>7. tabs'[c] = after
  BY <1>1 DEF RowsInv
<1> QED
  BY <1>1, <1>4, <1>6, <1>7

LEMMA RecordPageRows ==
  ASSUME RowsInv, WorkInv, NEW p \in Process, RecordPage(p)
  PROVE  RowsInv' /\ Grows
<1> DEFINE c == call[p].claim
           n == call[p].tab
           after == [tabs[c] EXCEPT ![n] = [state |-> "open", page |-> call[p].page]]
<1>1. /\ c \in Claim /\ n \in DOMAIN tabs[c] /\ call[p].page \in Page
      /\ tabs[c] \in Seq(Row) /\ state' = state
  BY DEF RecordPage, WorkInv, WorkOf, RowsInv
<1>2. CASE tabs[c][n].state # "opening"
  BY <1>1, <1>2, RowsAtRest DEF RecordPage, rowVars
<1>3. CASE tabs[c][n].state = "opening"
  <2>1. tabs' = [tabs EXCEPT ![c] = after]
    BY <1>3 DEF RecordPage
  <2> HIDE DEF after
  <2>2. /\ after \in Seq(Row) /\ DOMAIN after = DOMAIN tabs[c] /\ LiveIn(after) = LiveIn(tabs[c])
    BY <1>1, <1>3, RowsOpened DEF after
  <2>3. n \in LiveIn(tabs[c])
    BY <1>1, <1>3 DEF LiveIn, Live
  <2>4. state[c] = "active"
    BY <1>1, <2>3 DEF RowsInv
  <2>5. state' = [state EXCEPT ![c] = "active"]
    BY <1>1, <2>4 DEF RowsInv
  <2>6. \E k \in DOMAIN after : LiveIn(after) = {k}
    BY <1>1, <2>2, <2>4 DEF RowsInv
  <2> QED
    BY <1>1, <2>1, <2>2, <2>5, <2>6, RowsWritten
<1> QED
  BY <1>2, <1>3

LEMMA RowsStep ==
  ASSUME RowsInv, WorkInv, [Next]_vars
  PROVE  RowsInv' /\ Grows
<1>1. CASE UNCHANGED rowVars
  BY <1>1, RowsAtRest
<1>2. ASSUME NEW p \in Process, NEW c \in Claim, Grant(p, c)
      PROVE  RowsInv' /\ Grows
  BY <1>2, RowsGranted DEF Grant
<1>3. ASSUME NEW p \in Process, NEW c \in Claim, Queue(p, c)
      PROVE  RowsInv' /\ Grows
  BY <1>3, QueueRows
<1>4. ASSUME NEW p \in Process, Release(p)
      PROVE  RowsInv' /\ Grows
  <2>1. /\ call[p].key \in Claim
        /\ state' = [state EXCEPT ![call[p].key] = "ended"]
        /\ tabs' = [tabs EXCEPT ![call[p].key] = GivenUpAll(call[p].key)]
    BY <1>4 DEF Release, Admitted, Resolves
  <2> QED
    BY <2>1, RowsEnded
<1>5. ASSUME NEW p \in Process, TabReplace(p)
      PROVE  RowsInv' /\ Grows
  BY <1>5, TabReplaceRows
<1>6. ASSUME NEW p \in Process, RecordPage(p)
      PROVE  RowsInv' /\ Grows
  BY <1>6, RecordPageRows
<1>7. ASSUME NEW c \in Claim, Promote(c)
      PROVE  RowsInv' /\ Grows
  BY <1>7, RowsGranted DEF Promote
<1>8. ASSUME NEW c \in Claim, Lapse(c)
      PROVE  RowsInv' /\ Grows
  BY <1>8, RowsEnded DEF Lapse
<1>9. ASSUME NEW p \in Process, NEW line \in Lines,
             AnswerLine(p, line) \/ IgnoreLine(p, line) \/ Call(p, line)
      PROVE  UNCHANGED rowVars
  BY <1>9 DEF AnswerLine, IgnoreLine, Call, vars
<1>10. ASSUME NEW p \in Process,
              \/ LookUp(p) \/ Refuse(p) \/ AnswerClaim(p) \/ WaitForGrant(p) \/ SignIn(p)
              \/ Status(p) \/ ReleaseEnded(p) \/ PageCall(p) \/ SeedOrigin(p) \/ RecordSeed(p)
              \/ Work(p) \/ WorkFails(p) \/ Answer(p) \/ Die(p) \/ \E g \in Page : OpenPage(p, g)
       PROVE  UNCHANGED rowVars
  BY <1>10 DEF LookUp, Refuse, AnswerClaim, WaitForGrant, SignIn, Status, ReleaseEnded, PageCall,
               SeedOrigin, RecordSeed, Work, WorkFails, Answer, Die, OpenPage
<1> QED
  BY <1>1, <1>2, <1>3, <1>4, <1>5, <1>6, <1>7, <1>8, <1>9, <1>10 DEF Next, vars

-----------------------------------------------------------------------------
(* Calls at work.                                                          *)

\* A page once opened for a claim stays its page.
PagesKept == \A g \in Page : openedFor[g] # Null => openedFor'[g] = openedFor[g]

\* What the step of one process leaves the calls of the others.
LEMMA WorkWritten ==
  ASSUME WorkInv, Grows, PagesKept, NEW p \in Process,
         call' = [q \in Process |-> IF q = p THEN call'[p] ELSE call[q]],
         WorkOf(p)'
  PROVE  WorkInv'
<1>1. call' = [q \in Process |-> call'[q]]
  OBVIOUS
<1>2. ASSUME NEW q \in Process, q # p
      PROVE  WorkOf(q)'
  <2>1. call'[q] = call[q] /\ WorkOf(q)
    BY <1>2 DEF WorkInv
  <2>2. \A step : At(q, step)' <=> At(q, step)
    BY <2>1 DEF At
  <2>3. \A step \in {"open", "record", "seed", "work"} : At(q, step) =>
          /\ {"step", "claim", "tab", "page", "seeds"} \subseteq DOMAIN call'[q]
          /\ call'[q].claim \in Claim
          /\ call'[q].tab \in DOMAIN tabs'[call'[q].claim]
    BY <2>1 DEF WorkOf, Grows
  <2>4. At(q, "record") \/ At(q, "seed") =>
          call'[q].page \in Page /\ openedFor'[call'[q].page] = call'[q].claim
    <3> SUFFICES ASSUME At(q, "record") \/ At(q, "seed")
                 PROVE  call'[q].page \in Page /\ openedFor'[call'[q].page] = call'[q].claim
      OBVIOUS
    <3>1. /\ call[q].page \in Page /\ openedFor[call[q].page] = call[q].claim
          /\ call[q].claim \in Claim
      BY <2>1 DEF WorkOf
    <3> QED
      BY <2>1, <3>1, CallsAssumption DEF PagesKept
  <2> QED
    BY <2>1, <2>2, <2>3, <2>4 DEF WorkOf
<1> QED
  BY <1>1, <1>2 DEF WorkInv

\* Nothing is asked of a call that is not at work.
LEMMA NotAtWork ==
  ASSUME NEW p \in Process,
         \/ call'[p] = Null
         \/ call'[p].step \notin {"look up", "open", "record", "seed", "work"}
  PROVE  WorkOf(p)'
BY DEF WorkOf, At

LEMMA CallWritten ==
  ASSUME WorkInv, NEW p \in Process, NEW new, call' = [call EXCEPT ![p] = new]
  PROVE  /\ call' = [q \in Process |-> IF q = p THEN call'[p] ELSE call[q]]
         /\ call'[p] = new
BY DEF WorkInv

LEMMA CallIsRead ==
  ASSUME WorkInv, Grows, NEW p \in Process, NEW line \in Lines, Call(p, line)
  PROVE  WorkInv'
<1> DEFINE new == Begun(Reception[line].call)
<1>1. call' = [call EXCEPT ![p] = new] /\ openedFor' = openedFor
  BY DEF Call, pageVars
<1>2. /\ call' = [q \in Process |-> IF q = p THEN call'[p] ELSE call[q]]
      /\ call'[p] = new
  BY <1>1, CallWritten
<1>3. new.step \in {"look up", "decide"} /\ {"step", "tab"} \subseteq DOMAIN new
  BY DEF Begun
<1>4. WorkOf(p)'
  <2> HIDE DEF new
  <2> QED
    BY <1>2, <1>3 DEF WorkOf, At
<1> QED
  BY <1>1, <1>2, <1>4, WorkWritten DEF PagesKept

LEMMA TabIsLookedUp ==
  ASSUME WorkInv, Grows, NEW p \in Process, LookUp(p)
  PROVE  WorkInv'
<1> DEFINE new == [[call[p] EXCEPT !.step = "decide"] EXCEPT !.tab = TabForKey(call[p].key)]
<1>1. {"step", "tab"} \subseteq DOMAIN call[p]
  BY DEF LookUp, WorkInv, WorkOf
<1>2. new.step = "decide"
  BY <1>1
<1>3. call' = [call EXCEPT ![p] = new] /\ openedFor' = openedFor
  BY DEF LookUp, pageVars, WorkInv
<1> HIDE DEF new
<1>4. /\ call' = [q \in Process |-> IF q = p THEN call'[p] ELSE call[q]]
      /\ call'[p] = new
  BY <1>3, CallWritten
<1>5. WorkOf(p)'
  BY <1>2, <1>4, NotAtWork
<1> QED
  BY <1>3, <1>4, <1>5, WorkWritten DEF PagesKept

LEMMA PageCallBegins ==
  ASSUME RowsInv, WorkInv, Grows, NEW p \in Process, PageCall(p)
  PROVE  WorkInv'
<1> DEFINE page == tabs[call[p].key][call[p].tab].page
           new == [step |-> IF page = Null THEN "open" ELSE "work", claim |-> call[p].key,
                   tab |-> call[p].tab, page |-> page, seeds |-> TRUE, late |-> call[p].late]
<1>1. call' = [call EXCEPT ![p] = new] /\ openedFor' = openedFor /\ tabs' = tabs
  BY DEF PageCall, pageVars, rowVars
<1>2. call[p].key \in Claim /\ call[p].tab \in DOMAIN tabs[call[p].key]
  BY DEF PageCall, Admitted, Resolves, OwnedTab, TabOps
<1>3. /\ new.step \in {"open", "work"} /\ new.claim \in Claim /\ new.tab \in DOMAIN tabs'[new.claim]
      /\ {"step", "claim", "tab", "page", "seeds"} \subseteq DOMAIN new
  BY <1>1, <1>2
<1> HIDE DEF new
<1>4. /\ call' = [q \in Process |-> IF q = p THEN call'[p] ELSE call[q]]
      /\ call'[p] = new
  BY <1>1, CallWritten
<1>5. WorkOf(p)'
  BY <1>3, <1>4 DEF WorkOf, At
<1> QED
  BY <1>1, <1>4, <1>5, WorkWritten DEF PagesKept

LEMMA ReplacementBegins ==
  ASSUME RowsInv, WorkInv, Grows, NEW p \in Process, TabReplace(p)
  PROVE  WorkInv'
<1> DEFINE new == [step |-> "open", claim |-> call[p].key, tab |-> Len(tabs[call[p].key]) + 1,
                   page |-> Null, seeds |-> FALSE, late |-> FALSE]
<1>1. call' = [call EXCEPT ![p] = new] /\ openedFor' = openedFor
  BY DEF TabReplace, pageVars
<1>2. /\ new.step = "open" /\ new.claim \in Claim /\ new.tab \in DOMAIN tabs'[new.claim]
      /\ {"step", "claim", "tab", "page", "seeds"} \subseteq DOMAIN new
  BY TabReplaceRows
<1> HIDE DEF new
<1>3. /\ call' = [q \in Process |-> IF q = p THEN call'[p] ELSE call[q]]
      /\ call'[p] = new
  BY <1>1, CallWritten
<1>4. WorkOf(p)'
  BY <1>2, <1>3 DEF WorkOf, At
<1> QED
  BY <1>1, <1>3, <1>4, WorkWritten DEF PagesKept

LEMMA PageIsOpened ==
  ASSUME WorkInv, Grows, openedFor \in [Page -> Claim \cup {Null}],
         NEW p \in Process, NEW g \in Page, OpenPage(p, g)
  PROVE  /\ WorkInv' /\ PagesKept
         /\ call'[p].step = "record" /\ call'[p].page = g /\ call'[p].claim = call[p].claim
         /\ call[p].claim \in Claim /\ call[p].tab \in DOMAIN tabs[call[p].claim]
<1> DEFINE new == [[call[p] EXCEPT !.step = "record"] EXCEPT !.page = g]
<1>1. /\ {"step", "claim", "tab", "page", "seeds"} \subseteq DOMAIN call[p]
      /\ call[p].claim \in Claim /\ call[p].tab \in DOMAIN tabs[call[p].claim]
  BY DEF OpenPage, WorkInv, WorkOf
<1>2. /\ new.step = "record" /\ new.page = g /\ new.claim = call[p].claim /\ new.tab = call[p].tab
      /\ {"step", "claim", "tab", "page", "seeds"} \subseteq DOMAIN new
  BY <1>1
<1>3. /\ call' = [call EXCEPT ![p] = new] /\ tabs' = tabs
      /\ openedFor' = [openedFor EXCEPT ![g] = call[p].claim] /\ openedFor[g] = Null
  BY DEF OpenPage, rowVars, WorkInv
<1> HIDE DEF new
<1>4. /\ call' = [q \in Process |-> IF q = p THEN call'[p] ELSE call[q]]
      /\ call'[p] = new
  BY <1>3, CallWritten
<1>5. PagesKept
  BY <1>3 DEF PagesKept
<1>6. WorkOf(p)'
  BY <1>1, <1>2, <1>3, <1>4 DEF WorkOf, At
<1>7. WorkInv'
  BY <1>4, <1>5, <1>6, WorkWritten
<1> QED
  BY <1>1, <1>2, <1>4, <1>5, <1>7

\* A call goes on to another step, and is otherwise the call it was.
LEMMA StepTaken ==
  ASSUME WorkInv, Grows, PagesKept, NEW p \in Process,
         NEW before \in {"open", "record", "seed", "work"}, At(p, before),
         NEW after \in {"seed", "work"}, after = "seed" => before = "record",
         call' = [call EXCEPT ![p].step = after]
  PROVE  /\ WorkInv'
         /\ call'[p].step = after /\ call'[p].page = call[p].page /\ call'[p].claim = call[p].claim
<1> DEFINE new == [call[p] EXCEPT !.step = after]
<1>1. WorkOf(p) /\ {"step", "claim", "tab", "page", "seeds"} \subseteq DOMAIN call[p]
  BY DEF WorkInv, WorkOf
<1>2. /\ new.step = after /\ new.page = call[p].page /\ new.claim = call[p].claim
      /\ new.tab = call[p].tab /\ {"step", "claim", "tab", "page", "seeds"} \subseteq DOMAIN new
  BY <1>1
<1>3. call' = [call EXCEPT ![p] = new]
  BY DEF WorkInv
<1> HIDE DEF new
<1>4. /\ call' = [q \in Process |-> IF q = p THEN call'[p] ELSE call[q]]
      /\ call'[p] = new
  BY <1>3, CallWritten
<1>5. /\ call[p].claim \in Claim /\ call[p].tab \in DOMAIN tabs'[call[p].claim]
  BY <1>1 DEF WorkOf, Grows
<1>6. after = "seed" => call[p].page \in Page /\ openedFor'[call[p].page] = call[p].claim
  <2> SUFFICES ASSUME after = "seed"
               PROVE  call[p].page \in Page /\ openedFor'[call[p].page] = call[p].claim
    OBVIOUS
  <2>1. call[p].page \in Page /\ openedFor[call[p].page] = call[p].claim
    BY <1>1 DEF WorkOf, At
  <2> QED
    BY <1>5, <2>1, CallsAssumption DEF PagesKept
<1>7. WorkOf(p)'
  BY <1>2, <1>4, <1>5, <1>6 DEF WorkOf, At
<1>8. WorkInv'
  BY <1>4, <1>7, WorkWritten
<1> QED
  BY <1>2, <1>4, <1>8

\* A call comes to its end, or to a step that is no work.
LEMMA WorkLeft ==
  ASSUME WorkInv, Grows, PagesKept, NEW p \in Process, NEW new, call' = [call EXCEPT ![p] = new],
         new = Null \/ new.step \notin {"look up", "open", "record", "seed", "work"}
  PROVE  WorkInv'
<1>1. /\ call' = [q \in Process |-> IF q = p THEN call'[p] ELSE call[q]]
      /\ call'[p] = new
  BY CallWritten
<1> QED
  BY <1>1, NotAtWork, WorkWritten

LEMMA WorkAtRest ==
  ASSUME WorkInv, Grows, PagesKept, call' = call
  PROVE  WorkInv'
<1> SUFFICES ASSUME NEW q \in Process
             PROVE  WorkInv'
  BY DEF WorkInv
<1>1. call' = [p \in Process |-> IF p = q THEN call'[q] ELSE call[p]]
  BY DEF WorkInv
<1>2. WorkOf(q)
  BY DEF WorkInv
<1>3. WorkOf(q)'
  <2>1. \A step : At(q, step)' <=> At(q, step)
    BY DEF At
  <2>2. \A step \in {"open", "record", "seed", "work"} : At(q, step) =>
          /\ {"step", "claim", "tab", "page", "seeds"} \subseteq DOMAIN call'[q]
          /\ call'[q].claim \in Claim
          /\ call'[q].tab \in DOMAIN tabs'[call'[q].claim]
    BY <1>2 DEF WorkOf, Grows
  <2>3. At(q, "record") \/ At(q, "seed") =>
          call'[q].page \in Page /\ openedFor'[call'[q].page] = call'[q].claim
    BY <1>2, CallsAssumption DEF WorkOf, PagesKept
  <2> QED
    BY <1>2, <2>1, <2>2, <2>3 DEF WorkOf
<1> QED
  BY <1>1, <1>3, WorkWritten

LEMMA RecordPageWork ==
  ASSUME WorkInv, Grows, NEW p \in Process, RecordPage(p)
  PROVE  WorkInv'
<1>1. PagesKept
  BY DEF RecordPage, pageVars, PagesKept
<1>2. CASE call[p].seeds
  <2>1. PICK after \in {"seed", "work"} : call' = [call EXCEPT ![p].step = after]
    BY <1>2 DEF RecordPage
  <2> QED
    BY <1>1, <2>1, StepTaken DEF RecordPage
<1>3. CASE ~call[p].seeds
  BY <1>1, <1>3, WorkLeft DEF RecordPage, Reply
<1> QED
  BY <1>2, <1>3

LEMMA WorkStep ==
  ASSUME RowsInv, WorkInv, Grows, openedFor \in [Page -> Claim \cup {Null}], [Next]_vars
  PROVE  WorkInv'
<1>1. CASE UNCHANGED vars
  BY <1>1, WorkAtRest DEF vars, pageVars, PagesKept
<1>2. ASSUME NEW p \in Process, NEW line \in Lines,
             AnswerLine(p, line) \/ IgnoreLine(p, line) \/ Call(p, line)
      PROVE  WorkInv'
  <2>1. CASE AnswerLine(p, line)
    <3>1. /\ PagesKept
          /\ call' = [call EXCEPT ![p] = [step |-> "answer", with |-> Reception[line].answer]]
      BY <2>1 DEF AnswerLine, Reply, pageVars, PagesKept
    <3> QED
      BY <3>1, WorkLeft
  <2>2. CASE IgnoreLine(p, line)
    BY <2>2, WorkAtRest DEF IgnoreLine, vars, pageVars, PagesKept
  <2>3. CASE Call(p, line)
    BY <2>3, CallIsRead
  <2> QED
    BY <1>2, <2>1, <2>2, <2>3
<1>3. ASSUME NEW p \in Process, LookUp(p)
      PROVE  WorkInv'
  BY <1>3, TabIsLookedUp
<1>4. ASSUME NEW p \in Process,
             \/ Refuse(p) \/ WaitForGrant(p) \/ SignIn(p) \/ Status(p) \/ Release(p)
             \/ ReleaseEnded(p) \/ Work(p) \/ WorkFails(p)
      PROVE  WorkInv'
  <2>1. PagesKept /\ \E with : Reply(p, with)
    BY <1>4 DEF Refuse, WaitForGrant, SignIn, Status, Release, ReleaseEnded, Work, WorkFails,
                pageVars, PagesKept
  <2> QED
    BY <2>1, WorkLeft DEF Reply
<1>5. ASSUME NEW p \in Process, NEW c \in Claim, Grant(p, c) \/ Queue(p, c)
      PROVE  WorkInv'
  BY <1>5, WorkLeft DEF Grant, Queue, pageVars, PagesKept
<1>6. ASSUME NEW p \in Process, AnswerClaim(p) \/ Answer(p) \/ Die(p)
      PROVE  WorkInv'
  BY <1>6, WorkLeft DEF AnswerClaim, Answer, Die, pageVars, PagesKept
<1>7. ASSUME NEW p \in Process, PageCall(p)
      PROVE  WorkInv'
  BY <1>7, PageCallBegins
<1>8. ASSUME NEW p \in Process, TabReplace(p)
      PROVE  WorkInv'
  BY <1>8, ReplacementBegins
<1>9. ASSUME NEW p \in Process, NEW g \in Page, OpenPage(p, g)
      PROVE  WorkInv'
  BY <1>9, PageIsOpened
<1>10. ASSUME NEW p \in Process, RecordPage(p)
       PROVE  WorkInv'
  BY <1>10, RecordPageWork
<1>11. ASSUME NEW p \in Process, SeedOrigin(p)
       PROVE  WorkInv'
  BY <1>11, WorkAtRest DEF SeedOrigin, PagesKept
<1>12. ASSUME NEW p \in Process, RecordSeed(p)
       PROVE  WorkInv'
  BY <1>12, StepTaken DEF RecordSeed, pageVars, PagesKept
<1>13. ASSUME NEW c \in Claim, Promote(c) \/ Lapse(c)
       PROVE  WorkInv'
  BY <1>13, WorkAtRest DEF Promote, Lapse, pageVars, PagesKept
<1> QED
  BY <1>1, <1>2, <1>3, <1>4, <1>5, <1>6, <1>7, <1>8, <1>9, <1>10, <1>11, <1>12, <1>13 DEF Next

-----------------------------------------------------------------------------
(* Seeds.                                                                  *)

Holdings == {"granted", "waiting", "seed"}

\* Where the seed of a claim is: with the answer to the grant, in a process's
\* memory, or on its way into a page.
Has(p, holding, c) ==
  \/ holding = "granted" /\ At(p, "granted") /\ call[p].seed /\ call[p].claim = c
  \/ holding = "waiting" /\ c \in waiting[p]
  \/ holding = "seed" /\ At(p, "seed") /\ call[p].claim = c

InHand(p) == At(p, "record") \/ At(p, "seed")

Seeded(c) == {g \in Page : openedFor[g] = c /\ storage[g] # "none"}

PagesTyped ==
  /\ openedFor \in [Page -> Claim \cup {Null}]
  /\ storage \in [Page -> {"none", "part", "whole"}]
  /\ waiting = [p \in Process |-> waiting[p]]
  /\ \A g \in Page :
       /\ openedFor[g] = Null => storage[g] = "none"
       /\ openedFor[g] # Null => state[openedFor[g]] # "none"

\* A page being recorded is nobody else's, and holds nothing yet.
PagesApart ==
  /\ \A p \in Process : At(p, "record") => storage[call[p].page] = "none"
  /\ \A p, q \in Process : InHand(p) /\ InHand(q) /\ p # q => call[p].page # call[q].page

\* A seed is in one place at most, and while it has not come to a page nothing
\* was written; afterwards it is in that page alone.
SeedIsOne ==
  /\ \A c \in Claim, p, q \in Process, h, k \in Holdings :
       Has(p, h, c) /\ Has(q, k, c) => p = q /\ h = k
  /\ \A c \in Claim, p \in Process, h \in Holdings : Has(p, h, c) =>
       /\ state[c] # "none" /\ c \in requested
       /\ h # "seed" => Seeded(c) = {}
       /\ h = "seed" => Seeded(c) \subseteq {call[p].page}

SeedsRecorded ==
  \A c \in Claim :
    /\ \A g, h \in Seeded(c) : g = h
    /\ Seeded(c) # {} => c \in requested
    /\ c \in applied => \E g \in Seeded(c) : storage[g] = "whole"

SeedsInv == PagesTyped /\ PagesApart /\ SeedIsOne /\ SeedsRecorded

\* A call with no seed and no page in hand.
Plain(p) ==
  \/ call[p] = Null
  \/ call[p].step \notin {"granted", "record", "seed"}
  \/ call[p].step = "granted" /\ ~call[p].seed

LEMMA PlainHasNone ==
  ASSUME NEW p \in Process, Plain(p)
  PROVE  ~InHand(p) /\ \A c \in Claim, h \in Holdings : Has(p, h, c) => h = "waiting"
BY DEF Plain, InHand, Has, At

\* The pages keep what they hold, and no seed is come by.
LEMMA SeedsAtRest ==
  ASSUME SeedsInv,
         openedFor' = openedFor, storage' = storage,
         \A c \in applied' : c \in applied \/ \E g \in Seeded(c) : storage[g] = "whole",
         requested \subseteq requested',
         waiting' = [p \in Process |-> waiting'[p]],
         \A p \in Process : waiting'[p] \subseteq waiting[p],
         \A c \in Claim : state[c] # "none" => state'[c] # "none",
         \A p \in Process : call'[p] = call[p] \/ Plain(p)'
  PROVE  SeedsInv'
<1>1. \A c : Seeded(c)' = Seeded(c)
  BY DEF Seeded
<1>2. \A p \in Process : InHand(p)' => InHand(p) /\ call'[p] = call[p] /\ (At(p, "record")' => At(p, "record"))
  BY PlainHasNone DEF InHand, At, Plain
<1>3. \A p \in Process, c \in Claim, h \in Holdings : Has(p, h, c)' => Has(p, h, c)
  <2> SUFFICES ASSUME NEW p \in Process, NEW c \in Claim, NEW h \in Holdings, Has(p, h, c)'
               PROVE  Has(p, h, c)
    OBVIOUS
  <2>1. CASE h = "waiting"
    BY <2>1 DEF Has
  <2>2. CASE h # "waiting"
    <3>1. ~Plain(p)'
      BY <2>2 DEF Has, Plain, At
    <3>2. call'[p] = call[p]
      BY <3>1
    <3> QED
      BY <2>2, <3>2 DEF Has, At
  <2> QED
    BY <2>1, <2>2
<1>4. PagesTyped'
  <2>1. \A g \in Page : openedFor[g] # Null => openedFor[g] \in Claim
    BY DEF SeedsInv, PagesTyped
  <2> QED
    BY <2>1 DEF SeedsInv, PagesTyped
<1>5. PagesApart'
  BY <1>2 DEF SeedsInv, PagesApart, InHand
<1>6. SeedIsOne'
  <2>1. \A c \in Claim, p, q \in Process, h, k \in Holdings :
          Has(p, h, c)' /\ Has(q, k, c)' => p = q /\ h = k
    BY <1>3 DEF SeedsInv, SeedIsOne
  <2>2. ASSUME NEW c \in Claim, NEW p \in Process, NEW h \in Holdings, Has(p, h, c)'
        PROVE  /\ state'[c] # "none" /\ c \in requested'
               /\ h # "seed" => Seeded(c)' = {}
               /\ h = "seed" => Seeded(c)' \subseteq {call'[p].page}
    <3>1. Has(p, h, c)
      BY <1>3, <2>2
    <3>2. h = "seed" => call'[p] = call[p]
      BY <1>2, <2>2 DEF Has, InHand
    <3> QED
      BY <1>1, <3>1, <3>2 DEF SeedsInv, SeedIsOne
  <2> QED
    BY <2>1, <2>2 DEF SeedIsOne
<1>7. SeedsRecorded'
  BY <1>1 DEF SeedsInv, SeedsRecorded
<1> QED
  BY <1>4, <1>5, <1>6, <1>7 DEF SeedsInv

\* The grant of a claim is the only time its seed is asked for.
LEMMA GrantSeeds ==
  ASSUME RowsInv, WorkInv, SeedsInv, NEW p \in Process, NEW c \in Claim, Grant(p, c)
  PROVE  SeedsInv'
<1> DEFINE new == [step |-> "granted", claim |-> c, seed |-> call[p].seed, polls |-> FALSE]
<1>1. /\ call' = [call EXCEPT ![p] = new]
      /\ openedFor' = openedFor /\ storage' = storage /\ applied' = applied /\ waiting' = waiting
      /\ requested' = IF call[p].seed THEN requested \cup {c} ELSE requested
      /\ state[c] = "none" /\ state' = [state EXCEPT ![c] = "active"]
  BY DEF Grant, pageVars
<1>2. new.step = "granted" /\ new.claim = c /\ new.seed = call[p].seed
  OBVIOUS
<1> HIDE DEF new
<1>3. call'[p] = new /\ \A q \in Process \ {p} : call'[q] = call[q]
  BY <1>1 DEF WorkInv
<1>4. /\ \A d \in Claim : state[d] # "none" => state'[d] # "none"
      /\ state'[c] # "none"
  BY <1>1 DEF RowsInv
<1>5. \A d : Seeded(d)' = Seeded(d)
  BY <1>1 DEF Seeded
<1>6. Seeded(c) = {}
  BY <1>1, CallsAssumption DEF Seeded, SeedsInv, PagesTyped
<1>7. \A q \in Process, h \in Holdings : ~Has(q, h, c)
  BY <1>1 DEF SeedsInv, SeedIsOne
<1>8. \A q \in Process, h \in Holdings, d \in Claim : Has(q, h, d)' =>
        Has(q, h, d) \/ (q = p /\ h = "granted" /\ d = c /\ call[p].seed)
  <2> SUFFICES ASSUME NEW q \in Process, NEW h \in Holdings, NEW d \in Claim, Has(q, h, d)'
               PROVE  Has(q, h, d) \/ (q = p /\ h = "granted" /\ d = c /\ call[p].seed)
    OBVIOUS
  <2>1. CASE q = p
    BY <1>1, <1>2, <1>3, <2>1 DEF Has, At
  <2>2. CASE q # p
    BY <1>1, <1>3, <2>2 DEF Has, At
  <2> QED
    BY <2>1, <2>2
<1>9. \A q \in Process : InHand(q)' => q # p /\ InHand(q) /\ call'[q] = call[q]
  BY <1>2, <1>3 DEF InHand, At
<1>10. PagesTyped'
  <2>1. \A g \in Page : openedFor[g] # Null => openedFor[g] \in Claim
    BY DEF SeedsInv, PagesTyped
  <2> QED
    BY <1>1, <1>4, <2>1 DEF SeedsInv, PagesTyped
<1>11. PagesApart'
  <2>1. \A q \in Process : At(q, "record")' => InHand(q)' /\ call'[q] = call[q] /\ At(q, "record")
    BY <1>9 DEF InHand, At
  <2> QED
    BY <1>1, <1>9, <2>1 DEF SeedsInv, PagesApart
<1>12. SeedIsOne'
  <2>1. \A d \in Claim, q, r \in Process, h, k \in Holdings :
          Has(q, h, d)' /\ Has(r, k, d)' => q = r /\ h = k
    BY <1>7, <1>8 DEF SeedsInv, SeedIsOne
  <2>2. ASSUME NEW d \in Claim, NEW q \in Process, NEW h \in Holdings, Has(q, h, d)'
        PROVE  /\ state'[d] # "none" /\ d \in requested'
               /\ h # "seed" => Seeded(d)' = {}
               /\ h = "seed" => Seeded(d)' \subseteq {call'[q].page}
    <3>1. CASE Has(q, h, d)
      <4>1. h = "seed" => call'[q] = call[q]
        BY <1>9, <2>2 DEF Has, InHand
      <4> QED
        BY <1>1, <1>4, <1>5, <3>1, <4>1 DEF SeedsInv, SeedIsOne
    <3>2. CASE h = "granted" /\ d = c /\ call[p].seed
      BY <1>1, <1>4, <1>5, <1>6, <3>2
    <3> QED
      BY <1>8, <2>2, <3>1, <3>2
  <2> QED
    BY <2>1, <2>2 DEF SeedIsOne
<1>13. SeedsRecorded'
  BY <1>1, <1>5 DEF SeedsInv, SeedsRecorded
<1> QED
  BY <1>10, <1>11, <1>12, <1>13 DEF SeedsInv

LEMMA AnswerClaimSeeds ==
  ASSUME RowsInv, WorkInv, SeedsInv, NEW p \in Process, AnswerClaim(p)
  PROVE  SeedsInv'
<1> DEFINE c == call[p].claim
<1>1. /\ At(p, "granted") /\ openedFor' = openedFor /\ storage' = storage /\ applied' = applied
      /\ requested' = requested /\ state' = state
      /\ waiting' = IF call[p].seed THEN [waiting EXCEPT ![p] = @ \cup {c}] ELSE waiting
  BY DEF AnswerClaim, pageVars, rowVars
<1>2. /\ call'[p] = Null \/ call'[p].step = "poll"
      /\ \A q \in Process \ {p} : call'[q] = call[q]
  BY DEF AnswerClaim, WorkInv
<1>3. \A d : Seeded(d)' = Seeded(d)
  BY <1>1 DEF Seeded
<1>4. /\ waiting' = [q \in Process |-> waiting'[q]]
      /\ \A q \in Process : \A d \in waiting'[q] :
           d \in waiting[q] \/ (q = p /\ d = c /\ call[p].seed)
  BY <1>1 DEF SeedsInv, PagesTyped
<1>5. \A q \in Process, h \in Holdings, d \in Claim : Has(q, h, d)' =>
        \/ Has(q, h, d) /\ ~(q = p /\ h = "granted")
        \/ q = p /\ h = "waiting" /\ Has(p, "granted", d)
  <2> SUFFICES ASSUME NEW q \in Process, NEW h \in Holdings, NEW d \in Claim, Has(q, h, d)'
               PROVE  \/ Has(q, h, d) /\ ~(q = p /\ h = "granted")
                      \/ q = p /\ h = "waiting" /\ Has(p, "granted", d)
    OBVIOUS
  <2>1. CASE h = "waiting"
    BY <1>1, <1>4, <2>1 DEF Has
  <2>2. CASE h # "waiting"
    BY <1>2, <2>2 DEF Has, At
  <2> QED
    BY <2>1, <2>2
<1>6. \A q \in Process : InHand(q)' => InHand(q) /\ call'[q] = call[q]
  BY <1>2 DEF InHand, At
<1>7. PagesTyped'
  BY <1>1, <1>4 DEF SeedsInv, PagesTyped
<1>8. PagesApart'
  <2>1. \A q \in Process : At(q, "record")' => InHand(q)' /\ call'[q] = call[q] /\ At(q, "record")
    BY <1>6 DEF InHand, At
  <2> QED
    BY <1>1, <1>6, <2>1 DEF SeedsInv, PagesApart
<1>9. SeedIsOne'
  <2> "granted" \in Holdings
    BY DEF Holdings
  <2>1. ASSUME NEW d \in Claim, NEW q \in Process, NEW r \in Process,
               NEW h \in Holdings, NEW k \in Holdings, Has(q, h, d)', Has(r, k, d)'
        PROVE  q = r /\ h = k
    BY <1>5, <2>1 DEF SeedsInv, SeedIsOne
  <2>2. ASSUME NEW d \in Claim, NEW q \in Process, NEW h \in Holdings, Has(q, h, d)'
        PROVE  /\ state'[d] # "none" /\ d \in requested'
               /\ h # "seed" => Seeded(d)' = {}
               /\ h = "seed" => Seeded(d)' \subseteq {call'[q].page}
    <3>1. CASE Has(q, h, d)
      <4>1. h = "seed" => call'[q] = call[q]
        BY <1>6, <2>2 DEF Has, InHand
      <4> QED
        BY <1>1, <1>3, <3>1, <4>1 DEF SeedsInv, SeedIsOne
    <3>2. CASE h = "waiting" /\ Has(p, "granted", d)
      BY <1>1, <1>3, <3>2 DEF SeedsInv, SeedIsOne
    <3> QED
      BY <1>5, <2>2, <3>1, <3>2
  <2> QED
    BY <2>1, <2>2 DEF SeedIsOne
<1>10. SeedsRecorded'
  BY <1>1, <1>3 DEF SeedsInv, SeedsRecorded
<1> QED
  BY <1>7, <1>8, <1>9, <1>10 DEF SeedsInv

LEMMA OpenPageSeeds ==
  ASSUME RowsInv, WorkInv, SeedsInv, NEW p \in Process, NEW g \in Page, OpenPage(p, g), Grows
  PROVE  SeedsInv'
<1> DEFINE c == call[p].claim
<1>1. /\ At(p, "open") /\ openedFor[g] = Null /\ openedFor' = [openedFor EXCEPT ![g] = c]
      /\ storage' = storage /\ applied' = applied /\ requested' = requested /\ waiting' = waiting
      /\ state' = state
  BY DEF OpenPage, rowVars, seedVars
<1>2. /\ call'[p].step = "record" /\ call'[p].page = g /\ c \in Claim /\ c # Null
      /\ c \in Claim /\ call[p].tab \in DOMAIN tabs[c]
  BY PageIsOpened, CallsAssumption DEF SeedsInv, PagesTyped
<1>3. \A q \in Process \ {p} : call'[q] = call[q]
  BY DEF OpenPage, WorkInv
<1>4. state[c] # "none"
  BY <1>2 DEF RowsInv
<1>5. storage[g] = "none"
  BY <1>1 DEF SeedsInv, PagesTyped
<1>6. \A d : Seeded(d)' = Seeded(d)
  <2> SUFFICES ASSUME NEW d
               PROVE  Seeded(d)' = Seeded(d)
    OBVIOUS
  <2>1. \A f \in Page : f # g => openedFor'[f] = openedFor[f]
    BY <1>1 DEF SeedsInv, PagesTyped
  <2> QED
    BY <1>1, <1>5, <2>1 DEF Seeded
<1>7. \A q \in Process, h \in Holdings, d \in Claim : Has(q, h, d)' => Has(q, h, d)
  BY <1>1, <1>2, <1>3 DEF Has, At
<1>8. \A q \in Process : InHand(q) => call[q].page # g
  BY <1>1, CallsAssumption DEF InHand, WorkInv, WorkOf, At
<1>9. PagesTyped'
  <2>1. openedFor' \in [Page -> Claim \cup {Null}]
    BY <1>1, <1>2 DEF SeedsInv, PagesTyped
  <2>2. \A f \in Page : f # g => openedFor'[f] = openedFor[f]
    BY <1>1 DEF SeedsInv, PagesTyped
  <2>3. openedFor'[g] = c
    BY <1>1 DEF SeedsInv, PagesTyped
  <2> QED
    BY <1>1, <1>2, <1>4, <2>1, <2>2, <2>3 DEF SeedsInv, PagesTyped
<1>10. PagesApart'
  <2>1. \A q \in Process : InHand(q)' => q = p \/ (InHand(q) /\ call'[q] = call[q])
    BY <1>3 DEF InHand, At
  <2>2. \A q \in Process : At(q, "record")' => q = p \/ (At(q, "record") /\ call'[q] = call[q])
    BY <1>3 DEF At
  <2>3. \A q \in Process : At(q, "record")' => storage'[call'[q].page] = "none"
    BY <1>1, <1>2, <1>5, <2>2 DEF SeedsInv, PagesApart
  <2>4. \A q, r \in Process : InHand(q)' /\ InHand(r)' /\ q # r => call'[q].page # call'[r].page
    BY <1>2, <1>8, <2>1 DEF SeedsInv, PagesApart
  <2> QED
    BY <2>3, <2>4 DEF PagesApart
<1>11. SeedIsOne'
  <2>1. \A d \in Claim, q, r \in Process, h, k \in Holdings :
          Has(q, h, d)' /\ Has(r, k, d)' => q = r /\ h = k
    BY <1>7 DEF SeedsInv, SeedIsOne
  <2>2. ASSUME NEW d \in Claim, NEW q \in Process, NEW h \in Holdings, Has(q, h, d)'
        PROVE  /\ state'[d] # "none" /\ d \in requested'
               /\ h # "seed" => Seeded(d)' = {}
               /\ h = "seed" => Seeded(d)' \subseteq {call'[q].page}
    <3>1. Has(q, h, d)
      BY <1>7, <2>2
    <3>2. h = "seed" => call'[q] = call[q]
      BY <1>2, <1>3, <2>2 DEF Has, At
    <3> QED
      BY <1>1, <1>6, <3>1, <3>2 DEF SeedsInv, SeedIsOne
  <2> QED
    BY <2>1, <2>2 DEF SeedIsOne
<1>12. SeedsRecorded'
  BY <1>1, <1>6 DEF SeedsInv, SeedsRecorded
<1> QED
  BY <1>9, <1>10, <1>11, <1>12 DEF SeedsInv

\* The seed a process has waiting goes with the first page it records.
LEMMA RecordPageSeeds ==
  ASSUME RowsInv, WorkInv, SeedsInv, Grows, NEW p \in Process, RecordPage(p)
  PROVE  SeedsInv'
<1> DEFINE c == call[p].claim
<1>1. /\ At(p, "record") /\ openedFor' = openedFor /\ storage' = storage /\ applied' = applied
      /\ requested' = requested /\ state' = state
  BY DEF RecordPage, pageVars
<1>2. \A q \in Process \ {p} : call'[q] = call[q]
  BY DEF RecordPage, Reply, WorkInv
<1>3. PagesKept
  BY <1>1 DEF PagesKept
<1>4. CASE ~(call[p].seeds /\ c \in waiting[p])
  <2>1. /\ waiting' = [q \in Process |-> waiting'[q]]
        /\ \A q \in Process : waiting'[q] \subseteq waiting[q]
    BY DEF RecordPage, Take, SeedsInv, PagesTyped
  <2>2. Plain(p)'
    <3>1. CASE call[p].seeds
      <4>1. call' = [call EXCEPT ![p].step = "work"]
        BY <1>4, <3>1 DEF RecordPage
      <4>2. call'[p].step = "work"
        BY <1>1, <1>3, <4>1, StepTaken
      <4> QED
        BY <4>2 DEF Plain
    <3>2. CASE ~call[p].seeds
      <4>1. call'[p] = [step |-> "answer", with |-> Driven]
        BY <3>2 DEF RecordPage, Reply, WorkInv
      <4> QED
        BY <4>1 DEF Plain
    <3> QED
      BY <3>1, <3>2
  <2> QED
    BY <1>1, <1>2, <2>1, <2>2, SeedsAtRest
<1>5. CASE call[p].seeds /\ c \in waiting[p]
  <2>1. call' = [call EXCEPT ![p].step = "seed"] /\ waiting' = [waiting EXCEPT ![p] = @ \ {c}]
    BY <1>5 DEF RecordPage, Take
  <2>2. call'[p].step = "seed" /\ call'[p].page = call[p].page /\ call'[p].claim = c
    BY <1>1, <1>3, <2>1, StepTaken
  <2>3. /\ waiting' = [q \in Process |-> waiting'[q]]
        /\ \A q \in Process : waiting'[q] = IF q = p THEN waiting[q] \ {c} ELSE waiting[q]
    BY <2>1 DEF SeedsInv, PagesTyped
  <2>4. Has(p, "waiting", c) /\ c \in Claim
    BY <1>1, <1>5 DEF Has, WorkInv, WorkOf
  <2>5. \A d : Seeded(d)' = Seeded(d)
    BY <1>1 DEF Seeded
  <2>6. \A q \in Process, h \in Holdings, d \in Claim : Has(q, h, d)' =>
          \/ Has(q, h, d) /\ ~(q = p /\ h = "waiting" /\ d = c) /\ ~(q = p /\ h = "seed")
          \/ q = p /\ h = "seed" /\ d = c
    <3> SUFFICES ASSUME NEW q \in Process, NEW h \in Holdings, NEW d \in Claim, Has(q, h, d)'
                 PROVE  \/ Has(q, h, d) /\ ~(q = p /\ h = "waiting" /\ d = c) /\ ~(q = p /\ h = "seed")
                        \/ q = p /\ h = "seed" /\ d = c
      OBVIOUS
    <3>1. CASE h = "waiting"
      BY <2>3, <3>1 DEF Has
    <3>2. CASE h # "waiting" /\ q # p
      BY <1>2, <3>2 DEF Has, At
    <3>3. CASE h # "waiting" /\ q = p
      BY <2>2, <3>3 DEF Has, At
    <3> QED
      BY <3>1, <3>2, <3>3
  <2>7. \A q \in Process : InHand(q)' => InHand(q) /\ call'[q].page = call[q].page
    BY <1>1, <1>2, <2>2 DEF InHand, At
  <2>8. PagesTyped'
    BY <1>1, <2>3 DEF SeedsInv, PagesTyped
  <2>9. PagesApart'
    <3>1. \A q \in Process : At(q, "record")' => At(q, "record") /\ call'[q] = call[q]
      BY <1>2, <2>2 DEF At
    <3> QED
      BY <1>1, <2>7, <3>1 DEF SeedsInv, PagesApart
  <2>10. SeedIsOne'
    <3> "waiting" \in Holdings
      BY DEF Holdings
    <3>1. ASSUME NEW d \in Claim, NEW q \in Process, NEW r \in Process,
                 NEW h \in Holdings, NEW k \in Holdings, Has(q, h, d)', Has(r, k, d)'
          PROVE  q = r /\ h = k
      BY <2>4, <2>6, <3>1 DEF SeedsInv, SeedIsOne
    <3>2. ASSUME NEW d \in Claim, NEW q \in Process, NEW h \in Holdings, Has(q, h, d)'
          PROVE  /\ state'[d] # "none" /\ d \in requested'
                 /\ h # "seed" => Seeded(d)' = {}
                 /\ h = "seed" => Seeded(d)' \subseteq {call'[q].page}
      <4>1. CASE Has(q, h, d) /\ ~(q = p /\ h = "seed")
        <5>1. h = "seed" => call'[q] = call[q]
          BY <1>2, <4>1
        <5> QED
          BY <1>1, <2>5, <4>1, <5>1 DEF SeedsInv, SeedIsOne
      <4>2. CASE h = "seed" /\ d = c
        BY <1>1, <2>4, <2>5, <4>2 DEF SeedsInv, SeedIsOne
      <4> QED
        BY <2>6, <3>2, <4>1, <4>2
    <3> QED
      BY <3>1, <3>2 DEF SeedIsOne
  <2>11. SeedsRecorded'
    BY <1>1, <2>5 DEF SeedsInv, SeedsRecorded
  <2> QED
    BY <2>8, <2>9, <2>10, <2>11 DEF SeedsInv
<1> QED
  BY <1>4, <1>5

\* A seed is written to the page it is at, which alone holds of it.
LEMMA SeedOriginSeeds ==
  ASSUME WorkInv, SeedsInv, NEW p \in Process, SeedOrigin(p)
  PROVE  SeedsInv'
<1> DEFINE c == call[p].claim
           g == call[p].page
<1>1. /\ At(p, "seed") /\ openedFor' = openedFor /\ applied' = applied /\ requested' = requested
      /\ waiting' = waiting /\ state' = state /\ call' = call /\ storage[g] # "whole"
  BY DEF SeedOrigin, rowVars, seedVars
<1>2. PICK much \in {"part", "whole"} : storage' = [storage EXCEPT ![g] = much]
  BY DEF SeedOrigin
<1>3. c \in Claim /\ g \in Page /\ openedFor[g] = c
  BY <1>1 DEF WorkInv, WorkOf
<1>4. Has(p, "seed", c) /\ "seed" \in Holdings
  BY <1>1 DEF Has, Holdings
<1>5. c \in requested /\ Seeded(c) \subseteq {g} /\ state[c] # "none"
  BY <1>3, <1>4 DEF SeedsInv, SeedIsOne
<1>6. storage'[g] = much /\ \A f \in Page : f # g => storage'[f] = storage[f]
  BY <1>2, <1>3 DEF SeedsInv, PagesTyped
<1>7. Seeded(c)' = {g}
  BY <1>1, <1>3, <1>5, <1>6 DEF Seeded
<1>8. \A d \in Claim : d # c => Seeded(d)' = Seeded(d)
  BY <1>1, <1>3, <1>6 DEF Seeded
<1>9. \A q \in Process, h \in Holdings, d \in Claim : Has(q, h, d)' <=> Has(q, h, d)
  BY <1>1 DEF Has, At
<1>10. PagesTyped'
  BY <1>1, <1>2, <1>3, <1>6, CallsAssumption DEF SeedsInv, PagesTyped
<1>11. PagesApart'
  <2>1. \A q \in Process : InHand(q)' <=> InHand(q)
    BY <1>1 DEF InHand, At
  <2>2. \A q \in Process : At(q, "record")' => storage'[call'[q].page] = "none"
    <3> SUFFICES ASSUME NEW q \in Process, At(q, "record")'
                 PROVE  storage'[call'[q].page] = "none"
      OBVIOUS
    <3>1. At(q, "record") /\ call'[q] = call[q] /\ q # p
      BY <1>1 DEF At
    <3>2. call[q].page # g /\ storage[call[q].page] = "none" /\ call[q].page \in Page
      BY <1>1, <3>1 DEF SeedsInv, PagesApart, InHand, WorkInv, WorkOf
    <3> QED
      BY <1>6, <3>1, <3>2
  <2> QED
    BY <1>1, <2>1, <2>2 DEF SeedsInv, PagesApart
<1>12. SeedIsOne'
  <2>1. \A d \in Claim, q, r \in Process, h, k \in Holdings :
          Has(q, h, d)' /\ Has(r, k, d)' => q = r /\ h = k
    BY <1>9 DEF SeedsInv, SeedIsOne
  <2>2. ASSUME NEW d \in Claim, NEW q \in Process, NEW h \in Holdings, Has(q, h, d)'
        PROVE  /\ state'[d] # "none" /\ d \in requested'
               /\ h # "seed" => Seeded(d)' = {}
               /\ h = "seed" => Seeded(d)' \subseteq {call'[q].page}
    <3>1. Has(q, h, d)
      BY <1>9, <2>2
    <3>2. CASE d = c
      <4>1. q = p /\ h = "seed"
        BY <1>3, <1>4, <3>1, <3>2 DEF SeedsInv, SeedIsOne
      <4> QED
        BY <1>1, <1>5, <1>7, <3>2, <4>1
    <3>3. CASE d # c
      BY <1>1, <1>8, <3>1, <3>3 DEF SeedsInv, SeedIsOne
    <3> QED
      BY <3>2, <3>3
  <2> QED
    BY <2>1, <2>2 DEF SeedIsOne
<1>13. SeedsRecorded'
  <2>1. c \notin applied
    BY <1>1, <1>3, <1>5 DEF SeedsInv, SeedsRecorded
  <2> SUFFICES ASSUME NEW d \in Claim
               PROVE  /\ \A f, h \in Seeded(d)' : f = h
                      /\ Seeded(d)' # {} => d \in requested'
                      /\ d \in applied' => \E f \in Seeded(d)' : storage'[f] = "whole"
    BY DEF SeedsRecorded
  <2>2. CASE d = c
    BY <1>1, <1>5, <1>7, <2>1, <2>2
  <2>3. CASE d # c
    <3>1. \A f \in Seeded(d) : f # g /\ f \in Page
      BY <1>3, <2>3 DEF Seeded
    <3> QED
      BY <1>1, <1>6, <1>8, <2>3, <3>1 DEF SeedsInv, SeedsRecorded
  <2> QED
    BY <2>2, <2>3
<1> QED
  BY <1>10, <1>11, <1>12, <1>13 DEF SeedsInv

LEMMA SeedsStep ==
  ASSUME RowsInv, WorkInv, SeedsInv, Grows, [Next]_vars
  PROVE  SeedsInv'
<1> DEFINE AtRest ==
      /\ openedFor' = openedFor /\ storage' = storage
      /\ \A c \in applied' : c \in applied \/ \E g \in Seeded(c) : storage[g] = "whole"
      /\ requested \subseteq requested'
      /\ waiting' = [p \in Process |-> waiting'[p]]
      /\ \A p \in Process : waiting'[p] \subseteq waiting[p]
      /\ \A c \in Claim : state[c] # "none" => state'[c] # "none"
      /\ \A p \in Process : call'[p] = call[p] \/ Plain(p)'
<1>1. AtRest => SeedsInv'
  BY SeedsAtRest
<1>2. waiting = [p \in Process |-> waiting[p]]
  BY DEF SeedsInv, PagesTyped
<1>3. CASE UNCHANGED vars
  BY <1>1, <1>2, <1>3 DEF vars, rowVars, pageVars, seedVars
<1>4. ASSUME NEW p \in Process, NEW line \in Lines,
             AnswerLine(p, line) \/ IgnoreLine(p, line) \/ Call(p, line)
      PROVE  SeedsInv'
  <2>1. UNCHANGED <<rowVars, pageVars, seedVars>>
    BY <1>4 DEF AnswerLine, IgnoreLine, Call, vars
  <2>2. call'[p] = call[p] \/ Plain(p)'
    <3>1. CASE AnswerLine(p, line)
      <4>1. call'[p] = [step |-> "answer", with |-> Reception[line].answer]
        BY <3>1 DEF AnswerLine, Reply, WorkInv
      <4> QED
        BY <4>1 DEF Plain
    <3>2. CASE IgnoreLine(p, line)
      BY <3>2 DEF IgnoreLine, vars
    <3>3. CASE Call(p, line)
      <4>1. call'[p] = Begun(Reception[line].call)
        BY <3>3 DEF Call, WorkInv
      <4>2. \A asked : Begun(asked).step \in {"look up", "decide"}
        BY DEF Begun
      <4> QED
        BY <4>1, <4>2 DEF Plain
    <3> QED
      BY <1>4, <3>1, <3>2, <3>3
  <2>3. \A q \in Process \ {p} : call'[q] = call[q]
    BY <1>4 DEF AnswerLine, IgnoreLine, Call, Reply, WorkInv, vars
  <2> QED
    BY <1>1, <1>2, <2>1, <2>2, <2>3 DEF rowVars, pageVars, seedVars
<1>5. ASSUME NEW p \in Process, LookUp(p)
      PROVE  SeedsInv'
  <2> DEFINE new == [[call[p] EXCEPT !.step = "decide"] EXCEPT !.tab = TabForKey(call[p].key)]
  <2>1. {"step", "tab"} \subseteq DOMAIN call[p]
    BY <1>5 DEF LookUp, WorkInv, WorkOf
  <2>2. new.step = "decide"
    BY <2>1
  <2>3. call' = [call EXCEPT ![p] = new] /\ UNCHANGED <<rowVars, pageVars, seedVars>>
    BY <1>5 DEF LookUp, WorkInv
  <2> HIDE DEF new
  <2>4. Plain(p)' /\ \A q \in Process \ {p} : call'[q] = call[q]
    BY <2>2, <2>3 DEF Plain, WorkInv
  <2> QED
    BY <1>1, <1>2, <2>3, <2>4 DEF rowVars, pageVars, seedVars
<1>6. ASSUME NEW p \in Process,
             \/ Refuse(p) \/ WaitForGrant(p) \/ SignIn(p) \/ Status(p) \/ Release(p)
             \/ ReleaseEnded(p) \/ Work(p) \/ WorkFails(p)
      PROVE  SeedsInv'
  <2>1. PICK with : Reply(p, with)
    BY <1>6 DEF Refuse, WaitForGrant, SignIn, Status, Release, ReleaseEnded, Work, WorkFails
  <2>2. UNCHANGED <<pageVars, seedVars>>
    BY <1>6 DEF Refuse, WaitForGrant, SignIn, Status, Release, ReleaseEnded, Work, WorkFails
  <2>3. \A c \in Claim : state[c] # "none" => state'[c] # "none"
    BY <1>6 DEF Refuse, WaitForGrant, SignIn, Status, Release, ReleaseEnded, Work, WorkFails,
                rowVars, RowsInv
  <2>4. Plain(p)' /\ \A q \in Process \ {p} : call'[q] = call[q]
    BY <2>1 DEF Reply, Plain, WorkInv
  <2> QED
    BY <1>1, <1>2, <2>2, <2>3, <2>4 DEF pageVars, seedVars
<1>7. ASSUME NEW p \in Process, NEW c \in Claim, Queue(p, c)
      PROVE  SeedsInv'
  <2>1. Plain(p)' /\ \A q \in Process \ {p} : call'[q] = call[q]
    BY <1>7 DEF Queue, Plain, WorkInv
  <2>2. \A d \in Claim : state[d] # "none" => state'[d] # "none"
    BY <1>7 DEF Queue, RowsInv
  <2>3. UNCHANGED <<pageVars, seedVars>>
    BY <1>7 DEF Queue
  <2> QED
    BY <1>1, <1>2, <2>1, <2>2, <2>3 DEF pageVars, seedVars
<1>8. ASSUME NEW p \in Process, PageCall(p)
      PROVE  SeedsInv'
  <2>1. Plain(p)' /\ \A q \in Process \ {p} : call'[q] = call[q]
    BY <1>8 DEF PageCall, Plain, WorkInv
  <2>2. UNCHANGED <<rowVars, pageVars, seedVars>>
    BY <1>8 DEF PageCall
  <2> QED
    BY <1>1, <1>2, <2>1, <2>2 DEF rowVars, pageVars, seedVars
<1>9. ASSUME NEW p \in Process, TabReplace(p)
      PROVE  SeedsInv'
  <2>1. Plain(p)' /\ \A q \in Process \ {p} : call'[q] = call[q]
    BY <1>9 DEF TabReplace, Plain, WorkInv
  <2>2. state' = state /\ UNCHANGED <<pageVars, seedVars>>
    BY <1>9 DEF TabReplace
  <2> QED
    BY <1>1, <1>2, <2>1, <2>2 DEF pageVars, seedVars
<1>10. ASSUME NEW p \in Process, Answer(p) \/ Die(p)
       PROVE  SeedsInv'
  <2>1. Plain(p)' /\ \A q \in Process \ {p} : call'[q] = call[q]
    BY <1>10 DEF Answer, Die, Plain, WorkInv
  <2>2. /\ UNCHANGED <<rowVars, pageVars, requested, applied>>
        /\ waiting' = [q \in Process |-> waiting'[q]]
        /\ \A q \in Process : waiting'[q] \subseteq waiting[q]
    BY <1>2, <1>10 DEF Answer, Die, seedVars
  <2> QED
    BY <1>1, <2>1, <2>2 DEF rowVars, pageVars
<1>11. ASSUME NEW p \in Process, RecordSeed(p)
       PROVE  SeedsInv'
  <2>1. /\ call' = [call EXCEPT ![p].step = "work"] /\ At(p, "seed")
        /\ storage[call[p].page] = "whole" /\ applied' = applied \cup {call[p].claim}
        /\ UNCHANGED <<rowVars, pageVars, requested, waiting>>
    BY <1>11 DEF RecordSeed
  <2>2. call[p].page \in Seeded(call[p].claim)
    BY <2>1 DEF WorkInv, WorkOf, Seeded
  <2>3. PagesKept
    BY <2>1 DEF PagesKept, pageVars
  <2>4. call'[p].step = "work"
    BY <2>1, <2>3, StepTaken
  <2>5. Plain(p)' /\ \A q \in Process \ {p} : call'[q] = call[q]
    BY <2>1, <2>4 DEF Plain, WorkInv
  <2> QED
    BY <1>1, <1>2, <2>1, <2>2, <2>5 DEF rowVars, pageVars
<1>12. ASSUME NEW c \in Claim, Promote(c) \/ Lapse(c)
       PROVE  SeedsInv'
  <2>1. \A d \in Claim : state[d] # "none" => state'[d] # "none"
    BY <1>12 DEF Promote, Lapse, RowsInv
  <2>2. UNCHANGED <<pageVars, seedVars, call>>
    BY <1>12 DEF Promote, Lapse
  <2> QED
    BY <1>1, <1>2, <2>1, <2>2 DEF pageVars, seedVars
<1> QED
  BY <1>3, <1>4, <1>5, <1>6, <1>7, <1>8, <1>9, <1>10, <1>11, <1>12, GrantSeeds, AnswerClaimSeeds,
     OpenPageSeeds, RecordPageSeeds, SeedOriginSeeds DEF Next

-----------------------------------------------------------------------------
(* The theorems.                                                           *)

CallsInv == RowsInv /\ WorkInv /\ SeedsInv

LEMMA CallsInitially == Init => CallsInv
<1> SUFFICES ASSUME Init
             PROVE  CallsInv
  OBVIOUS
<1>1. RowsInv
  BY DEF Init, RowsInv, LiveIn
<1>2. WorkInv
  BY DEF Init, WorkInv, WorkOf, At
<1>3. \A c : Seeded(c) = {}
  BY DEF Init, Seeded
<1>4. \A h, c : \A p \in Process : ~Has(p, h, c)
  BY DEF Init, Has, At
<1>5. PagesTyped
  BY DEF Init, PagesTyped
<1>6. PagesApart
  BY DEF Init, PagesApart, InHand, At
<1>7. SeedIsOne
  BY <1>4 DEF SeedIsOne
<1>8. SeedsRecorded
  BY <1>3 DEF Init, SeedsRecorded
<1> QED
  BY <1>1, <1>2, <1>5, <1>6, <1>7, <1>8 DEF CallsInv, SeedsInv

\* Rows, the calls about them, and the seeds that go with them, at any time.
THEOREM CallsInvariant == Spec => []CallsInv
<1>1. CallsInv /\ [Next]_vars => CallsInv'
  <2> SUFFICES ASSUME CallsInv, [Next]_vars
               PROVE  CallsInv'
    OBVIOUS
  <2>1. RowsInv' /\ Grows
    BY RowsStep DEF CallsInv
  <2>2. openedFor \in [Page -> Claim \cup {Null}]
    BY DEF CallsInv, SeedsInv, PagesTyped
  <2>3. WorkInv'
    BY <2>1, <2>2, WorkStep DEF CallsInv
  <2>4. SeedsInv'
    BY <2>1, SeedsStep DEF CallsInv
  <2> QED
    BY <2>1, <2>3, <2>4 DEF CallsInv
<1> QED
  BY <1>1, CallsInitially, PTL DEF Spec

(* A call is decided about the tab its key had before the transaction      *)
(* began (bridge.ts, tabForKey), whatever was decided since: however many  *)
(* processes are given the key of one lease, it has one live row while it  *)
(* is active, and none when it is not.                                     *)
THEOREM OneLiveTabEach == Spec => []OneLiveTab
<1>1. CallsInv => OneLiveTab
  <2> SUFFICES ASSUME CallsInv, NEW c \in Claim
               PROVE  Cardinality(LiveRows(c)) = IF state[c] = "active" THEN 1 ELSE 0
    BY DEF OneLiveTab
  <2>1. LiveRows(c) = LiveIn(tabs[c])
    BY LiveRowsAre
  <2>2. CASE state[c] = "active"
    <3>1. PICK n \in DOMAIN tabs[c] : LiveRows(c) = {n}
      BY <2>1, <2>2 DEF CallsInv, RowsInv
    <3> QED
      BY <2>2, <3>1, FS_Singleton
  <2>3. CASE state[c] # "active"
    <3>1. LiveRows(c) = {}
      BY <2>1, <2>3 DEF CallsInv, RowsInv
    <3> QED
      BY <2>3, <3>1, FS_EmptySet
  <2> QED
    BY <2>2, <2>3
<1> QED
  BY <1>1, CallsInvariant, PTL

(* A seed goes with one grant to one process, from its memory to the first *)
(* page it records, and into no other: whatever is replaced, opened again, *)
(* refused or dies, a lease's storage is written from one page at most,    *)
(* and 'applied' is said of a lease whose seed was written whole (pending- *)
(* seeds.ts).                                                              *)
THEOREM SeedsLandOnce == Spec => []SeedLandsOnce
<1>1. CallsInv => SeedLandsOnce
  <2> SUFFICES ASSUME CallsInv, NEW c \in Claim
               PROVE  /\ Cardinality(Seeded(c)) <= 1
                      /\ Seeded(c) # {} => c \in requested
                      /\ c \in applied => \E g \in Seeded(c) : storage[g] = "whole"
    BY DEF SeedLandsOnce, Seeded
  <2>1. SeedsRecorded
    BY DEF CallsInv, SeedsInv
  <2>2. CASE Seeded(c) = {}
    BY <2>1, <2>2, FS_EmptySet DEF SeedsRecorded
  <2>3. CASE Seeded(c) # {}
    <3>1. PICK g : Seeded(c) = {g}
      BY <2>1, <2>3 DEF SeedsRecorded
    <3>2. Cardinality(Seeded(c)) = 1
      BY <3>1, FS_Singleton
    <3> QED
      BY <2>1, <3>2 DEF SeedsRecorded
  <2> QED
    BY <2>2, <2>3
<1> QED
  BY <1>1, CallsInvariant, PTL
=============================================================================
