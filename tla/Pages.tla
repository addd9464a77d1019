-------------------------------- MODULE Pages --------------------------------
(***************************************************************************)
(* The pages of one browser, beside the lease tables that are to describe  *)
(* them.  A call decides inside its transaction (Leases) and touches the   *)
(* browser only after the commit, one round trip at a time, while other    *)
(* processes go on and each of them may die.  `broker reconcile` compares  *)
(* the tables with the browser and repairs both.                           *)
(*                                                                         *)
(* A worker is a caller's process and has one call in hand at a time.      *)
(* What a call does to the content of a page is left out, and so is the    *)
(* age of a row that waits in `closing`.                                   *)
(***************************************************************************)
EXTENDS Integers, FiniteSets

CONSTANTS
  Claim, Budget, LeaseSeconds, QueueSeconds, MaxTabs,   \* as in Leases
  Page,           \* the browser's own names of pages, each used for one page
  MayBeBlank,     \* the pages that may be blank when somebody attaches
  NoPage,         \* driver_tab_id is null
  NoRow,          \* no row to open a page for
  Worker,         \* processes that serve callers
  Reconciler      \* processes that run `broker reconcile`

VARIABLES
  claimState, left, ttl, arrival, nextArrival, tabState,   \* as in Leases
  driverTabId,    \* driverTabId[row]: the page a tab row names
  opened,         \* the pages open in the browser
  minted,         \* the pages ever opened
  toClose,        \* toClose[w]: given-up rows whose page w has to close
  toShut,         \* toShut[w]: the page of the row tab_replace gave up
  toOpen,         \* toOpen[w]: the row w has to open a page for
  news,           \* news[w]: what w learnt of the browser and has to act on
  stage,          \* stage[r]: the next step of a reconcile run
  recorded,       \* recorded[r]: the rows it read, each with its page
  listed,         \* listed[r]: the pages it was told of, then those to close
  kept            \* kept[r]: the page its session took for its keeper

Lease == INSTANCE Leases

ASSUME PagesAssumption ==
  /\ IsFiniteSet(Claim)
  /\ {Budget, LeaseSeconds, QueueSeconds, MaxTabs} \subseteq Nat \ {0}
  /\ NoPage \notin Page
  /\ MayBeBlank \subseteq Page
  /\ NoRow \notin Claim \X (1 .. MaxTabs)

leaseVars == <<claimState, left, ttl, arrival, nextArrival, tabState>>
pageVars  == <<driverTabId, opened, minted>>
workVars  == <<toClose, toShut, toOpen, news>>
reconVars == <<stage, recorded, listed, kept>>
vars == <<leaseVars, pageVars, workVars, reconVars>>

Row == Claim \X Lease!TabNo

RowState(row) == tabState[row[1]][row[2]]

Nothing == [kind |-> "nothing", row |-> NoRow, pages |-> {}]

Idle(w) == /\ toClose[w] = {} /\ toShut[w] = NoPage /\ toOpen[w] = NoRow
           /\ news[w] = Nothing

\* A row that an active lease owns and that names its page.
Owned(row) == claimState[row[1]] = "active" /\ RowState(row) = "open"

-----------------------------------------------------------------------------
(* What a call leaves to be done after its commit.                         *)

OrphanedOfAnybody == {row \in Row : RowState(row) = "open"}

\* The rows the sweep of this call moves to `closing`.
Orphaned == {row \in Row : Lease!Lapsed(row[1]) /\ RowState(row) = "open"}

Schedule(w, rows, shut, open) ==
  /\ toClose' = [toClose EXCEPT ![w] = rows]
  /\ toShut'  = [toShut EXCEPT ![w] = shut]
  /\ toOpen'  = [toOpen EXCEPT ![w] = open]
  /\ UNCHANGED <<news, pageVars, reconVars>>

Request(w, c) == Lease!Request(c) /\ Schedule(w, Orphaned, NoPage, NoRow)

Status(w, c) == Lease!Status(c) /\ Schedule(w, Orphaned, NoPage, NoRow)

\* The first page call on a tab has to open its page.
PageCall(w, c, n) ==
  /\ Lease!PageCall(c, n)
  /\ Schedule(w, Orphaned, NoPage,
              IF RowState(<<c, n>>) = "opening" THEN <<c, n>> ELSE NoRow)

TabReplace(w, c, n) ==
  /\ Lease!TabReplace(c, n)
  /\ Schedule(w, Orphaned, driverTabId[<<c, n>>], <<c, n + 1>>)

Release(w, c) ==
  /\ Lease!Release(c)
  /\ Schedule(w, Orphaned \cup {row \in Row : row[1] = c /\ RowState(row) = "open"},
              NoPage, NoRow)

ReleaseEnded(w, c) ==
  Lease!ReleaseEnded(c) /\ Schedule(w, Orphaned, NoPage, NoRow)

Call(w) ==
  /\ Idle(w)
  /\ \E c \in Claim : \/ Request(w, c) \/ Status(w, c)
                      \/ Release(w, c) \/ ReleaseEnded(w, c)
                      \/ \E n \in Lease!TabNo :
                           PageCall(w, c, n) \/ TabReplace(w, c, n)

-----------------------------------------------------------------------------
(* The work after the commit.  The closes of a call come first, each with  *)
(* its record and its drain, and then what the call is for.                *)

Learn(w, kind, row, pages) ==
  news' = [news EXCEPT ![w] = [kind |-> kind, row |-> row, pages |-> pages]]

\* closeTab answers `closed`.
AskClose(w, row) ==
  /\ news[w] = Nothing /\ row \in toClose[w] /\ driverTabId[row] \in opened
  /\ opened' = opened \ {driverTabId[row]}
  /\ toClose' = [toClose EXCEPT ![w] = @ \ {row}]
  /\ Learn(w, "closed", row, {})
  /\ UNCHANGED <<leaseVars, driverTabId, minted, toShut, toOpen, reconVars>>

CloseFailsAsClosed(w, row) ==
  /\ news[w] = Nothing /\ row \in toClose[w]
  /\ toClose' = [toClose EXCEPT ![w] = @ \ {row}]
  /\ Learn(w, "closed", row, {})
  /\ UNCHANGED <<leaseVars, pageVars, toShut, toOpen, reconVars>>

\* closeTab finds no page, is refused or throws, or there is no session: the
\* row stays `closing`.
CloseFails(w, row) ==
  /\ news[w] = Nothing /\ row \in toClose[w]
  /\ toClose' = [toClose EXCEPT ![w] = @ \ {row}]
  /\ Learn(w, "drain", NoRow, {})
  /\ UNCHANGED <<leaseVars, pageVars, toShut, toOpen, reconVars>>

RecordClosed(w) ==
  /\ news[w].kind = "closed"
  /\ IF RowState(news[w].row) = "closing"
       THEN Lease!PageClosed(news[w].row[1], news[w].row[2])
       ELSE UNCHANGED leaseVars
  /\ Learn(w, "drain", NoRow, {})
  /\ UNCHANGED <<pageVars, toClose, toShut, toOpen, reconVars>>

\* Attaching takes the first blank page for the session's keeper, and a page a
\* tab was opened for is blank until it is navigated; NoPage stands for a keeper
\* that is no tab's page.
MayBeKeeper == (opened \cap MayBeBlank) \cup {NoPage}

\* listTabs names every page but the session's keeper.
Listing(keeper) == opened \ {keeper}

\* The drain asks for the open pages when some row has waited for too long.
ListPages(w) ==
  /\ news[w].kind = "drain"
  /\ \E row \in Row : RowState(row) = "closing"
  /\ \E keeper \in MayBeKeeper : Learn(w, "listed", NoRow, Listing(keeper))
  /\ UNCHANGED <<leaseVars, pageVars, toClose, toShut, toOpen, reconVars>>

SkipDrain(w) ==
  /\ news[w].kind = "drain"
  /\ news' = [news EXCEPT ![w] = Nothing]
  /\ UNCHANGED <<leaseVars, pageVars, toClose, toShut, toOpen, reconVars>>

StrandedOfLiveLeases(pages) ==
  {row \in Row : /\ RowState(row) = "closing"
                 /\ claimState[row[1]] = "active"
                 /\ driverTabId[row] \notin pages}

\* The rows settleStrandedTabs closes, given the pages the browser named.
Stranded(pages) ==
  {row \in Row : /\ RowState(row) = "closing"
                 /\ claimState[row[1]] # "active"
                 /\ driverTabId[row] \notin pages}

CloseRows(rows) ==
  tabState' = [c \in Claim |-> [n \in Lease!TabNo |->
                 IF <<c, n>> \in rows THEN "closed" ELSE tabState[c][n]]]

SettleStranded(pages) ==
  /\ CloseRows(Stranded(pages))
  /\ UNCHANGED <<claimState, left, ttl, arrival, nextArrival>>

Drain(w) ==
  /\ news[w].kind = "listed"
  /\ SettleStranded(news[w].pages)
  /\ news' = [news EXCEPT ![w] = Nothing]
  /\ UNCHANGED <<pageVars, toClose, toShut, toOpen, reconVars>>

\* tab_replace closes the page it gave up and writes no answer down; a close
\* that throws is passed over.
Shut(w) ==
  /\ news[w] = Nothing /\ toClose[w] = {} /\ toShut[w] # NoPage
  /\ opened' \in {opened, opened \ {toShut[w]}}
  /\ toShut' = [toShut EXCEPT ![w] = NoPage]
  /\ UNCHANGED <<leaseVars, driverTabId, minted, toClose, toOpen, news, reconVars>>

Open(w, p) ==
  /\ news[w] = Nothing /\ toClose[w] = {} /\ toShut[w] = NoPage
  /\ toOpen[w] # NoRow /\ p \notin minted
  /\ opened' = opened \cup {p}
  /\ minted' = minted \cup {p}
  /\ Learn(w, "opened", toOpen[w], {p})
  /\ UNCHANGED <<leaseVars, driverTabId, toClose, toShut, toOpen, reconVars>>

\* There is no session, or openTab throws.
OpenFails(w) ==
  /\ news[w] = Nothing /\ toClose[w] = {} /\ toShut[w] = NoPage
  /\ toOpen[w] # NoRow
  /\ toOpen' = [toOpen EXCEPT ![w] = NoRow]
  /\ UNCHANGED <<leaseVars, pageVars, toClose, toShut, news, reconVars>>

NameAnyRow(row, p) ==
  /\ Lease!PageOpenedAnyRow(row[1], row[2])
  /\ driverTabId' = [driverTabId EXCEPT ![row] = p]

\* recordTabOpened: a row that is no longer `opening` is left as it is, and
\* then nothing names the page.
Name(row, p) ==
  IF RowState(row) = "opening"
    THEN /\ Lease!PageOpened(row[1], row[2])
         /\ driverTabId' = [driverTabId EXCEPT ![row] = p]
    ELSE UNCHANGED <<leaseVars, driverTabId>>

RecordOpened(w) ==
  /\ news[w].kind = "opened"
  /\ \E p \in news[w].pages : Name(news[w].row, p)
  /\ toOpen' = [toOpen EXCEPT ![w] = NoRow]
  /\ news' = [news EXCEPT ![w] = Nothing]
  /\ UNCHANGED <<opened, minted, toClose, toShut, reconVars>>

\* The process ends with work undone; its pages stay, for the browser is not
\* its child.
Crash(w) ==
  /\ ~Idle(w)
  /\ toClose' = [toClose EXCEPT ![w] = {}]
  /\ toShut' = [toShut EXCEPT ![w] = NoPage]
  /\ toOpen' = [toOpen EXCEPT ![w] = NoRow]
  /\ news' = [news EXCEPT ![w] = Nothing]
  /\ UNCHANGED <<leaseVars, pageVars, reconVars>>

\* The steps a worker takes by itself once its call has committed.
Continue(w) ==
  \/ \E row \in Row : AskClose(w, row) \/ CloseFails(w, row)
  \/ RecordClosed(w) \/ ListPages(w) \/ SkipDrain(w) \/ Drain(w)
  \/ Shut(w) \/ (\E p \in Page : Open(w, p)) \/ OpenFails(w) \/ RecordOpened(w)

WorkerStep(w) == Call(w) \/ Continue(w) \/ Crash(w)

-----------------------------------------------------------------------------
(* broker reconcile: five steps with no transaction across them.           *)

ReadRecordedTabs(r) ==
  /\ stage[r] = "idle"
  /\ stage' = [stage EXCEPT ![r] = "list"]
  /\ recorded' = [recorded EXCEPT ![r] =
       {[row |-> row, page |-> driverTabId[row]] :
          row \in {row \in Row : /\ claimState[row[1]] = "active"
                                 /\ RowState(row) \in Lease!LiveTab}}]
  /\ UNCHANGED <<leaseVars, pageVars, workVars, listed, kept>>

\* The run attaches, which chooses a keeper, and lists.
ListTabs(r) ==
  /\ stage[r] = "list"
  /\ stage' = [stage EXCEPT ![r] = "settle"]
  /\ \E keeper \in MayBeKeeper :
       /\ kept' = [kept EXCEPT ![r] = keeper]
       /\ listed' = [listed EXCEPT ![r] = Listing(keeper)]
  /\ UNCHANGED <<leaseVars, pageVars, workVars, recorded>>

VanishedOrOpening(tabs, pages) == {tab \in tabs : tab.page \notin pages}

\* decideReconciliation: the recorded tabs whose page the browser lacks ...
Vanished(tabs, pages) ==
  {tab \in tabs : tab.page # NoPage /\ tab.page \notin pages}

UnownedByAnyRow(tabs, pages) ==
  {p \in pages : \A row \in Row : driverTabId[row] # p}

\* ... and the pages no recorded tab names, unless a tab is being opened.
Unowned(tabs, pages) ==
  IF \E tab \in tabs : tab.page = NoPage THEN {}
                       ELSE pages \ {tab.page : tab \in tabs}

\* applyReconciliation closes the rows in one statement ...
SettleTabs(r) ==
  /\ stage[r] = "settle"
  /\ stage' = [stage EXCEPT ![r] = "revoke"]
  /\ CloseRows({tab.row : tab \in Vanished(recorded[r], listed[r])}
               \cap {row \in Row : RowState(row) \in {"opening", "open", "closing"}})
  /\ UNCHANGED <<claimState, left, ttl, arrival, nextArrival>>
  /\ UNCHANGED <<pageVars, workVars, recorded, listed, kept>>

\* ... and ends their leases in another.
Revoke(r) ==
  /\ stage[r] = "revoke"
  /\ stage' = [stage EXCEPT ![r] = "strand"]
  /\ LET ended == {c \in Claim :
                     /\ claimState[c] = "active"
                     /\ \E tab \in Vanished(recorded[r], listed[r]) : tab.row[1] = c}
     IN /\ claimState' = [c \in Claim |-> IF c \in ended THEN "revoked" ELSE claimState[c]]
        /\ left' = [c \in Claim |-> IF c \in ended THEN 0 ELSE left[c]]
  /\ UNCHANGED <<ttl, arrival, nextArrival, tabState>>
  /\ UNCHANGED <<pageVars, workVars, recorded, listed, kept>>

\* The rows left `closing` are settled on the same listing, and what is left
\* of the listing are the pages to close.
SettleStrandedTabs(r) ==
  /\ stage[r] = "strand"
  /\ stage' = [stage EXCEPT ![r] = "close"]
  /\ SettleStranded(listed[r])
  /\ recorded' = [recorded EXCEPT ![r] = {}]
  /\ listed' = [listed EXCEPT ![r] = Unowned(recorded[r], listed[r])]
  /\ kept' = [kept EXCEPT ![r] = NoPage]
  /\ UNCHANGED <<pageVars, workVars>>

\* One closeTab for each; a page it does not close is passed over.
CloseUnowned(r) ==
  /\ stage[r] = "close"
  /\ \E p \in listed[r] :
       /\ listed' = [listed EXCEPT ![r] = @ \ {p}]
       /\ opened' \in {opened, opened \ {p}}
  /\ UNCHANGED <<leaseVars, driverTabId, minted, workVars, stage, recorded, kept>>

\* The run ends, or its process is killed at any step.
EndReconcile(r) ==
  /\ stage[r] # "idle"
  /\ stage' = [stage EXCEPT ![r] = "idle"]
  /\ recorded' = [recorded EXCEPT ![r] = {}]
  /\ listed' = [listed EXCEPT ![r] = {}]
  /\ kept' = [kept EXCEPT ![r] = NoPage]
  /\ UNCHANGED <<leaseVars, pageVars, workVars>>

ReconcilerStep(r) ==
  \/ ReadRecordedTabs(r) \/ ListTabs(r) \/ SettleTabs(r) \/ Revoke(r)
  \/ SettleStrandedTabs(r) \/ CloseUnowned(r) \/ EndReconcile(r)

-----------------------------------------------------------------------------
\* A person closes a page, or the browser dies with all of them one by one.
ClosedByHand(p) ==
  /\ p \in opened
  /\ opened' = opened \ {p}
  /\ UNCHANGED <<leaseVars, driverTabId, minted, workVars, reconVars>>

Tick == Lease!Tick /\ UNCHANGED <<pageVars, workVars, reconVars>>

Init ==
  /\ Lease!Init
  /\ driverTabId = [row \in Row |-> NoPage]
  /\ opened = {} /\ minted = {}
  /\ toClose = [w \in Worker |-> {}]
  /\ toShut = [w \in Worker |-> NoPage]
  /\ toOpen = [w \in Worker |-> NoRow]
  /\ news = [w \in Worker |-> Nothing]
  /\ stage = [r \in Reconciler |-> "idle"]
  /\ recorded = [r \in Reconciler |-> {}]
  /\ listed = [r \in Reconciler |-> {}]
  /\ kept = [r \in Reconciler |-> NoPage]

Next ==
  \/ \E w \in Worker : WorkerStep(w)
  \/ \E r \in Reconciler : ReconcilerStep(r)
  \/ \E p \in Page : ClosedByHand(p)
  \/ Tick

Spec == Init /\ [][Next]_vars

-----------------------------------------------------------------------------
(* Properties.                                                             *)

Stage == {"idle", "list", "settle", "revoke", "strand", "close"}
News  == [kind  : {"nothing", "closed", "drain", "listed", "opened"},
          row   : Row \cup {NoRow},
          pages : SUBSET Page]

\* Every variable has its type, and the CHECK of step 4 holds: a live row
\* names a page exactly when it is no longer `opening`.
TypeOK ==
  /\ Lease!TypeOK
  /\ driverTabId \in [Row -> Page \cup {NoPage}]
  /\ opened \subseteq minted /\ minted \subseteq Page
  /\ toClose \in [Worker -> SUBSET Row]
  /\ toShut \in [Worker -> Page \cup {NoPage}]
  /\ toOpen \in [Worker -> Row \cup {NoRow}]
  /\ news \in [Worker -> News]
  /\ stage \in [Reconciler -> Stage]
  /\ recorded \in [Reconciler -> SUBSET [row : Row, page : Page \cup {NoPage}]]
  /\ listed \in [Reconciler -> SUBSET Page]
  /\ kept \in [Reconciler -> Page \cup {NoPage}]
  /\ \A row \in Row :
       RowState(row) \in {"opening", "open", "closing"}
         => (RowState(row) = "opening") = (driverTabId[row] = NoPage)

\* SCHEMA section 1.4, one_row_per_physical_tab: whatever calls race to open a
\* page for a row, no two rows name one page, and every row keeps the page it
\* was first given.
OneRowPerPage ==
  [][/\ \A row, other \in Row :
          row # other /\ driverTabId[row] # NoPage => driverTabId'[row] # driverTabId'[other]
     /\ \A row \in Row :
          driverTabId[row] # NoPage => driverTabId'[row] = driverTabId[row]]_vars

\* "Releasing closes exactly that lease's tab. Expiry does the same" (SCHEMA
\* section 2.7): what a call left to do after its commit never closes the page
\* of a lease that is active when it is done, however late it is done.
CallsSpareOwnedPages ==
  [][(\E w \in Worker : WorkerStep(w))
       => \A row \in Row :
            Owned(row)' /\ driverTabId[row] \in opened => driverTabId[row] \in opened']_vars

\* What ended stays ended, and a closed row closed, under late answers and
\* under reconcile as well.
EndedStaysEnded == Lease!EndedStaysEnded

\* runtime.ts: "the outcome decides the row".  No close that failed is taken for
\* one that succeeded: a row is closed while its page is open only on a listing
\* that does not name the page, being older than it, or made by a session that
\* took the page for its keeper.
ClosedOnEvidence ==
  [][\A row \in Row :
       /\ RowState(row) \in {"open", "closing"} /\ RowState(row)' = "closed"
       /\ driverTabId[row] \in opened
       => \/ \E w \in Worker : news[w].kind = "listed" /\ driverTabId[row] \notin news[w].pages
          \/ \E r \in Reconciler : stage[r] = "strand" /\ driverTabId[row] \notin listed[r]
          \/ \E r \in Reconciler : stage[r] = "settle" /\ driverTabId[row] = kept[r]]_vars

\* Reconcile reads the rows before it lists the pages, so a page opened in
\* between costs nobody a lease: it takes one away only for a page that is gone,
\* or that its own session took for its keeper and so does not see.
RevokedForAPageNotSeen ==
  [][\A c \in Claim :
       claimState[c] = "active" /\ claimState'[c] = "revoked"
       => \E n \in Lease!TabNo :
            /\ driverTabId[<<c, n>>] \in minted
            /\ \/ driverTabId[<<c, n>>] \notin opened
               \/ \E r \in Reconciler :
                    stage[r] = "revoke" /\ kept[r] = driverTabId[<<c, n>>]]_vars

\* reconcile-command.ts:48: "It closes pages **it has proved no live lease
\* owns**".  No page it closes is the page of an active lease.
ReconcileSparesOwnedPages ==
  [][(\E r \in Reconciler : ReconcilerStep(r))
       => \A row \in Row :
            Owned(row) /\ driverTabId[row] \in opened => driverTabId[row] \in opened']_vars

-----------------------------------------------------------------------------
(* Liveness.  Processes go on unless they die, callers give their leases   *)
(* back, and a person runs reconcile again until a run gets through, which *)
(* the code does not make happen but its documents ask for.                *)

GivesBack(c) == \E w \in Worker : Idle(w) /\ (Release(w, c) \/ ReleaseEnded(w, c))

ReconcileGetsThrough(r) ==
  /\ WF_vars(ReadRecordedTabs(r)) /\ SF_vars(ListTabs(r)) /\ SF_vars(SettleTabs(r))
  /\ SF_vars(Revoke(r)) /\ SF_vars(SettleStrandedTabs(r))
  /\ SF_vars(CloseUnowned(r) /\ opened' # opened)
  /\ WF_vars(stage[r] = "close" /\ (CloseUnowned(r) \/ EndReconcile(r)))

FairSpec ==
  /\ Spec
  /\ \A w \in Worker : WF_vars(Continue(w))
  /\ \A c \in Claim : SF_vars(GivesBack(c))
  /\ \A r \in Reconciler : ReconcileGetsThrough(r)

\* A page no active lease's row names does not stay: it is closed, or it is
\* given to the row it was opened for, unless it is blank and one run after the
\* other takes it for its keeper.
PageClosesOrServes(p) ==
  p \in opened ~> \/ p \notin opened
                  \/ \E row \in Row : Owned(row) /\ driverTabId[row] = p
                  \/ \E r \in Reconciler : kept[r] = p

\* A row an ended lease left behind is settled, whichever process died owing
\* it a close.
GivenUpRowSettles ==
  \A row \in Row :
    RowState(row) = "closing" /\ claimState[row[1]] # "active" ~> RowState(row) = "closed"
=============================================================================
