------------------------------- MODULE Schema -------------------------------
(***************************************************************************)
(* What the store's tables accept, version by version, and what each step  *)
(* of an upgrade does to the rows it finds (store/schema/).                *)
(*                                                                         *)
(* A row is a record of the columns the CHECK constraints tell apart; a    *)
(* nullable column nobody computes with is a Boolean: is it filled?  A     *)
(* column a version does not have yet holds Null.                          *)
(***************************************************************************)
EXTENDS Integers, FiniteSets

CONSTANTS
  Null,         \* SQL's NULL
  BrowserName   \* names a browser may have

\* EXPECTED_VERSION, the number of steps there are.
Expected == 11
Version  == 0 .. Expected

-----------------------------------------------------------------------------
(* CHECK constraints.                                                      *)

BrowserStates == {"stopped", "starting", "running", "signing-in", "failed"}
Kinds == {"regular", "private"}

\* Up to step seven a browser has a process exactly when it is not stopped;
\* from then on one that a person signs in to may have none yet.  Up to step
\* nine the two names are the two kinds; from then on a name is free and the
\* kind is a column.
LegalBrowser(v, r) ==
  /\ r.state \in BrowserStates
  /\ v < 7 => (r.state = "stopped" <=> ~r.pid)
  /\ v >= 7 => /\ r.state = "stopped" => ~r.pid
               /\ r.pid \/ r.state \in {"stopped", "signing-in"}
  /\ v < 9 => r.name \in Kinds /\ r.kind = Null
  /\ v >= 9 => r.kind \in Kinds

ClaimStates == {"queued", "active", "released", "expired", "revoked"}
FinalStates == {"released", "expired", "revoked"}

LegalClaim(v, r) ==
  /\ r.state \in ClaimStates
  /\ r.state = "revoked" <=> r.reason
  /\ r.state \in FinalStates <=> r.ended
  /\ r.state = "queued" => ~r.activated
  /\ v < 3 => r.arrival = Null

LiveTabs == {"opening", "open", "closing"}

\* A row that is opening has no page yet.  From step four on a row that ended
\* may never have had one.
LegalTab(v, r) ==
  /\ r.state \in LiveTabs \cup {"closed", "failed"}
  /\ v < 4 => (r.state = "opening" <=> ~r.driver)
  /\ v >= 4 => (r.state \in LiveTabs => (r.state = "opening" <=> ~r.driver))

\* The kinds of event a version knows, as the steps that added them.
AddedKinds(v) ==
  CASE v = 1 -> {"claim_requested", "claim_granted", "claim_queued",
                 "claim_promoted", "claim_renewed", "claim_released",
                 "claim_expired", "claim_revoked", "tab_opening",
                 "tab_open_failed", "tab_closing", "navigate", "act", "read",
                 "evaluate", "capture", "compare", "browser_launched",
                 "browser_adopted", "browser_exited", "launch_race_lost",
                 "sweep"}
    [] v = 5 -> {"storage_seeded"}
    [] v = 6 -> {"browser_signin_began", "browser_signin_ended"}
    [] v = 11 -> {"secret_filled"}
    [] OTHER -> {}

EventKinds(v) == UNION {AddedKinds(w) : w \in 1 .. v}

LegalEvent(v, r) ==
  /\ r.kind \in EventKinds(v)
  /\ r.outcome \in {"allow", "deny"}
  /\ r.outcome = "deny" <=> r.guard

LegalCapture(r) ==
  /\ r.kind \in {"viewport", "element", "full_page"}
  /\ r.tier \in {"default", "detail", "max"}
  /\ r.tier = "max" => r.reason
  /\ r.kind = "element" <=> r.selector
  /\ r.width > 0 /\ r.height > 0 /\ r.bytes >= 0
  /\ ~r.absolute

LegalComparison(r) ==
  /\ r.colourTolerance >= 0 /\ r.minimumRegionArea >= 0 /\ r.maximumRegions > 0
  /\ 0 <= r.changedPixels /\ r.changedPixels <= r.allPixels
  /\ ~r.absolute

FeedbackCategories ==
  {"refusal-unclear", "no-path", "worked-around", "surprised-me", "worked-well"}

LegalFeedback(r) ==
  /\ r.rating \in 1 .. 5
  /\ r.category \in FeedbackCategories
  /\ 20 <= r.noteLength /\ r.noteLength <= 2000

\* one_row_per_physical_tab: no two live rows name the same page.
OneRowPerPhysicalTab(tabs) ==
  \A r, s \in tabs :
    /\ r.state \in LiveTabs /\ s.state \in LiveTabs
    /\ r.page # Null /\ r.page = s.page
    => r = s

-----------------------------------------------------------------------------
(* A store: its rows, the arrival counter, the budget row, and whether     *)
(* some row names one that does not exist (foreign keys are not checked    *)
(* while they are off).                                                    *)

BrowserRows == [name : BrowserName, kind : Kinds \cup {Null}, state : BrowserStates, pid : BOOLEAN]
ClaimRows == [id : Nat, created : Nat, state : ClaimStates, reason : BOOLEAN, ended : BOOLEAN,
              activated : BOOLEAN, arrival : Nat \cup {Null}]
TabRows == [state : LiveTabs \cup {"closed", "failed"}, driver : BOOLEAN, page : Nat \cup {Null}]
EventRows == [kind : STRING, outcome : {"allow", "deny"}, guard : BOOLEAN]

Stores == [browsers : SUBSET BrowserRows, claims : SUBSET ClaimRows, tabs : SUBSET TabRows,
           events : SUBSET EventRows, next : Nat \cup {Null}, budget : Nat \cup {Null},
           dangling : BOOLEAN]

NoRows == [browsers |-> {}, claims |-> {}, tabs |-> {}, events |-> {},
           next |-> Null, budget |-> Null, dangling |-> FALSE]

Legal(v, db) ==
  /\ \A r \in db.browsers : LegalBrowser(v, r)
  /\ \A r \in db.claims : LegalClaim(v, r)
  /\ \A r \in db.tabs : LegalTab(v, r)
  /\ \A r \in db.events : LegalEvent(v, r)
  /\ OneRowPerPhysicalTab(db.tabs)
  /\ v = 0 => db = NoRows
  /\ db.budget # Null => v >= 2
  /\ db.next = Null <=> v < 3

-----------------------------------------------------------------------------
(* The steps.                                                              *)

\* Step one: the tables, and a row for each of the two browsers.
StepOne(db) ==
  [db EXCEPT !.browsers = {[name |-> k, kind |-> Null, state |-> "stopped",
                            pid |-> FALSE] : k \in Kinds}]

EarlierById(c, claims) == {d \in claims : d.id <= c.id}

\* Step three: the claims that are there arrived in the order of their
\* creation, ties broken by id, and the counter starts above them.
Earlier(c, claims) ==
  {d \in claims : d.created < c.created \/ (d.created = c.created /\ d.id <= c.id)}

StepThree(db) ==
  [db EXCEPT !.claims = {[c EXCEPT !.arrival = Cardinality(Earlier(c, db.claims))]
                           : c \in db.claims},
             !.next = Cardinality(db.claims)]

\* Steps four, five, six, seven and eleven copy a table under a wider check;
\* the rows are what they were.
Rebuild(db) == db

\* Step nine: the two names that could exist each say their own kind.
StepNine(db) ==
  [db EXCEPT !.browsers =
     {[r EXCEPT !.kind = IF r.name = "private" THEN "private" ELSE "regular"]
        : r \in db.browsers}]

\* Steps two, eight and ten add an empty table or empty columns.
Widen(db) == db

Stepped(v, db) ==
  CASE v = 1 -> StepOne(db)
    [] v = 3 -> StepThree(db)
    [] v = 9 -> StepNine(db)
    [] v \in {4, 5, 6, 7, 11} -> Rebuild(db)
    [] OTHER -> Widen(db)

\* Who is served first: by creation before the counter exists, by arrival
\* afterwards.
Before(v, c, d) ==
  IF v < 3
  THEN c.created < d.created \/ (c.created = d.created /\ c.id < d.id)
  ELSE c.arrival < d.arrival
=============================================================================
