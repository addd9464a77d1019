----------------------------- MODULE Arbitration -----------------------------
(***************************************************************************)
(* The whole arbitration store: the lease tables of Leases beside the      *)
(* `browsers` rows, with the sign-ins that take a browser away from its    *)
(* callers (operations/sign-in.ts) and the adoption writes that record     *)
(* whether one is running (browser/adoption.ts).                           *)
(*                                                                         *)
(* Every arbitration call is the Leases action of the same name together   *)
(* with the lapse of unanswered sign-in requests, in one transaction.      *)
(***************************************************************************)
EXTENDS Integers, FiniteSets

CONSTANTS
  Claim, Budget, LeaseSeconds, QueueSeconds, MaxTabs,   \* as in Leases
  Browser,          \* the browsers of the service
  Signable,         \* those of kind 'regular', whose profile persists
  Login,            \* `broker login` processes, each run once
  SignInSeconds,    \* the longest a requested sign-in stays open
  MaxLaunches,      \* bound: launches of one browser in flight at once
  NoBrowser, NoLogin, NoClaim   \* the null of each column

NoDeadline == -1

VARIABLES
  claimState, left, ttl, arrival, nextArrival, tabState,   \* as in Leases
  claimBrowser,     \* claims.browser_id
  browserState,     \* browsers.state
  hasPid,           \* whether browsers.pid is not null
  signinOwner,      \* browsers.signin_owner_pid
  signinLeft,       \* ticks until browsers.signin_deadline, or NoDeadline
  signinClaim,      \* browsers.signin_claim_id
  holding,          \* holding[b]: login processes that began a sign-in on b
                    \*   and have not ended it
  exited,           \* login processes that have exited or were killed
  launching         \* launching[b]: launches begun and not yet recorded

Lease == INSTANCE Leases

\* The settings of Leases, and nulls that are no value of their column.
ASSUME ArbitrationAssumption ==
  /\ IsFiniteSet(Claim)
  /\ {Budget, LeaseSeconds, QueueSeconds, MaxTabs, SignInSeconds} \subseteq Nat \ {0}
  /\ Signable \subseteq Browser
  /\ MaxLaunches \in Nat
  /\ NoBrowser \notin Browser
  /\ NoLogin \notin Login
  /\ NoClaim \notin Claim

leaseVars   == <<claimState, left, ttl, arrival, nextArrival, tabState>>
signinVars  == <<signinOwner, signinLeft, signinClaim>>
browserVars == <<browserState, hasPid, signinVars>>
processVars == <<holding, exited, launching>>
vars == <<leaseVars, claimBrowser, browserVars, processVars>>

BrowserState == {"stopped", "starting", "running", "signing-in"}

-----------------------------------------------------------------------------
(* Reading the tables.                                                     *)

\* A request nobody answered: only a requested sign-in has a deadline.
SignInLapsed(b) == browserState[b] = "signing-in" /\ signinLeft[b] = 0

\* What a browser goes back to when a sign-in on it ends.
Serving(b) == IF hasPid[b] THEN "running" ELSE "stopped"

SweptBrowser ==
  [b \in Browser |-> IF SignInLapsed(b) THEN Serving(b) ELSE browserState[b]]

HoldersOfOpenTabs(b) ==
  {c \in Claim : /\ claimBrowser[c] = b
                 /\ Lease!Swept[c] = "active"
                 /\ \E n \in Lease!TabNo : tabState[c][n] = "open"}

\* Active leases holding a live tab on b once the sweep has run.
Holders(b) ==
  {c \in Claim : /\ claimBrowser[c] = b
                 /\ Lease!Swept[c] = "active"
                 /\ \E n \in Lease!TabNo :
                      Lease!SweptTabs[c][n] \in Lease!LiveTab}

AnybodyMayFinish(b, c) == TRUE

\* Whether the sign-in on b is the one lease c asked for.
MayFinish(b, c) == signinClaim[b] = c

\* Whether the sign-in on b may be taken over: its owner is known and gone.
OwnerGone(b) == signinOwner[b] \in exited

-----------------------------------------------------------------------------
(* The parts of a transaction.                                             *)

SweepClaimsOnly ==
  /\ claimState' = Lease!Swept
  /\ UNCHANGED <<left, ttl, arrival, nextArrival, tabState>>

SweepLeases ==
  /\ claimState' = Lease!Swept
  /\ tabState' = Lease!SweptTabs
  /\ UNCHANGED <<left, ttl, arrival, nextArrival>>

\* A sign-in column once the unanswered requests are cleared.
Cleared(column, null) ==
  [b \in Browser |-> IF SignInLapsed(b) THEN null ELSE column[b]]

LapseNothing == UNCHANGED browserVars

LapseSignIns ==
  /\ browserState' = SweptBrowser
  /\ signinLeft' = Cleared(signinLeft, NoDeadline)
  /\ signinClaim' = Cleared(signinClaim, NoClaim)
  /\ UNCHANGED <<hasPid, signinOwner>>

TakeBrowserLeavesDeadline(b, owner, deadline, claim) ==
  /\ browserState' = [SweptBrowser EXCEPT ![b] = "signing-in"]
  /\ signinOwner' = [signinOwner EXCEPT ![b] = owner]
  /\ signinLeft' = IF deadline = NoDeadline THEN signinLeft
                                           ELSE [signinLeft EXCEPT ![b] = deadline]
  /\ signinClaim' = [Cleared(signinClaim, NoClaim) EXCEPT ![b] = claim]
  /\ UNCHANGED hasPid

\* Hand b to a person.  Every sign-in column is written, whatever an earlier
\* sign-in left there.
TakeBrowser(b, owner, deadline, claim) ==
  /\ browserState' = [SweptBrowser EXCEPT ![b] = "signing-in"]
  /\ signinOwner' = [signinOwner EXCEPT ![b] = owner]
  /\ signinLeft' = [Cleared(signinLeft, NoDeadline) EXCEPT ![b] = deadline]
  /\ signinClaim' = [Cleared(signinClaim, NoClaim) EXCEPT ![b] = claim]
  /\ UNCHANGED hasPid

GiveBrowserBack(b) ==
  /\ browserState' = [SweptBrowser EXCEPT ![b] = Serving(b)]
  /\ signinOwner' = [signinOwner EXCEPT ![b] = NoLogin]
  /\ signinLeft' = [Cleared(signinLeft, NoDeadline) EXCEPT ![b] = NoDeadline]
  /\ signinClaim' = [Cleared(signinClaim, NoClaim) EXCEPT ![b] = NoClaim]
  /\ UNCHANGED hasPid

-----------------------------------------------------------------------------
(* The operations of callers.                                              *)

\* browser_claim, refused while a person is signing in to the browser.
Request(c, b) ==
  /\ SweptBrowser[b] # "signing-in"
  /\ Lease!Request(c)
  /\ LapseSignIns
  /\ claimBrowser' = [claimBrowser EXCEPT ![c] = b]
  /\ UNCHANGED processVars

\* The keyed operations that read no browser row.
KeyedCall(c) ==
  /\ Lease!KeyedCall(c)
  /\ LapseSignIns
  /\ UNCHANGED <<claimBrowser, processVars>>

\* How long a request may stay open: what was asked for, cut down to the longest
\* and to whole seconds, which may leave none.
RequestSeconds == 0 .. SignInSeconds

\* Nobody but c holds a tab on b.
NobodyElseHolds(b, c) == Holders(b) \subseteq {c}

\* browser_sign_in: hand the browser to a person on this lease's own tab, for
\* at most `seconds`.
RequestSignIn(c, seconds) ==
  LET b == claimBrowser[c]
  IN /\ b \in Signable
     /\ c \in Holders(b)
     /\ SweptBrowser[b] # "signing-in"
     /\ NobodyElseHolds(b, c)
     /\ Lease!Status(c)
     /\ TakeBrowser(b, NoLogin, seconds, c)
     /\ UNCHANGED <<claimBrowser, processVars>>

\* browser_sign_in with action "done": only for the lease that asked.
FinishSignIn(c) ==
  LET b == claimBrowser[c]
  IN /\ b \in Signable
     /\ SweptBrowser[b] = "signing-in"
     /\ MayFinish(b, c)
     /\ Lease!Status(c)
     /\ GiveBrowserBack(b)
     /\ UNCHANGED <<claimBrowser, processVars>>

-----------------------------------------------------------------------------
(* `broker login`.                                                         *)

\* begin_sign_in.  A sign-in in progress is taken over only when the process
\* that began it is gone.
BeginSignIn(b, p) ==
  /\ b \in Signable
  /\ p \notin exited
  /\ \A d \in Browser : p \notin holding[d]
  /\ SweptBrowser[b] = "signing-in" => OwnerGone(b)
  /\ Holders(b) = {}
  /\ SweepLeases
  /\ TakeBrowser(b, p, NoDeadline, NoClaim)
  /\ holding' = [holding EXCEPT ![b] = @ \cup {p}]
  /\ UNCHANGED <<claimBrowser, exited, launching>>

\* end_sign_in: the call says which browser, and nothing of who began it.
EndSignIn(b, p) ==
  /\ p \in holding[b]
  /\ SweptBrowser[b] = "signing-in"
  /\ SweepLeases
  /\ GiveBrowserBack(b)
  /\ holding' = [holding EXCEPT ![b] = @ \ {p}]
  /\ exited' = exited \cup {p}
  /\ UNCHANGED <<claimBrowser, launching>>

\* The process exits without ending anything: it was killed, or its
\* end_sign_in was refused because the browser is not being signed into.
LoginExits(b, p) ==
  /\ p \in holding[b]
  /\ holding' = [holding EXCEPT ![b] = @ \ {p}]
  /\ exited' = exited \cup {p}
  /\ UNCHANGED <<leaseVars, claimBrowser, browserVars, launching>>

-----------------------------------------------------------------------------
(* Adoption: transactions of their own, which sweep nothing.  What the     *)
(* process observed of the browser was read before the transaction.        *)

SetBrowser(b, state, pid) ==
  /\ browserState' = [browserState EXCEPT ![b] = state]
  /\ hasPid' = [hasPid EXCEPT ![b] = pid]
  /\ UNCHANGED <<leaseVars, claimBrowser, signinVars, holding, exited>>

\* A running browser was found: attach to it, whatever the row says.
AdoptRunning(b) ==
  /\ SetBrowser(b, "running", TRUE)
  /\ UNCHANGED launching

\* None was found, and no launch is recorded as under way: launch one.
AdoptLaunch(b) ==
  /\ browserState[b] # "starting"
  /\ launching[b] < MaxLaunches
  /\ SetBrowser(b, "starting", TRUE)
  /\ launching' = [launching EXCEPT ![b] = @ + 1]

Launched(b) ==
  /\ launching[b] > 0
  /\ SetBrowser(b, "running", TRUE)
  /\ launching' = [launching EXCEPT ![b] = @ - 1]

LaunchFailed(b) ==
  /\ launching[b] > 0
  /\ SetBrowser(b, "stopped", FALSE)
  /\ launching' = [launching EXCEPT ![b] = @ - 1]

\* The launching process dies and records nothing.
LauncherDies(b) ==
  /\ launching[b] > 0
  /\ launching' = [launching EXCEPT ![b] = @ - 1]
  /\ UNCHANGED <<leaseVars, claimBrowser, browserVars, holding, exited>>

-----------------------------------------------------------------------------
PageRecorded(c) ==
  /\ Lease!PageRecorded(c)
  /\ UNCHANGED <<claimBrowser, browserVars, processVars>>

\* A deadline in the past is 0 ticks away; a null one stays null.
Countdown(deadline) == IF deadline > 0 THEN deadline - 1 ELSE deadline

Tick ==
  /\ Lease!Tick
  /\ signinLeft' = [b \in Browser |-> Countdown(signinLeft[b])]
  /\ UNCHANGED <<claimBrowser, browserState, hasPid, signinOwner, signinClaim,
                 processVars>>

Init ==
  /\ Lease!Init
  /\ claimBrowser = [c \in Claim |-> NoBrowser]
  /\ browserState = [b \in Browser |-> "stopped"]
  /\ hasPid = [b \in Browser |-> FALSE]
  /\ signinOwner = [b \in Browser |-> NoLogin]
  /\ signinLeft = [b \in Browser |-> NoDeadline]
  /\ signinClaim = [b \in Browser |-> NoClaim]
  /\ holding = [b \in Browser |-> {}]
  /\ exited = {}
  /\ launching = [b \in Browser |-> 0]

CallerStep(c) ==
  \/ \E b \in Browser : Request(c, b)
  \/ KeyedCall(c)
  \/ \E seconds \in RequestSeconds : RequestSignIn(c, seconds)
  \/ FinishSignIn(c)
  \/ PageRecorded(c)

LoginStep(b, p) == BeginSignIn(b, p) \/ EndSignIn(b, p) \/ LoginExits(b, p)

AdoptionStep(b) ==
  \/ AdoptRunning(b)
  \/ AdoptLaunch(b)
  \/ Launched(b)
  \/ LaunchFailed(b)
  \/ LauncherDies(b)

Next ==
  \/ \E c \in Claim : CallerStep(c)
  \/ \E b \in Browser : AdoptionStep(b) \/ \E p \in Login : LoginStep(b, p)
  \/ Tick

Spec == Init /\ [][Next]_vars

-----------------------------------------------------------------------------
(* Properties.                                                             *)

\* Every browser row holds values of its columns.
BrowserTypeOK ==
  /\ claimBrowser \in [Claim -> Browser \cup {NoBrowser}]
  /\ browserState \in [Browser -> BrowserState]
  /\ hasPid \in [Browser -> BOOLEAN]
  /\ signinOwner \in [Browser -> Login \cup {NoLogin}]
  /\ signinLeft \in [Browser -> 0 .. SignInSeconds \cup {NoDeadline}]
  /\ signinClaim \in [Browser -> Claim \cup {NoClaim}]
  /\ holding \in [Browser -> SUBSET Login]
  /\ exited \subseteq Login
  /\ launching \in [Browser -> 0 .. MaxLaunches]

\* A sign-in has exactly one holder: a person's process, which no deadline can
\* take it from, or a lease's request, which has one.  Adoption overwrites
\* `state` and leaves these columns behind; they must not leak into the next.
SignInHasOneHolder ==
  \A b \in Browser : browserState[b] = "signing-in" =>
    \/ /\ signinOwner[b] # NoLogin
       /\ signinLeft[b] = NoDeadline
       /\ signinClaim[b] = NoClaim
    \/ /\ signinOwner[b] = NoLogin
       /\ signinLeft[b] # NoDeadline
       /\ signinClaim[b] # NoClaim

\* The checks of the table (step 9): a stopped browser has no process, and one
\* without a process is stopped or in a person's hands.  A write that broke them
\* would be refused by the store, and with it the call that made it.
ProcessFitsState ==
  \A b \in Browser :
    /\ browserState[b] = "stopped" => ~hasPid[b]
    /\ ~hasPid[b] => browserState[b] \in {"stopped", "signing-in"}

\* When a person is handed a browser, nobody but the lease that asked is at
\* work in it: no sign-in starts underneath a caller's pages.
SignInStartsAlone ==
  [][\A b \in Browser :
       /\ browserState'[b] = "signing-in"
       /\ \/ browserState[b] # "signing-in"
          \/ signinOwner'[b] # signinOwner[b]
          \/ signinClaim'[b] # signinClaim[b]
       => \A c \in Claim :
            claimState'[c] = "active" /\ claimBrowser[c] = b
              => c = signinClaim'[b]]_vars

\* The columns that say a browser is in somebody's hands, and whose.
SignInColumns(b) ==
  <<browserState[b], signinOwner[b], signinLeft[b], signinClaim[b]>>

\* While the process that owns a sign-in is at its window, no lease's call, no
\* other login's beginning and no clock touches any column that says so.  A login
\* process that had the browser before may end it, naming no owner; and adoption,
\* which does not read the columns, may write another state over the row.
PersonKeepsSignIn ==
  [][\A b \in Browser :
       /\ browserState[b] = "signing-in"
       /\ signinOwner[b] \in holding[b]
       => \/ SignInColumns(b)' = SignInColumns(b)
          \/ \E p \in Login : EndSignIn(b, p)
          \/ AdoptionStep(b) /\ UNCHANGED signinVars]_vars

\* A call that changes a lease has first ended every request nobody answered:
\* a browser is not kept from its callers past the deadline it was given.  Only
\* a new request, for no time at all, leaves one that is over at once.
UnansweredRequestLapses ==
  [][\A b \in Browser :
       /\ SignInLapsed(b)
       /\ \E c \in Claim : claimState'[c] # claimState[c] \/ left'[c] > left[c]
       => \/ signinLeft'[b] # 0
          \/ \E c \in Claim : claimBrowser[c] = b /\ RequestSignIn(c, 0)]_vars

\* Beside the browser rows, the store is the lease tables of Leases: every
\* theorem about them holds of it.
ImplementsLeases == Lease!Spec

=============================================================================
