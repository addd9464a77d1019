-------------------------- MODULE ArbitrationProofs --------------------------
(***************************************************************************)
(* Theorems about the whole arbitration store: beside the browser rows it  *)
(* behaves as Leases says, so that the theorems of LeasesProofs hold of    *)
(* it; and who may take a browser from its callers, and from a person.     *)
(***************************************************************************)
EXTENDS Arbitration, TLAPS

\* The rows of the lease tables, and the live row of every active lease.
LeaseRows ==
  /\ claimState \in [Claim -> Lease!ClaimState]
  /\ tabState \in [Claim -> [Lease!TabNo -> Lease!TabState]]
  /\ \A c \in Claim : claimState[c] = "active" =>
       \E n \in Lease!TabNo : tabState[c][n] \in Lease!LiveTab

\* A login process is at one sign-in at most, and at none once it has exited.
HoldersAlive ==
  \A b \in Browser :
    /\ holding[b] \cap exited = {}
    /\ \A d \in Browser \ {b} : holding[b] \cap holding[d] = {}

AInv ==
  /\ LeaseRows
  /\ BrowserTypeOK
  /\ SignInHasOneHolder
  /\ ProcessFitsState
  /\ HoldersAlive

-----------------------------------------------------------------------------
(* The lease tables.                                                       *)

\* What a sweep leaves: an active lease is one that had not lapsed, with the
\* tab rows it had.
LEMMA SweptRows ==
  ASSUME LeaseRows
  PROVE  /\ Lease!Swept \in [Claim -> Lease!ClaimState]
         /\ Lease!SweptTabs \in [Claim -> [Lease!TabNo -> Lease!TabState]]
         /\ \A c \in Claim : Lease!GiveUpTabs(tabState[c])
                               \in [Lease!TabNo -> Lease!TabState]
         /\ \A c \in Claim : Lease!Swept[c] \in Lease!LiveClaim =>
              /\ Lease!Swept[c] = claimState[c]
              /\ Lease!SweptTabs[c] = tabState[c]
  BY DEF LeaseRows, Lease!Swept, Lease!SweptTabs, Lease!GiveUpTabs, Lease!GivenUp,
         Lease!TabState, Lease!LiveTab, Lease!ClaimState, Lease!LiveClaim,
         Lease!FinalClaim, Lease!Lapsed

\* The sweep alone is a step of the lease tables: what releasing one of the
\* leases it ends does to them.  With nothing to end it changes nothing.
LEMMA SweepIsALeaseStep ==
  ASSUME LeaseRows, SweepLeases
  PROVE  [Lease!Next]_leaseVars
<1>1. CASE \E c \in Claim : Lease!Lapsed(c)
  <2>1. PICK c \in Claim : Lease!Lapsed(c)
    BY <1>1
  <2>2. Lease!Swept[c] \in Lease!FinalClaim
    BY <2>1 DEF Lease!Swept, Lease!FinalClaim
  <2>3. Lease!ReleaseEnded(c)
    BY <2>2 DEF SweepLeases, Lease!ReleaseEnded
  <2> QED
    BY <2>3 DEF Lease!Next, Lease!KeyedCall
<1>2. CASE \A c \in Claim : ~Lease!Lapsed(c)
  <2>1. Lease!Swept = claimState /\ Lease!SweptTabs = tabState
    BY <1>2 DEF LeaseRows, Lease!Swept, Lease!SweptTabs
  <2> QED
    BY <2>1 DEF SweepLeases, leaseVars
<1> QED
  BY <1>1, <1>2

\* Every step of the store is a step of the lease tables, or leaves them alone.
LEMMA StepIsALeaseStep ==
  ASSUME LeaseRows, [Next]_vars
  PROVE  [Lease!Next]_leaseVars
<1>1. ASSUME NEW c \in Claim, CallerStep(c) PROVE [Lease!Next]_leaseVars
  <2>1. CASE \E b \in Browser : Request(c, b)
    BY <2>1 DEF Request, Lease!Next
  <2>2. CASE KeyedCall(c)
    BY <2>2 DEF KeyedCall, Lease!Next
  <2>3. CASE \E seconds \in RequestSeconds : RequestSignIn(c, seconds)
    BY <2>3 DEF RequestSignIn, Lease!Next, Lease!KeyedCall
  <2>4. CASE FinishSignIn(c)
    BY <2>4 DEF FinishSignIn, Lease!Next, Lease!KeyedCall
  <2>5. CASE PageRecorded(c)
    BY <2>5 DEF PageRecorded, Lease!Next
  <2> QED
    BY <1>1, <2>1, <2>2, <2>3, <2>4, <2>5 DEF CallerStep
<1>2. ASSUME NEW b \in Browser, AdoptionStep(b) PROVE UNCHANGED leaseVars
  BY <1>2 DEF AdoptionStep, AdoptRunning, AdoptLaunch, Launched, LaunchFailed,
              LauncherDies, SetBrowser
<1>3. ASSUME NEW b \in Browser, NEW p \in Login, LoginStep(b, p)
      PROVE  [Lease!Next]_leaseVars
  <2>1. CASE BeginSignIn(b, p) \/ EndSignIn(b, p)
    BY <2>1, SweepIsALeaseStep DEF BeginSignIn, EndSignIn
  <2>2. CASE LoginExits(b, p)
    BY <2>2 DEF LoginExits
  <2> QED
    BY <1>3, <2>1, <2>2 DEF LoginStep
<1>4. CASE Tick
  BY <1>4 DEF Tick, Lease!Next
<1>5. CASE UNCHANGED vars
  BY <1>5 DEF vars
<1> QED
  BY <1>1, <1>2, <1>3, <1>4, <1>5 DEF Next

\* A lease that is active after a step was granted a row, kept its live row, or
\* had it replaced by the next.
LEMMA LeaseRowsStep ==
  ASSUME LeaseRows, [Lease!Next]_leaseVars
  PROVE  LeaseRows'
<1> USE SweptRows, ArbitrationAssumption
<1>1. 1 \in Lease!TabNo /\ "opening" \in Lease!TabState \cap Lease!LiveTab
  BY DEF Lease!TabNo, Lease!TabState, Lease!LiveTab
<1>2. ASSUME NEW c \in Claim, Lease!Request(c) PROVE LeaseRows'
  <2>1. PICK state \in {"active", "queued"} :
          /\ claimState' = [Lease!Swept EXCEPT ![c] = state]
          /\ tabState' = IF state = "active"
                           THEN [Lease!SweptTabs EXCEPT ![c][1] = "opening"]
                           ELSE Lease!SweptTabs
    BY <1>2 DEF Lease!Request
  <2>2. claimState' \in [Claim -> Lease!ClaimState]
    BY <2>1 DEF Lease!ClaimState, Lease!LiveClaim
  <2>3. tabState' \in [Claim -> [Lease!TabNo -> Lease!TabState]]
    BY <1>1, <2>1
  <2>4. ASSUME NEW d \in Claim, claimState'[d] = "active"
        PROVE  \E n \in Lease!TabNo : tabState'[d][n] \in Lease!LiveTab
    BY <1>1, <2>1, <2>4 DEF LeaseRows, Lease!LiveClaim
  <2> QED
    BY <2>2, <2>3, <2>4 DEF LeaseRows
<1>3. ASSUME NEW c \in Claim, Lease!Status(c) \/ Lease!ReleaseEnded(c)
      PROVE  LeaseRows'
  BY <1>3 DEF Lease!Status, Lease!ReleaseEnded, LeaseRows, Lease!LiveClaim
<1>4. ASSUME NEW c \in Claim, NEW n \in Lease!TabNo, Lease!TabReplace(c, n)
      PROVE  LeaseRows'
  <2>1. n + 1 \in Lease!TabNo
    BY <1>4 DEF Lease!TabReplace, Lease!TabNo
  <2>2. Lease!GivenUp(tabState[c][n]) \in Lease!TabState
    BY DEF LeaseRows, Lease!GivenUp, Lease!TabState, Lease!LiveTab
  <2>3. tabState' = [Lease!SweptTabs EXCEPT ![c][n] = Lease!GivenUp(tabState[c][n]),
                                            ![c][n + 1] = "opening"]
        /\ claimState' = Lease!Swept
    BY <1>4 DEF Lease!TabReplace
  <2>4. tabState' \in [Claim -> [Lease!TabNo -> Lease!TabState]]
    BY <1>1, <2>1, <2>2, <2>3
  <2>5. tabState'[c][n + 1] = "opening" /\ \A d \in Claim \ {c} : tabState'[d] = Lease!SweptTabs[d]
    BY <2>1, <2>3
  <2>6. ASSUME NEW d \in Claim, claimState'[d] = "active"
        PROVE  \E k \in Lease!TabNo : tabState'[d][k] \in Lease!LiveTab
    BY <1>1, <2>1, <2>3, <2>5, <2>6 DEF LeaseRows, Lease!LiveClaim
  <2> QED
    BY <2>3, <2>4, <2>6 DEF LeaseRows
<1>5. ASSUME NEW c \in Claim, Lease!Release(c) PROVE LeaseRows'
  <2>1. PICK promoted \in SUBSET Claim :
          /\ claimState' = [d \in Claim |->
               IF d \in promoted THEN "active"
                                 ELSE [Lease!Swept EXCEPT ![c] = "released"][d]]
          /\ tabState' = [d \in Claim |->
               CASE d \in promoted -> [tabState[d] EXCEPT ![1] = "opening"]
                 [] d = c          -> Lease!GiveUpTabs(tabState[c])
                 [] OTHER          -> Lease!SweptTabs[d]]
          /\ c \notin promoted
    <3> DEFINE ended == [Lease!Swept EXCEPT ![c] = "released"]
    <3>1. Lease!Promotable(ended) \in SUBSET Claim /\ c \notin Lease!Promotable(ended)
      BY DEF Lease!Promotable, Lease!Queued
    <3> QED
      BY <1>5, <3>1 DEF Lease!Release
  <2>2. claimState' \in [Claim -> Lease!ClaimState]
    BY <2>1 DEF Lease!ClaimState, Lease!LiveClaim, Lease!FinalClaim
  <2>3. ASSUME NEW d \in Claim
        PROVE  /\ d \in promoted => tabState'[d] = [tabState[d] EXCEPT ![1] = "opening"]
               /\ d = c => tabState'[d] = Lease!GiveUpTabs(tabState[c])
               /\ d \notin promoted \cup {c} => tabState'[d] = Lease!SweptTabs[d]
    BY <2>1
  <2>4. tabState' \in [Claim -> [Lease!TabNo -> Lease!TabState]]
    <3>1. \A d \in Claim : tabState'[d] \in [Lease!TabNo -> Lease!TabState]
      <4> SUFFICES ASSUME NEW d \in Claim
                   PROVE  tabState'[d] \in [Lease!TabNo -> Lease!TabState]
        OBVIOUS
      <4>1. CASE d \in promoted
        <5>1. tabState'[d] = [tabState[d] EXCEPT ![1] = "opening"]
          BY <2>3, <4>1
        <5>2. tabState[d] \in [Lease!TabNo -> Lease!TabState]
          BY DEF LeaseRows
        <5> QED
          BY <1>1, <5>1, <5>2
      <4>2. CASE d \notin promoted /\ d = c
        BY <2>3, <4>2
      <4>3. CASE d \notin promoted /\ d # c
        BY <2>3, <4>3
      <4> QED
        BY <4>1, <4>2, <4>3
    <3>2. tabState' = [d \in Claim |-> tabState'[d]]
      BY <2>1
    <3> QED
      BY <3>1, <3>2
  <2>5. ASSUME NEW d \in Claim, claimState'[d] = "active"
        PROVE  \E n \in Lease!TabNo : tabState'[d][n] \in Lease!LiveTab
    <3>1. CASE d \in promoted
      <4>1. tabState'[d] = [tabState[d] EXCEPT ![1] = "opening"]
        BY <2>3, <3>1
      <4>2. tabState[d] \in [Lease!TabNo -> Lease!TabState]
        BY DEF LeaseRows
      <4>3. tabState'[d][1] = "opening"
        BY <1>1, <4>1, <4>2
      <4> QED
        BY <1>1, <4>3
    <3>2. CASE d \notin promoted
      <4>1. d # c /\ Lease!Swept[d] = "active"
        BY <2>1, <2>5, <3>2
      <4> QED
        BY <2>3, <3>2, <4>1 DEF LeaseRows, Lease!LiveClaim
    <3> QED
      BY <3>1, <3>2
  <2> QED
    BY <2>2, <2>4, <2>5 DEF LeaseRows
<1>6. ASSUME NEW c \in Claim, NEW n \in Lease!TabNo,
             Lease!PageOpened(c, n) \/ Lease!PageClosed(c, n)
      PROVE  LeaseRows'
  <2>1. PICK row \in Lease!TabState :
          /\ tabState' = [tabState EXCEPT ![c][n] = row]
          /\ tabState[c][n] \in Lease!LiveTab => row \in Lease!LiveTab
    BY <1>6 DEF Lease!PageOpened, Lease!PageClosed, Lease!TabState, Lease!LiveTab
  <2>2. claimState' = claimState
    BY <1>6 DEF Lease!PageOpened, Lease!PageClosed
  <2> QED
    BY <2>1, <2>2 DEF LeaseRows
<1>7. CASE Lease!Tick \/ UNCHANGED leaseVars
  BY <1>7 DEF Lease!Tick, leaseVars, LeaseRows
<1> QED
  BY <1>2, <1>3, <1>4, <1>5, <1>6, <1>7
  DEF Lease!Next, Lease!KeyedCall, Lease!PageCall, Lease!PageRecorded

\* The lease tables keep their rows.
LEMMA LeaseRowsInv == Spec => []LeaseRows
<1>1. Init => LeaseRows
  BY DEF Init, Lease!Init, LeaseRows, Lease!ClaimState, Lease!TabState
<1>2. LeaseRows /\ [Next]_vars => LeaseRows'
  BY StepIsALeaseStep, LeaseRowsStep
<1> QED
  BY <1>1, <1>2, PTL DEF Spec

\* Beside the browser rows, the store is the lease tables of Leases.
THEOREM StoreImplementsLeases == Spec => ImplementsLeases
<1>1. Init => Lease!Init
  BY DEF Init
<1>2. LeaseRows /\ [Next]_vars => [Lease!Next]_(Lease!vars)
  <2>1. leaseVars = Lease!vars /\ leaseVars' = Lease!vars'
    BY DEF leaseVars, Lease!vars
  <2> QED
    BY <2>1, StepIsALeaseStep
<1> QED
  BY <1>1, <1>2, LeaseRowsInv, PTL DEF Spec, ImplementsLeases, Lease!Spec

-----------------------------------------------------------------------------
(* The browser rows.                                                       *)

\* A browser row keeps values of its columns.
LEMMA BrowserTypeStep ==
  ASSUME BrowserTypeOK, [Next]_vars
  PROVE  BrowserTypeOK'
<1> USE ArbitrationAssumption DEF BrowserTypeOK
<1>1. /\ \A b \in Browser : Serving(b) \in BrowserState
      /\ SweptBrowser \in [Browser -> BrowserState]
      /\ Cleared(signinLeft, NoDeadline)
           \in [Browser -> (0 .. SignInSeconds) \cup {NoDeadline}]
      /\ Cleared(signinClaim, NoClaim) \in [Browser -> Claim \cup {NoClaim}]
  BY DEF Serving, SweptBrowser, Cleared, BrowserState
<1>2. ASSUME LapseSignIns
      PROVE  /\ browserState' \in [Browser -> BrowserState]
             /\ signinLeft' \in [Browser -> (0 .. SignInSeconds) \cup {NoDeadline}]
             /\ signinClaim' \in [Browser -> Claim \cup {NoClaim}]
             /\ UNCHANGED <<hasPid, signinOwner>>
  BY <1>1, <1>2 DEF LapseSignIns
<1>3. ASSUME NEW b \in Browser, NEW owner \in Login \cup {NoLogin},
             NEW deadline \in (0 .. SignInSeconds) \cup {NoDeadline},
             NEW claim \in Claim \cup {NoClaim},
             TakeBrowser(b, owner, deadline, claim)
      PROVE  /\ browserState' \in [Browser -> BrowserState]
             /\ signinOwner' \in [Browser -> Login \cup {NoLogin}]
             /\ signinLeft' \in [Browser -> (0 .. SignInSeconds) \cup {NoDeadline}]
             /\ signinClaim' \in [Browser -> Claim \cup {NoClaim}]
             /\ UNCHANGED hasPid
  BY <1>1, <1>3 DEF TakeBrowser, BrowserState
<1>4. ASSUME NEW b \in Browser, GiveBrowserBack(b)
      PROVE  /\ browserState' \in [Browser -> BrowserState]
             /\ signinOwner' \in [Browser -> Login \cup {NoLogin}]
             /\ signinLeft' \in [Browser -> (0 .. SignInSeconds) \cup {NoDeadline}]
             /\ signinClaim' \in [Browser -> Claim \cup {NoClaim}]
             /\ UNCHANGED hasPid
  BY <1>1, <1>4 DEF GiveBrowserBack
<1>5. ASSUME NEW c \in Claim, CallerStep(c) PROVE BrowserTypeOK'
  <2>1. ASSUME NEW b \in Browser, Request(c, b) PROVE BrowserTypeOK'
    BY <1>2, <2>1 DEF Request, processVars
  <2>2. CASE KeyedCall(c)
    BY <1>2, <2>2 DEF KeyedCall, processVars
  <2>3. ASSUME NEW seconds \in RequestSeconds, RequestSignIn(c, seconds)
        PROVE  BrowserTypeOK'
    <3>1. seconds \in (0 .. SignInSeconds) \cup {NoDeadline}
      BY <2>3 DEF RequestSeconds
    <3>2. claimBrowser[c] \in Browser
      BY <2>3 DEF RequestSignIn
    <3>3. TakeBrowser(claimBrowser[c], NoLogin, seconds, c)
      BY <2>3 DEF RequestSignIn
    <3> QED
      BY <1>3, <2>3, <3>1, <3>2, <3>3 DEF RequestSignIn, processVars
  <2>4. CASE FinishSignIn(c)
    BY <1>4, <2>4 DEF FinishSignIn, processVars
  <2>5. CASE PageRecorded(c)
    BY <2>5 DEF PageRecorded, processVars, browserVars, signinVars
  <2> QED
    BY <1>5, <2>1, <2>2, <2>3, <2>4, <2>5 DEF CallerStep
<1>6. ASSUME NEW b \in Browser, AdoptionStep(b) PROVE BrowserTypeOK'
  <2>1. CASE AdoptRunning(b) \/ AdoptLaunch(b) \/ Launched(b) \/ LaunchFailed(b)
    <3>1. PICK state \in BrowserState, pid \in BOOLEAN : SetBrowser(b, state, pid)
      BY <2>1 DEF AdoptRunning, AdoptLaunch, Launched, LaunchFailed, BrowserState
    <3>2. launching' \in [Browser -> 0 .. MaxLaunches]
      <4>1. /\ launching \in [Browser -> 0 .. MaxLaunches]
            /\ \A n \in 0 .. MaxLaunches : n < MaxLaunches => n + 1 \in 0 .. MaxLaunches
            /\ \A n \in 0 .. MaxLaunches : n > 0 => n - 1 \in 0 .. MaxLaunches
        OBVIOUS
      <4>2. CASE AdoptRunning(b)
        BY <4>1, <4>2 DEF AdoptRunning
      <4>3. CASE AdoptLaunch(b)
        BY <4>1, <4>3 DEF AdoptLaunch
      <4>4. CASE Launched(b) \/ LaunchFailed(b)
        <5>1. launching[b] > 0 /\ launching' = [launching EXCEPT ![b] = launching[b] - 1]
          BY <4>4 DEF Launched, LaunchFailed
        <5>2. launching[b] - 1 \in 0 .. MaxLaunches
          BY <4>1, <5>1
        <5> QED
          BY <4>1, <5>1, <5>2
      <4> QED
        BY <2>1, <4>2, <4>3, <4>4
    <3> QED
      BY <3>1, <3>2 DEF SetBrowser, signinVars
  <2>2. CASE LauncherDies(b)
    BY <2>2 DEF LauncherDies, browserVars, signinVars
  <2> QED
    BY <1>6, <2>1, <2>2 DEF AdoptionStep
<1>7. ASSUME NEW b \in Browser, NEW p \in Login, LoginStep(b, p) PROVE BrowserTypeOK'
  <2>1. CASE BeginSignIn(b, p)
    <3>1. TakeBrowser(b, p, NoDeadline, NoClaim)
      BY <2>1 DEF BeginSignIn
    <3> QED
      BY <1>3, <2>1, <3>1 DEF BeginSignIn
  <2>2. CASE EndSignIn(b, p)
    BY <1>4, <2>2 DEF EndSignIn
  <2>3. CASE LoginExits(b, p)
    BY <2>3 DEF LoginExits, browserVars, signinVars
  <2> QED
    BY <1>7, <2>1, <2>2, <2>3 DEF LoginStep
<1>8. CASE Tick
  <2>1. \A d \in (0 .. SignInSeconds) \cup {NoDeadline} :
          Countdown(d) \in (0 .. SignInSeconds) \cup {NoDeadline}
    BY DEF Countdown, NoDeadline
  <2> QED
    BY <1>8, <2>1 DEF Tick, processVars
<1>9. CASE UNCHANGED vars
  BY <1>9 DEF vars, browserVars, signinVars, processVars
<1> QED
  BY <1>5, <1>6, <1>7, <1>8, <1>9 DEF Next

\* The ways a step may touch the row of a browser.
LapseOnly(b) ==
  /\ browserState'[b] = SweptBrowser[b]
  /\ signinLeft'[b] = Cleared(signinLeft, NoDeadline)[b]
  /\ signinClaim'[b] = Cleared(signinClaim, NoClaim)[b]
  /\ signinOwner'[b] = signinOwner[b] /\ hasPid'[b] = hasPid[b]

TakenBy(b, owner, deadline, claim) ==
  /\ browserState'[b] = "signing-in"
  /\ signinOwner'[b] = owner
  /\ signinLeft'[b] = deadline
  /\ signinClaim'[b] = claim
  /\ hasPid'[b] = hasPid[b]

GivenBack(b) ==
  /\ browserState'[b] = Serving(b) /\ hasPid'[b] = hasPid[b]

Adopted(b) ==
  /\ \/ browserState'[b] \in {"starting", "running"} /\ hasPid'[b]
     \/ browserState'[b] = "stopped" /\ ~hasPid'[b]
  /\ UNCHANGED signinVars

Waits(b) ==
  /\ browserState'[b] = browserState[b] /\ hasPid'[b] = hasPid[b]
  /\ signinOwner'[b] = signinOwner[b] /\ signinClaim'[b] = signinClaim[b]
  /\ signinLeft'[b] \in {signinLeft[b], Countdown(signinLeft[b])}

\* What one step does to one browser row.
LEMMA BrowserRowStep ==
  ASSUME BrowserTypeOK, [Next]_vars, NEW b \in Browser
  PROVE  \/ LapseOnly(b)
         \/ \E p \in Login : TakenBy(b, p, NoDeadline, NoClaim) /\ BeginSignIn(b, p)
         \/ \E c \in Claim, seconds \in RequestSeconds :
              /\ TakenBy(b, NoLogin, seconds, c)
              /\ claimBrowser[c] = b /\ RequestSignIn(c, seconds)
         \/ /\ GivenBack(b)
            /\ \/ \E p \in Login : EndSignIn(b, p)
               \/ \E c \in Claim : claimBrowser[c] = b /\ FinishSignIn(c)
         \/ Adopted(b) /\ AdoptionStep(b)
         \/ Waits(b)
<1> USE DEF BrowserTypeOK
<1>1. /\ browserState \in [Browser -> BrowserState] /\ hasPid \in [Browser -> BOOLEAN]
      /\ DOMAIN SweptBrowser = Browser
      /\ DOMAIN Cleared(signinLeft, NoDeadline) = Browser
      /\ DOMAIN Cleared(signinClaim, NoClaim) = Browser
  BY DEF SweptBrowser, Cleared
<1>2. LapseSignIns => LapseOnly(b)
  BY DEF LapseSignIns, LapseOnly
<1>3. ASSUME NEW d \in Browser, NEW owner, NEW deadline, NEW claim,
             TakeBrowser(d, owner, deadline, claim)
      PROVE  IF d = b THEN TakenBy(b, owner, deadline, claim) ELSE LapseOnly(b)
  BY <1>3 DEF TakeBrowser, TakenBy, LapseOnly, SweptBrowser, Cleared
<1>4. ASSUME NEW d \in Browser, GiveBrowserBack(d)
      PROVE  IF d = b THEN GivenBack(b) ELSE LapseOnly(b)
  BY <1>4 DEF GiveBrowserBack, GivenBack, LapseOnly, SweptBrowser, Cleared
<1>5. ASSUME NEW d \in Browser, NEW state, NEW pid \in BOOLEAN, SetBrowser(d, state, pid),
             \/ state \in {"starting", "running"} /\ pid
             \/ state = "stopped" /\ ~pid
      PROVE  (d = b /\ Adopted(b)) \/ Waits(b)
  <2>1. CASE d = b
    BY <1>5, <2>1 DEF SetBrowser, Adopted
  <2>2. CASE d # b
    BY <1>5, <2>2 DEF SetBrowser, Waits, signinVars
  <2> QED
    BY <2>1, <2>2
<1>6. ASSUME NEW c \in Claim, CallerStep(c)
      PROVE  \/ LapseOnly(b) \/ Waits(b)
             \/ \E seconds \in RequestSeconds :
                  /\ TakenBy(b, NoLogin, seconds, c)
                  /\ claimBrowser[c] = b /\ RequestSignIn(c, seconds)
             \/ GivenBack(b) /\ claimBrowser[c] = b /\ FinishSignIn(c)
  <2>1. ASSUME NEW d \in Browser, Request(c, d) PROVE LapseOnly(b)
    BY <1>2, <2>1 DEF Request
  <2>2. CASE KeyedCall(c)
    BY <1>2, <2>2 DEF KeyedCall
  <2>3. ASSUME NEW seconds \in RequestSeconds, RequestSignIn(c, seconds)
        PROVE  \/ LapseOnly(b)
               \/ TakenBy(b, NoLogin, seconds, c) /\ claimBrowser[c] = b
    <3>1. claimBrowser[c] \in Browser
      BY <2>3, ArbitrationAssumption DEF RequestSignIn
    <3>2. TakeBrowser(claimBrowser[c], NoLogin, seconds, c)
      BY <2>3 DEF RequestSignIn
    <3> QED
      BY <1>3, <3>1, <3>2
  <2>4. CASE FinishSignIn(c)
    <3>1. claimBrowser[c] \in Browser
      BY <2>4, ArbitrationAssumption DEF FinishSignIn
    <3>2. GiveBrowserBack(claimBrowser[c])
      BY <2>4 DEF FinishSignIn
    <3> QED
      BY <1>4, <2>4, <3>1, <3>2
  <2>5. CASE PageRecorded(c)
    BY <2>5 DEF PageRecorded, browserVars, signinVars, Waits
  <2> QED
    BY <1>6, <2>1, <2>2, <2>3, <2>4, <2>5 DEF CallerStep
<1>7. ASSUME NEW d \in Browser, AdoptionStep(d)
      PROVE  \/ Adopted(b) /\ AdoptionStep(b)
             \/ Waits(b)
  <2>1. CASE AdoptRunning(d) \/ AdoptLaunch(d) \/ Launched(d) \/ LaunchFailed(d)
    <3>1. PICK state \in BrowserState, pid \in BOOLEAN :
            /\ SetBrowser(d, state, pid)
            /\ \/ state \in {"starting", "running"} /\ pid
               \/ state = "stopped" /\ ~pid
      BY <2>1 DEF AdoptRunning, AdoptLaunch, Launched, LaunchFailed, BrowserState
    <3> QED
      BY <1>5, <1>7, <3>1
  <2>2. CASE LauncherDies(d)
    BY <2>2 DEF LauncherDies, browserVars, signinVars, Waits
  <2> QED
    BY <1>7, <2>1, <2>2 DEF AdoptionStep
<1>8. ASSUME NEW d \in Browser, NEW p \in Login, LoginStep(d, p)
      PROVE  \/ LapseOnly(b) \/ Waits(b)
             \/ TakenBy(b, p, NoDeadline, NoClaim) /\ BeginSignIn(b, p)
             \/ GivenBack(b) /\ EndSignIn(b, p)
  <2>1. CASE BeginSignIn(d, p)
    <3>1. TakeBrowser(d, p, NoDeadline, NoClaim)
      BY <2>1 DEF BeginSignIn
    <3> QED
      BY <1>3, <2>1, <3>1
  <2>2. CASE EndSignIn(d, p)
    <3>1. GiveBrowserBack(d)
      BY <2>2 DEF EndSignIn
    <3> QED
      BY <1>4, <2>2, <3>1
  <2>3. CASE LoginExits(d, p)
    BY <2>3 DEF LoginExits, browserVars, signinVars, Waits
  <2> QED
    BY <1>8, <2>1, <2>2, <2>3 DEF LoginStep
<1>9. CASE Tick
  BY <1>9 DEF Tick, Waits
<1>10. CASE UNCHANGED vars
  BY <1>10 DEF vars, browserVars, signinVars, Waits
<1> QED
  BY <1>6, <1>7, <1>8, <1>9, <1>10 DEF Next

\* A sign-in has one holder, and a row fits the checks of its table.
LEMMA BrowserRowsInv ==
  ASSUME BrowserTypeOK, SignInHasOneHolder, ProcessFitsState, [Next]_vars
  PROVE  SignInHasOneHolder' /\ ProcessFitsState'
<1> SUFFICES ASSUME NEW b \in Browser
             PROVE  /\ browserState'[b] = "signing-in" =>
                         \/ /\ signinOwner'[b] # NoLogin
                            /\ signinLeft'[b] = NoDeadline
                            /\ signinClaim'[b] = NoClaim
                         \/ /\ signinOwner'[b] = NoLogin
                            /\ signinLeft'[b] # NoDeadline
                            /\ signinClaim'[b] # NoClaim
                    /\ browserState'[b] = "stopped" => ~hasPid'[b]
                    /\ ~hasPid'[b] => browserState'[b] \in {"stopped", "signing-in"}
  BY DEF SignInHasOneHolder, ProcessFitsState
<1> USE ArbitrationAssumption DEF SignInHasOneHolder, ProcessFitsState
<1>1. CASE LapseOnly(b)
  BY <1>1 DEF LapseOnly, SweptBrowser, Cleared, Serving, BrowserTypeOK
<1>2. ASSUME NEW p \in Login, TakenBy(b, p, NoDeadline, NoClaim)
      PROVE  browserState'[b] = "signing-in" /\ signinOwner'[b] # NoLogin
             /\ signinLeft'[b] = NoDeadline /\ signinClaim'[b] = NoClaim
  BY <1>2 DEF TakenBy
<1>3. ASSUME NEW c \in Claim, NEW seconds \in RequestSeconds,
             TakenBy(b, NoLogin, seconds, c)
      PROVE  browserState'[b] = "signing-in" /\ signinOwner'[b] = NoLogin
             /\ signinLeft'[b] # NoDeadline /\ signinClaim'[b] # NoClaim
  BY <1>3 DEF TakenBy, NoDeadline, RequestSeconds
<1>4. CASE GivenBack(b)
  BY <1>4 DEF GivenBack, Serving
<1>5. CASE Adopted(b)
  BY <1>5 DEF Adopted
<1>6. CASE Waits(b)
  <2>1. signinLeft'[b] = NoDeadline <=> signinLeft[b] = NoDeadline
    <3>1. signinLeft[b] \in (0 .. SignInSeconds) \cup {NoDeadline}
      BY DEF BrowserTypeOK
    <3> QED
      BY <1>6, <3>1 DEF Waits, Countdown, NoDeadline
  <2> QED
    BY <1>6, <2>1 DEF Waits
<1> QED
  BY <1>1, <1>2, <1>3, <1>4, <1>5, <1>6, BrowserRowStep

\* A login process that has exited holds nothing, and begins nothing.
LEMMA HoldersAliveStep ==
  ASSUME BrowserTypeOK, HoldersAlive, [Next]_vars
  PROVE  HoldersAlive'
<1>1. CASE UNCHANGED <<holding, exited>>
  BY <1>1 DEF HoldersAlive
<1>2. ASSUME NEW b \in Browser, NEW p \in Login, LoginStep(b, p) PROVE HoldersAlive'
  <2>1. holding \in [Browser -> SUBSET Login]
    BY DEF BrowserTypeOK
  <2>2. CASE BeginSignIn(b, p)
    BY <2>1, <2>2 DEF BeginSignIn, HoldersAlive
  <2>3. CASE EndSignIn(b, p)
    BY <2>1, <2>3 DEF EndSignIn, HoldersAlive
  <2>4. CASE LoginExits(b, p)
    BY <2>1, <2>4 DEF LoginExits, HoldersAlive
  <2> QED
    BY <1>2, <2>2, <2>3, <2>4 DEF LoginStep
<1> QED
  BY <1>1, <1>2
  DEF Next, CallerStep, Request, KeyedCall, RequestSignIn, FinishSignIn, PageRecorded,
      AdoptionStep, AdoptRunning, AdoptLaunch, Launched, LaunchFailed, LauncherDies,
      SetBrowser, Tick, vars, processVars

-----------------------------------------------------------------------------
(* The theorems about sign-ins.                                            *)

\* The rows of every reachable state satisfy the inductive invariant.
THEOREM ArbitrationInvariance == Spec => []AInv
<1>1. Init => AInv
  <2> SUFFICES ASSUME Init PROVE AInv
    OBVIOUS
  <2>1. LeaseRows
    BY DEF Init, Lease!Init, LeaseRows, Lease!ClaimState, Lease!TabState
  <2>2. BrowserTypeOK
    BY ArbitrationAssumption DEF Init, BrowserTypeOK, BrowserState
  <2>3. SignInHasOneHolder /\ ProcessFitsState /\ HoldersAlive
    BY DEF Init, SignInHasOneHolder, ProcessFitsState, HoldersAlive
  <2> QED
    BY <2>1, <2>2, <2>3 DEF AInv
<1>2. AInv /\ [Next]_vars => AInv'
  <2> SUFFICES ASSUME AInv, [Next]_vars PROVE AInv'
    OBVIOUS
  <2>1. LeaseRows'
    BY StepIsALeaseStep, LeaseRowsStep DEF AInv
  <2>2. BrowserTypeOK'
    BY BrowserTypeStep DEF AInv
  <2>3. SignInHasOneHolder' /\ ProcessFitsState'
    BY BrowserRowsInv DEF AInv
  <2>4. HoldersAlive'
    BY HoldersAliveStep DEF AInv
  <2> QED
    BY <2>1, <2>2, <2>3, <2>4 DEF AInv
<1> QED
  BY <1>1, <1>2, PTL DEF Spec

\* A sign-in is held by a process without a deadline, or by the lease that
\* asked for it with one, whatever adoption overwrote in between.
THEOREM OneHolder == Spec => []SignInHasOneHolder
<1>1. AInv => SignInHasOneHolder
  BY DEF AInv
<1> QED
  BY <1>1, ArbitrationInvariance, PTL

\* No write of a sign-in, a lapse or an adoption breaks the checks of the
\* browsers table.
THEOREM RowChecksHold == Spec => []ProcessFitsState
<1>1. AInv => ProcessFitsState
  BY DEF AInv
<1> QED
  BY <1>1, ArbitrationInvariance, PTL

\* No call, no other login and no clock touches the row of a browser that a person
\* whose own process still stands at the window holds: only a login process that
\* ends a sign-in on it, or adoption, which leaves the sign-in columns.
THEOREM PersonKeeps == Spec => PersonKeepsSignIn
<1>1. AInv /\ [Next]_vars =>
        \A b \in Browser :
          /\ browserState[b] = "signing-in"
          /\ signinOwner[b] \in holding[b]
          => \/ SignInColumns(b)' = SignInColumns(b)
             \/ \E p \in Login : EndSignIn(b, p)
             \/ AdoptionStep(b) /\ UNCHANGED signinVars
  <2> SUFFICES ASSUME AInv, [Next]_vars, NEW b \in Browser,
                      browserState[b] = "signing-in", signinOwner[b] \in holding[b]
               PROVE  \/ SignInColumns(b)' = SignInColumns(b)
                      \/ \E p \in Login : EndSignIn(b, p)
                      \/ AdoptionStep(b) /\ UNCHANGED signinVars
    OBVIOUS
  <2>1. /\ signinOwner[b] \in Login /\ signinOwner[b] # NoLogin
        /\ signinOwner[b] \notin exited
    BY ArbitrationAssumption DEF AInv, BrowserTypeOK, HoldersAlive
  <2>2. signinLeft[b] = NoDeadline /\ signinClaim[b] = NoClaim
    BY <2>1 DEF AInv, SignInHasOneHolder
  <2>3. SweptBrowser[b] = "signing-in" /\ ~SignInLapsed(b)
    BY <2>2 DEF SweptBrowser, SignInLapsed, NoDeadline
  <2>4. ASSUME NEW p \in Login, BeginSignIn(b, p) PROVE FALSE
    BY <2>1, <2>3, <2>4 DEF BeginSignIn, OwnerGone
  <2>5. ASSUME NEW c \in Claim, NEW seconds \in RequestSeconds,
               claimBrowser[c] = b, RequestSignIn(c, seconds)
        PROVE  FALSE
    BY <2>3, <2>5 DEF RequestSignIn
  <2>6. ASSUME NEW c \in Claim, claimBrowser[c] = b, FinishSignIn(c) PROVE FALSE
    BY <2>2, <2>6, ArbitrationAssumption DEF FinishSignIn, MayFinish
  <2>7. CASE LapseOnly(b)
    BY <2>3, <2>7 DEF LapseOnly, SignInColumns, Cleared
  <2>8. CASE Waits(b)
    BY <2>2, <2>8 DEF Waits, SignInColumns, Countdown, NoDeadline
  <2>9. CASE Adopted(b) /\ AdoptionStep(b)
    BY <2>9 DEF Adopted
  <2> QED
    BY <2>4, <2>5, <2>6, <2>7, <2>8, <2>9, BrowserRowStep DEF AInv
<1> QED
  BY <1>1, ArbitrationInvariance, PTL DEF Spec, PersonKeepsSignIn

\* No sign-in starts underneath a caller's pages: an active lease has a live tab
\* row, so both ways of taking a browser find it.
THEOREM SignInsStartAlone == Spec => SignInStartsAlone
<1>1. AInv /\ [Next]_vars =>
        \A b \in Browser :
          /\ browserState'[b] = "signing-in"
          /\ \/ browserState[b] # "signing-in"
             \/ signinOwner'[b] # signinOwner[b]
             \/ signinClaim'[b] # signinClaim[b]
          => \A c \in Claim :
               claimState'[c] = "active" /\ claimBrowser[c] = b
                 => c = signinClaim'[b]
  <2> SUFFICES ASSUME AInv, [Next]_vars, NEW b \in Browser,
                      browserState'[b] = "signing-in",
                      \/ browserState[b] # "signing-in"
                      \/ signinOwner'[b] # signinOwner[b]
                      \/ signinClaim'[b] # signinClaim[b],
                      NEW c \in Claim, claimState'[c] = "active", claimBrowser[c] = b
               PROVE  c = signinClaim'[b]
    OBVIOUS
  <2>1. LeaseRows
    BY DEF AInv
  <2>2. ASSUME claimState' = Lease!Swept PROVE c \in Holders(b)
    <3>1. Lease!Swept[c] = "active"
      BY <2>2
    <3>2. Lease!SweptTabs[c] = tabState[c] /\ claimState[c] = "active"
      BY <2>1, <3>1, SweptRows DEF Lease!LiveClaim
    <3>3. \E n \in Lease!TabNo : Lease!SweptTabs[c][n] \in Lease!LiveTab
      BY <2>1, <3>2 DEF LeaseRows
    <3> QED
      BY <3>1, <3>3 DEF Holders
  <2>3. ASSUME NEW p \in Login, BeginSignIn(b, p) PROVE FALSE
    BY <2>2, <2>3 DEF BeginSignIn, SweepLeases
  <2>4. ASSUME NEW d \in Claim, NEW seconds \in RequestSeconds,
               claimBrowser[d] = b, RequestSignIn(d, seconds),
               TakenBy(b, NoLogin, seconds, d)
        PROVE  c = signinClaim'[b]
    <3>1. claimState' = Lease!Swept /\ Holders(b) \subseteq {d}
      BY <2>4 DEF RequestSignIn, NobodyElseHolds, Lease!Status
    <3> QED
      BY <2>2, <2>4, <3>1 DEF TakenBy
  <2>5. CASE LapseOnly(b)
    BY <2>5 DEF LapseOnly, SweptBrowser, SignInLapsed, Serving, Cleared, AInv, BrowserTypeOK
  <2>6. CASE GivenBack(b)
    BY <2>6 DEF GivenBack, Serving
  <2>7. CASE Adopted(b)
    BY <2>7 DEF Adopted
  <2>8. CASE Waits(b)
    BY <2>8 DEF Waits
  <2> QED
    BY <2>3, <2>4, <2>5, <2>6, <2>7, <2>8, BrowserRowStep DEF AInv
<1> QED
  BY <1>1, ArbitrationInvariance, PTL DEF Spec, SignInStartsAlone

\* The clocks of the leases count down to 0.
LeaseClocks == left \in [Claim -> Nat] /\ ttl \in [Claim -> Nat]

LEMMA LeaseClocksInv == Spec => []LeaseClocks
<1>1. Init => LeaseClocks
  BY DEF Init, Lease!Init, LeaseClocks
<1>2. LeaseRows /\ LeaseClocks /\ [Next]_vars => LeaseClocks'
  <2> SUFFICES ASSUME LeaseRows, LeaseClocks, [Lease!Next]_leaseVars PROVE LeaseClocks'
    BY StepIsALeaseStep
  <2> USE ArbitrationAssumption DEF LeaseClocks
  <2>1. ASSUME NEW c \in Claim, Lease!Request(c) PROVE LeaseClocks'
    BY <2>1 DEF Lease!Request
  <2>2. ASSUME NEW c \in Claim,
               Lease!Status(c) \/ \E n \in Lease!TabNo : Lease!TabReplace(c, n)
        PROVE  LeaseClocks'
    BY <2>2 DEF Lease!Status, Lease!TabReplace, Lease!Extend
  <2>3. ASSUME NEW c \in Claim, Lease!Release(c) PROVE LeaseClocks'
    BY <2>3 DEF Lease!Release, Lease!PromotedTtl
  <2>4. CASE Lease!Tick
    BY <2>4 DEF Lease!Tick, Lease!Countdown
  <2>5. CASE UNCHANGED <<left, ttl>>
    BY <2>5
  <2> QED
    BY <2>1, <2>2, <2>3, <2>4, <2>5
    DEF Lease!Next, Lease!KeyedCall, Lease!PageCall, Lease!PageRecorded, Lease!PageOpened,
        Lease!PageClosed, Lease!ReleaseEnded, leaseVars
<1> QED
  BY <1>1, <1>2, LeaseRowsInv, PTL DEF Spec

\* Whatever call changes a lease has ended the requests nobody answered: every
\* transaction that writes a claim lapses them, or hands the browser on.
THEOREM UnansweredLapse == Spec => UnansweredRequestLapses
<1>1. AInv /\ LeaseClocks /\ [Next]_vars =>
        \A b \in Browser :
          /\ SignInLapsed(b)
          /\ \E c \in Claim : claimState'[c] # claimState[c] \/ left'[c] > left[c]
          => \/ signinLeft'[b] # 0
             \/ \E c \in Claim : claimBrowser[c] = b /\ RequestSignIn(c, 0)
  <2> SUFFICES ASSUME AInv, LeaseClocks, [Next]_vars, NEW b \in Browser, SignInLapsed(b),
                      NEW d \in Claim, claimState'[d] # claimState[d] \/ left'[d] > left[d],
                      \A c \in Claim : ~(claimBrowser[c] = b /\ RequestSignIn(c, 0))
               PROVE  signinLeft'[b] # 0
    OBVIOUS
  <2>1. /\ Cleared(signinLeft, NoDeadline)[b] = NoDeadline /\ NoDeadline # 0
        /\ Cleared(signinLeft, NoDeadline) \in [Browser -> (0 .. SignInSeconds) \cup {NoDeadline}]
    BY DEF Cleared, NoDeadline, AInv, BrowserTypeOK
  <2>2. CASE LapseSignIns
    BY <2>1, <2>2 DEF LapseSignIns
  <2>3. ASSUME NEW a \in Browser, GiveBrowserBack(a) PROVE signinLeft'[b] # 0
    BY <2>1, <2>3 DEF GiveBrowserBack
  <2>4. ASSUME NEW a \in Browser, NEW owner, NEW seconds, NEW claim, seconds # 0 \/ a # b,
               TakeBrowser(a, owner, seconds, claim)
        PROVE  signinLeft'[b] # 0
    BY <2>1, <2>4 DEF TakeBrowser
  <2>5. ASSUME NEW c \in Claim, NEW seconds \in RequestSeconds, RequestSignIn(c, seconds)
        PROVE  signinLeft'[b] # 0
    <3>1. /\ claimBrowser[c] \in Browser
          /\ TakeBrowser(claimBrowser[c], NoLogin, seconds, c)
      BY <2>5, ArbitrationAssumption DEF RequestSignIn
    <3>2. seconds # 0 \/ claimBrowser[c] # b
      BY <2>5
    <3> QED
      BY <2>4, <3>1, <3>2
  <2>6. ASSUME NEW c \in Claim, FinishSignIn(c) PROVE signinLeft'[b] # 0
    <3>1. claimBrowser[c] \in Browser /\ GiveBrowserBack(claimBrowser[c])
      BY <2>6, ArbitrationAssumption DEF FinishSignIn
    <3> QED
      BY <2>3, <3>1
  <2>7. ASSUME NEW a \in Browser, NEW p \in Login, BeginSignIn(a, p) \/ EndSignIn(a, p)
        PROVE  signinLeft'[b] # 0
    BY <2>1, <2>3, <2>4, <2>7 DEF BeginSignIn, EndSignIn
  <2>8. ~(claimState' = claimState /\ left' = left)
    BY DEF LeaseClocks
  <2>9. ~Tick
    BY DEF Tick, Lease!Tick, Lease!Countdown, LeaseClocks
  <2>10. ~ \E c \in Claim : PageRecorded(c)
    BY <2>8 DEF PageRecorded, Lease!PageRecorded, Lease!PageOpened, Lease!PageClosed
  <2>11. ~ \E a \in Browser : AdoptionStep(a) \/ \E p \in Login : LoginExits(a, p)
    BY <2>8 DEF AdoptionStep, AdoptRunning, AdoptLaunch, Launched, LaunchFailed, LauncherDies,
                SetBrowser, LoginExits, leaseVars
  <2>12. ~ UNCHANGED vars
    BY <2>8 DEF vars, leaseVars
  <2> QED
    BY <2>2, <2>5, <2>6, <2>7, <2>9, <2>10, <2>11, <2>12
    DEF Next, CallerStep, LoginStep, Request, KeyedCall
<1> QED
  BY <1>1, ArbitrationInvariance, LeaseClocksInv, PTL DEF Spec, UnansweredRequestLapses
=============================================================================
