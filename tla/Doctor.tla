------------------------------- MODULE Doctor -------------------------------
(***************************************************************************)
(* `broker doctor`: what it concludes about an installation without        *)
(* changing it, and the exit code it ends with (doctor/).                  *)
(*                                                                         *)
(* A check answers "ok", "failed" or "unknown".  What is not read from the *)
(* store or the environment comes in a record of observations of the       *)
(* machine; Null is an observation nobody made.                            *)
(***************************************************************************)
EXTENDS Schema, FiniteSetsExt

DoctorExit == [ok |-> 0, store |-> 10, automation |-> 11, roots |-> 12,
               browsers |-> 13, capture |-> 14, keeper |-> 15, budget |-> 16,
               session |-> 17]

Check(group, status) == [group |-> group, status |-> status]
Judge(group, fine) == Check(group, IF fine THEN "ok" ELSE "failed")

-----------------------------------------------------------------------------
(* The store.                                                              *)

CheckStoreLocation(elsewhere) == Judge("store", ~elsewhere)

CheckStorePresent(file) ==
  IF file = Null THEN Check("store", "unknown") ELSE Judge("store", file.readWrite)

VersionIsEnough(found, expected) == found >= expected

VersionIsExpected(found, expected) == found = expected

CheckSchemaVersion(found, expected) ==
  IF found = Null THEN Check("store", "unknown")
  ELSE Judge("store", VersionIsExpected(found, expected))

CheckTabBudget(stored, configured) ==
  IF stored = Null \/ configured = Null THEN Check("budget", "unknown")
  ELSE Judge("budget", stored = configured)

\* Tabs closing for longer than a lease may go without contact: a fault when a
\* close was tried and failed, otherwise only records nobody has settled.
CheckStrandedTabs(stranded) ==
  IF stranded = {} THEN Check("store", "ok")
  ELSE Check("store", IF \E tab \in stranded : tab.closeFailed THEN "failed" ELSE "unknown")

-----------------------------------------------------------------------------
(* The machine and the browsers.                                           *)

CheckAutomation(present) ==
  IF present = Null THEN Check("automation", "unknown") ELSE Judge("automation", present)

CheckRootWritable(root) ==
  IF root = Null THEN Check("roots", "unknown") ELSE Judge("roots", root.writable)

\* An endpoint that answers counts only if it can be shown to be the browser
\* that was recorded.
CheckDiscoveryRecord(probe) ==
  IF probe = Null \/ ~probe.recorded \/ probe.answered = Null
  THEN Check("browsers", "unknown")
  ELSE Judge("browsers", /\ probe.answered
                         /\ Null \notin {probe.reported, probe.expected}
                         /\ probe.reported = probe.expected)

CheckCaptureSurface(configured) ==
  Check("capture", IF configured = Null THEN "unknown" ELSE "ok")

CheckKeeperTab(present) ==
  IF present = Null THEN Check("keeper", "unknown") ELSE Judge("keeper", present)

BrowserIsRunning(probe) ==
  IF probe = Null THEN Null ELSE IF probe.recorded THEN probe.answered ELSE FALSE

\* No cookies in a browser that may be running may only mean that none were
\* written down yet.
SessionEvidence(profile, running) ==
  CASE profile = Null -> "no-profile"
    [] profile # Null /\ profile.cookies = Null -> "undetermined"
    [] profile # Null /\ profile.cookies # Null /\ profile.cookies > 0 -> "session-present"
    [] OTHER -> IF running = FALSE THEN "no-session-found" ELSE "undetermined"

CheckSignInSession(profile, running) ==
  Check("session", IF SessionEvidence(profile, running) = "session-present"
                   THEN "ok" ELSE "unknown")

\* classifySignIn, of the row's state, its owner's process and whether that
\* runs.  No store, and one from before the owner column, answer as though
\* nobody were signing in.
SignInOwner(found, row) ==
  IF found = Null THEN "not-signing-in"
  ELSE IF found < 8 \/ row.state # "signing-in" THEN "not-signing-in"
  ELSE IF row.owner = Null THEN "owner-unknown"
  ELSE IF row.ownerRuns THEN "owner-running" ELSE "owner-gone"

CheckAbandonedSignIn(owner) ==
  IF owner = "owner-unknown" THEN Check("session", "unknown")
  ELSE Judge("session", owner # "owner-gone")

-----------------------------------------------------------------------------
(* The report.                                                             *)

\* The tab budget is read before any check is made, from a table that is there
\* from version two on: below it the command ends in an error, not a report.
Answers(found) == found = Null \/ found >= 2

\* What the store itself and the settings say comes in as `elsewhere`, `found`
\* and `stored`; the rest is observed.
Checks(elsewhere, found, expected, stored, configured, m) ==
  {CheckStoreLocation(elsewhere), CheckStorePresent(m.file),
   CheckSchemaVersion(found, expected), CheckTabBudget(stored, configured),
   CheckStrandedTabs(IF found = Null THEN {} ELSE m.stranded),
   CheckAutomation(m.automation), CheckRootWritable(m.artifacts),
   CheckRootWritable(m.profiles), CheckDiscoveryRecord(m.discovery),
   CheckCaptureSurface(Null), CheckKeeperTab(m.keeper),
   CheckSignInSession(m.profile, BrowserIsRunning(m.discovery)),
   CheckAbandonedSignIn(SignInOwner(found, m.signIn))}

\* The lowest code of a check that failed.
ExitCode(checks) ==
  LET failed == {DoctorExit[c.group] : c \in {c \in checks : c.status = "failed"}}
  IN IF failed = {} THEN DoctorExit.ok ELSE Min(failed)
=============================================================================
