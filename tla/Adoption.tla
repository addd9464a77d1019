------------------------------ MODULE Adoption ------------------------------
(***************************************************************************)
(* How processes share one browser they do not own: observe whether one    *)
(* runs, decide under the store's lock what to do, then attach, wait or    *)
(* launch, and record the outcome (service/browser-session.ts,             *)
(* browser/adoption.ts, browser/launch.ts).  `broker login` starts a       *)
(* browser beside that race (cli/login-command.ts).                        *)
(*                                                                         *)
(* One browser of the service: its row in `browsers`, its profile          *)
(* directory, and the operating system processes started against it.       *)
(***************************************************************************)
EXTENDS Integers, FiniteSets

CONSTANTS
  Proc,         \* processes that serve callers
  Login,        \* `broker login` processes, each run once
  Instance,     \* browser processes ever spawned (bound); an instance is known
                \*   by one name, its pid and the identifier it mints for itself
  None          \* null

VARIABLES
  rowState, rowPid, rowUuid,   \* browsers.state, .pid, .browser_uuid
  portFile,     \* whose record the profile directory holds
  life,         \* life[i]: what became of browser process i
  at,           \* at[p]: the next thing process p does
  seen,         \* seen[p]: the verified record p carries
  before,       \* before[p]: the record in the profile when p's launch began
  spawned,      \* spawned[p]: the browser process p's launch started
  memo,         \* memo[p]: the browser p's settled session is connected to
  connected,    \* connected[p]: what that session's isConnected() answers
  unrecorded    \* launchers whose outcome will never be written: killed, or
                \*   refused by the store when they wrote it

ASSUME AdoptionAssumption ==
  /\ None \notin Proc \cup Login \cup Instance
  /\ (Proc \cup Login) \cap Instance = {}
  /\ Proc \cap Login = {}

Process == Proc \cup Login
MaybeInstance == Instance \cup {None}

row  == <<rowState, rowPid, rowUuid>>
hand == <<seen, before, spawned>>
session == <<memo, connected>>
vars == <<row, portFile, life, at, hand, session, unrecorded>>

RowState == {"stopped", "starting", "running", "signing-in"}

\* unborn, starting, then either serving its endpoint, or standing by because
\* the profile is taken; closed ends one that served, ended one that never did.
Life == {"unborn", "starting", "serving", "standby", "closed", "ended"}

\* A launch under way, from the decision to the write that records it.
Launching == {"launch", "spawned", "connect", "record", "failed"}
Place == Launching \cup
  {"idle", "observed", "attach", "wait", "probed", "prepared", "look", "watch", "end",
   "dead"}

-----------------------------------------------------------------------------
(* The profile directory and the browser processes.                        *)

\* verifyDiscoveryRecord: the endpoint answers and identifies itself as the
\* browser the record describes.  A port something else reuses is no answer.
Answering(i) ==
  IF i # None /\ life[i] = "serving" THEN i ELSE None

\* browserIsRunning: the record in the profile, once verified.
Running == Answering(portFile)

\* What becomes of a process that is signalled.
Killed(i) ==
  [life EXCEPT ![i] = CASE @ = "serving" -> "closed"
                        [] @ \in {"starting", "standby"} -> "ended"
                        [] OTHER -> @]

-----------------------------------------------------------------------------
(* acquire: observation, then decision, then deed.                         *)

\* The session is dropped, and the connection with it.
Forget(p) ==
  /\ memo' = [memo EXCEPT ![p] = None]
  /\ connected' = [connected EXCEPT ![p] = FALSE]

\* The call is over, and what it carried with it.
EmptyHand(p) ==
  /\ seen' = [seen EXCEPT ![p] = None]
  /\ before' = [before EXCEPT ![p] = None]
  /\ spawned' = [spawned EXCEPT ![p] = None]

AcquireOnce(p) ==
  /\ at[p] = "idle"
  /\ memo[p] = None
  /\ seen' = [seen EXCEPT ![p] = Running]
  /\ at' = [at EXCEPT ![p] = "observed"]
  /\ UNCHANGED <<row, portFile, life, before, spawned, session, unrecorded>>

\* A settled session is handed back while its connection lives; without one,
\* or with a dead one, which is dropped first, the browser is acquired anew.
Acquire(p) ==
  /\ at[p] = "idle"
  /\ memo[p] = None \/ ~connected[p]
  /\ Forget(p)
  /\ seen' = [seen EXCEPT ![p] = Running]
  /\ at' = [at EXCEPT ![p] = "observed"]
  /\ UNCHANGED <<row, portFile, life, before, spawned, unrecorded>>

RecordRunning(p) ==
  /\ rowState' = "running"
  /\ rowPid' = IF rowPid = None THEN p ELSE rowPid
  /\ rowUuid' = seen[p]

RecordStarting(p) ==
  /\ rowState' = "starting"
  /\ rowPid' = p
  /\ rowUuid' = None

\* decideAdoption, one transaction.
Decide(p) ==
  /\ at[p] = "observed"
  /\ \/ /\ seen[p] # None
        /\ RecordRunning(p)
        /\ at' = [at EXCEPT ![p] = "attach"]
     \/ /\ seen[p] = None
        /\ rowState = "starting"
        /\ at' = [at EXCEPT ![p] = "wait"]
        /\ UNCHANGED row
     \/ /\ seen[p] = None
        /\ rowState # "starting"
        /\ RecordStarting(p)
        /\ at' = [at EXCEPT ![p] = "launch"]
  /\ UNCHANGED <<portFile, life, hand, session, unrecorded>>

\* driver.attach verifies the record once more and connects, or refuses; a
\* refused acquisition is not memoised.
Attach(p) ==
  /\ at[p] = "attach"
  /\ at' = [at EXCEPT ![p] = "idle"]
  /\ \/ /\ Answering(seen[p]) # None
        /\ memo' = [memo EXCEPT ![p] = seen[p]]
        /\ connected' = [connected EXCEPT ![p] = TRUE]
     \/ /\ Answering(seen[p]) = None
        /\ UNCHANGED session
  /\ EmptyHand(p)
  /\ UNCHANGED <<row, portFile, life, unrecorded>>

\* waitForWinner: poll until a browser answers, or stop waiting.  It launches
\* nothing and writes nothing.
Wait(p) ==
  /\ at[p] = "wait"
  /\ \/ /\ Running # None
        /\ seen' = [seen EXCEPT ![p] = Running]
        /\ at' = [at EXCEPT ![p] = "attach"]
     \/ /\ Running = None
        /\ at' = [at EXCEPT ![p] = "idle"]
        /\ UNCHANGED seen
  /\ UNCHANGED <<row, portFile, life, before, spawned, session, unrecorded>>

-----------------------------------------------------------------------------
(* coldStart: start a browser nothing owns, and assert that it came up.    *)

\* The record of an earlier browser is remembered, never deleted.
Spawn(p) ==
  /\ at[p] = "launch"
  /\ \E i \in Instance :
       /\ life[i] = "unborn"
       /\ life' = [life EXCEPT ![i] = "starting"]
       /\ spawned' = [spawned EXCEPT ![p] = i]
  /\ before' = [before EXCEPT ![p] = portFile]
  /\ at' = [at EXCEPT ![p] = "spawned"]
  /\ UNCHANGED <<row, portFile, seen, session, unrecorded>>

\* The profile was last opened by another binary, or no binary is there.
SpawnFails(p) ==
  /\ at[p] = "launch"
  /\ at' = [at EXCEPT ![p] = "failed"]
  /\ UNCHANGED <<row, portFile, life, hand, session, unrecorded>>

EndTheHolder(p) == Killed(Running)

\* Who is ended when the profile turns out to be taken: the process this
\* launch started, and never the browser that answered.
EndTheLoser(p) == Killed(spawned[p])

\* The readiness loop finds a record that verifies.  If it is the one that was
\* there before, the profile was taken all along.
Ready(p) ==
  /\ at[p] = "spawned"
  /\ Running # None
  /\ \/ /\ Running = before[p]
        /\ life' = EndTheLoser(p)
        /\ at' = [at EXCEPT ![p] = "failed"]
        /\ EmptyHand(p)
     \/ /\ Running # before[p]
        /\ seen' = [seen EXCEPT ![p] = Running]
        /\ at' = [at EXCEPT ![p] = "connect"]
        /\ UNCHANGED <<life, before, spawned>>
  /\ UNCHANGED <<row, portFile, session, unrecorded>>

\* The deadline passes, or the spawn is reported to have failed: the process
\* is ended, whatever it has become since the loop last looked.
NotReady(p) ==
  /\ at[p] = "spawned"
  /\ life' = Killed(spawned[p])
  /\ at' = [at EXCEPT ![p] = "failed"]
  /\ EmptyHand(p)
  /\ UNCHANGED <<row, portFile, session, unrecorded>>

\* coldStart ends by connecting to what answered, which may be gone by now.
\* `broker login` detaches again and only watches the window.
Connect(p) ==
  /\ at[p] = "connect"
  /\ \/ /\ Answering(seen[p]) # None
        /\ p \in Proc
        /\ at' = [at EXCEPT ![p] = "record"]
        /\ UNCHANGED hand
     \/ /\ Answering(seen[p]) # None
        /\ p \in Login
        /\ at' = [at EXCEPT ![p] = "watch"]
        /\ EmptyHand(p)
     \/ /\ Answering(seen[p]) = None
        /\ at' = [at EXCEPT ![p] = "failed"]
        /\ EmptyHand(p)
  /\ UNCHANGED <<row, portFile, life, session, unrecorded>>

\* recordLaunched, and the session is the caller's; a write the store refuses
\* is one more failure of the launch.
RecordLaunched(p) ==
  /\ at[p] = "record"
  /\ \/ /\ rowState' = "running"
        /\ rowPid' = spawned[p]
        /\ rowUuid' = seen[p]
        /\ memo' = [memo EXCEPT ![p] = seen[p]]
        /\ connected' = [connected EXCEPT ![p] = TRUE]
        /\ at' = [at EXCEPT ![p] = "idle"]
     \/ /\ at' = [at EXCEPT ![p] = "failed"]
        /\ UNCHANGED <<row, session>>
  /\ EmptyHand(p)
  /\ UNCHANGED <<portFile, life, unrecorded>>

RecordNothing ==
  UNCHANGED row

RecordStopped ==
  /\ rowState' = "stopped"
  /\ rowPid' = None
  /\ rowUuid' = None

\* recordLaunchFailed gives the race back; the store may refuse that too.
RecordLaunchFailed(p) ==
  /\ at[p] = "failed"
  /\ p \in Proc
  /\ \/ RecordStopped /\ UNCHANGED unrecorded
     \/ unrecorded' = unrecorded \cup {p} /\ UNCHANGED row
  /\ at' = [at EXCEPT ![p] = "idle"]
  /\ UNCHANGED <<portFile, life, hand, session>>

-----------------------------------------------------------------------------
(* The liveness probe of `status`: a look at the browser, then at the row. *)

Probe(p) ==
  /\ at[p] = "idle"
  /\ seen' = [seen EXCEPT ![p] = Running]
  /\ at' = [at EXCEPT ![p] = "probed"]
  /\ UNCHANGED <<row, portFile, life, before, spawned, session, unrecorded>>

\* What is reported: the browser is gone if the store has it running and
\* nothing answered.
Verdict(p) ==
  CASE seen[p] # None -> "live"
    [] seen[p] = None /\ rowState = "running" -> "gone"
    [] OTHER -> "unknown"

\* Nothing answered: the session is forgotten.
ProbeAnswers(p) ==
  /\ at[p] = "probed"
  /\ IF Verdict(p) = "live" THEN UNCHANGED session ELSE Forget(p)
  /\ EmptyHand(p)
  /\ at' = [at EXCEPT ![p] = "idle"]
  /\ UNCHANGED <<row, portFile, life, unrecorded>>

-----------------------------------------------------------------------------
(* `broker login`: hold the browser, start it if need be, watch it close.  *)

\* runSetupHandshake creates what profiles are missing, and deletes nothing.
LoginPrepares(l) ==
  /\ at[l] = "idle"
  /\ at' = [at EXCEPT ![l] = "prepared"]
  /\ UNCHANGED <<row, portFile, life, hand, session, unrecorded>>

\* It refuses if it cannot write there, or if the profile of any configured
\* browser looks locked: on some platforms one that runs does, or one that
\* crashed, and on others none ever does.
LoginRefused(l) ==
  /\ at[l] = "idle"
  /\ at' = [at EXCEPT ![l] = "dead"]
  /\ UNCHANGED <<row, portFile, life, hand, session, unrecorded>>

\* begin_sign_in.  Whether a sign-in in progress may be taken over, and that
\* nobody holds a tab, is the matter of Arbitration.
LoginBegins(l) ==
  /\ at[l] = "prepared"
  /\ rowState # "signing-in"
  /\ rowState' = "signing-in"
  /\ at' = [at EXCEPT ![l] = "look"]
  /\ UNCHANGED <<rowPid, rowUuid, portFile, life, hand, session, unrecorded>>

\* A running browser is handed over as it is; without one the command starts
\* one itself, outside the launch race.
LoginOpens(l) ==
  /\ at[l] = "look"
  /\ at' = [at EXCEPT ![l] = IF Running # None THEN "watch" ELSE "launch"]
  /\ UNCHANGED <<row, portFile, life, hand, session, unrecorded>>

\* The window could not be opened, or the person closed it.
LoginCloses(l) ==
  /\ \/ at[l] = "failed"
     \/ at[l] = "watch" /\ Running = None
  /\ at' = [at EXCEPT ![l] = "end"]
  /\ UNCHANGED <<row, portFile, life, hand, session, unrecorded>>

\* end_sign_in, which is refused when the row no longer says signing-in.
LoginEnds(l) ==
  /\ at[l] = "end"
  /\ rowState' = CASE rowState # "signing-in" -> rowState
                   [] rowPid = None -> "stopped"
                   [] OTHER -> "running"
  /\ at' = [at EXCEPT ![l] = "dead"]
  /\ UNCHANGED <<rowPid, rowUuid, portFile, life, hand, session, unrecorded>>

-----------------------------------------------------------------------------
(* Browsers, connections and deaths.                                       *)

\* A browser takes the profile, and writes where it can be reached; one that
\* finds it taken hands its address over and stands by.
Serve(i) ==
  /\ life[i] = "starting"
  /\ \/ /\ \A j \in Instance : life[j] # "serving"
        /\ life' = [life EXCEPT ![i] = "serving"]
        /\ portFile' = i
     \/ /\ \E j \in Instance : life[j] = "serving"
        /\ life' = [life EXCEPT ![i] = "standby"]
        /\ UNCHANGED portFile
  /\ UNCHANGED <<row, at, hand, session, unrecorded>>

\* A person closes it, or it crashes.  The record in the profile survives it.
Quit(i) ==
  /\ life[i] = "serving"
  /\ life' = [life EXCEPT ![i] = "closed"]
  /\ UNCHANGED <<row, portFile, at, hand, session, unrecorded>>

\* A connection ends with its browser, or alone.
Disconnect(p) ==
  /\ memo[p] # None /\ connected[p]
  /\ connected' = [connected EXCEPT ![p] = FALSE]
  /\ UNCHANGED <<row, portFile, life, at, seen, before, spawned, memo, unrecorded>>

\* A process is killed; what it spawned lives on.
Die(p) ==
  /\ at[p] # "dead"
  /\ at' = [at EXCEPT ![p] = "dead"]
  /\ EmptyHand(p)
  /\ Forget(p)
  /\ unrecorded' = IF at[p] \in Launching THEN unrecorded \cup {p} ELSE unrecorded
  /\ UNCHANGED <<row, portFile, life>>

Init ==
  /\ rowState = "stopped" /\ rowPid = None /\ rowUuid = None
  /\ portFile = None
  /\ life = [i \in Instance |-> "unborn"]
  /\ at = [p \in Process |-> "idle"]
  /\ seen = [p \in Process |-> None]
  /\ before = [p \in Process |-> None]
  /\ spawned = [p \in Process |-> None]
  /\ memo = [p \in Process |-> None]
  /\ connected = [p \in Process |-> FALSE]
  /\ unrecorded = {}

\* What a process does next with the call it has in hand.
Continue(p) ==
  \/ Decide(p) \/ Attach(p) \/ Wait(p)
  \/ Spawn(p) \/ SpawnFails(p) \/ Ready(p) \/ NotReady(p) \/ Connect(p)
  \/ RecordLaunched(p) \/ RecordLaunchFailed(p) \/ ProbeAnswers(p)

LoginStep(l) ==
  \/ LoginPrepares(l) \/ LoginRefused(l) \/ LoginBegins(l) \/ LoginOpens(l) \/ LoginCloses(l) \/ LoginEnds(l)
  \/ Spawn(l) \/ SpawnFails(l) \/ Ready(l) \/ NotReady(l) \/ Connect(l)

Next ==
  \/ \E p \in Proc : Acquire(p) \/ Probe(p) \/ Continue(p) \/ Disconnect(p)
  \/ \E l \in Login : LoginStep(l)
  \/ \E i \in Instance : Serve(i) \/ Quit(i)
  \/ \E p \in Process : Die(p)

Spec == Init /\ [][Next]_vars

\* A process goes on with its call unless it dies (every loop has a deadline), a
\* connection notices that its browser is gone, and callers of a live process go
\* on asking for the browser however often its liveness is probed in between.
FairSpec ==
  /\ Spec
  /\ \A p \in Proc :
       /\ WF_vars(Continue(p))
       /\ SF_vars(Acquire(p))
       /\ WF_vars(Disconnect(p) /\ memo[p] # None /\ life[memo[p]] # "serving")

-----------------------------------------------------------------------------
(* Properties.                                                             *)

Typed ==
  /\ rowState \in RowState
  /\ rowPid \in Process \cup MaybeInstance
  /\ rowUuid \in MaybeInstance
  /\ portFile \in MaybeInstance
  /\ life \in [Instance -> Life]
  /\ at \in [Process -> Place]
  /\ seen \in [Process -> MaybeInstance]
  /\ before \in [Process -> MaybeInstance]
  /\ spawned \in [Process -> MaybeInstance]
  /\ memo \in [Process -> MaybeInstance]
  /\ connected \in [Process -> BOOLEAN]
  /\ unrecorded \subseteq Process

Accompanied(p) ==
  /\ connected[p] => memo[p] # None
  /\ at[p] \in {"spawned", "connect", "record"} <=> spawned[p] # None
  /\ at[p] \in {"attach", "connect", "record"} => seen[p] # None

\* Every variable holds values of its kind: only a session has a connection,
\* only a launch a process, and who attaches or records has seen a browser.
TypeOK == Typed /\ \A p \in Process : Accompanied(p)

\* A row that says `starting` names the process that took the race, and that
\* process is still at it, or will never write again: no failure, no stale
\* observation and no write of somebody else's outcome leaves callers waiting
\* for a launch nobody is making.
StartingNamesItsLauncher ==
  rowState = "starting" =>
    \/ rowPid \in Proc /\ at[rowPid] \in Launching
    \/ rowPid \in unrecorded

\* A browser that serves is ended by nobody but a launch that spawned it and
\* gave up on it: a launch that finds the profile taken leaves the holder alone.
CollisionSparesHolder ==
  [][\A i \in Instance :
       /\ life[i] = "serving" /\ life'[i] # "serving"
       /\ at' # at
       => \E p \in Process : /\ spawned[p] = i
                             /\ at[p] = "spawned" /\ at'[p] = "failed"]_vars

\* A launch that was begun is recorded, one way or the other, unless its
\* process is killed or the store refuses the write.
LaunchSettles ==
  \A p \in Proc :
    rowState = "starting" /\ rowPid = p
      ~> rowState # "starting" \/ rowPid # p \/ p \in unrecorded

\* No process keeps a session with a browser that is gone: the next call drops
\* it and finds the browser anew.
DeadSessionIsDropped ==
  \A p \in Proc :
    memo[p] # None /\ life[memo[p]] # "serving"
      ~> memo[p] = None \/ life[memo[p]] = "serving"
=============================================================================
