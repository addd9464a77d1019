--------------------------- MODULE AdoptionProofs ---------------------------
(* Theorems about Adoption, for any number of processes, logins and        *)
(* browsers.                                                               *)
EXTENDS Adoption, TLAPS

USE AdoptionAssumption DEF MaybeInstance, Process

(* Who answers is a browser, or nobody.                                    *)
LEMMA RunningType ==
  ASSUME TypeOK
  PROVE  /\ \A i \in MaybeInstance : Answering(i) \in MaybeInstance
         /\ Running \in MaybeInstance
BY DEF TypeOK, Typed, Answering, Running

(* A signal leaves every process in a stage of its life.                   *)
LEMMA KilledType ==
  ASSUME TypeOK
  PROVE  \A i \in MaybeInstance : Killed(i) \in [Instance -> Life]
BY DEF TypeOK, Typed, Killed, Life

(* The initial state is well typed.                                        *)
LEMMA InitType == Init => TypeOK
BY DEF Init, TypeOK, Typed, Accompanied, RowState, Life, Place, Launching

(* Every step keeps the types, and the company a session, a launch and an  *)
(* observation keep.                                                       *)
LEMMA TypeStep ==
  ASSUME TypeOK, [Next]_vars
  PROVE  TypeOK'
<1>1. ASSUME NEW p \in Proc, Acquire(p) PROVE TypeOK'
  BY <1>1, RunningType, KilledType DEF TypeOK, Typed, Accompanied, RowState, Life, Place, Launching, Acquire, Forget, row, hand, session
<1>2. ASSUME NEW p \in Proc, Decide(p) PROVE TypeOK'
  BY <1>2, RunningType, KilledType DEF TypeOK, Typed, Accompanied, RowState, Life, Place, Launching, Decide, RecordRunning, RecordStarting, row, hand, session
<1>3. ASSUME NEW p \in Proc, Attach(p) PROVE TypeOK'
  <2>1. CASE Answering(seen[p]) # None
    <3>0. Typed
      BY DEF TypeOK
    <3>1. /\ seen[p] \in MaybeInstance /\ spawned[p] \in MaybeInstance
          /\ Killed(spawned[p]) \in [Instance -> Life]
      BY KilledType DEF TypeOK, Typed
    <3>2. Typed'
      BY <1>3, <2>1, <3>0, <3>1, RunningType DEF Typed, RowState, Life, Place, Launching, Attach, EmptyHand, row, hand, session
    <3>3. ASSUME NEW q \in Process PROVE Accompanied(q)'
      BY <1>3, <2>1, <3>1, RunningType DEF TypeOK, Typed, Accompanied, RowState, Life, Place, Launching, Attach, EmptyHand, row, hand, session
    <3> QED
      BY <3>2, <3>3 DEF TypeOK
  <2>2. CASE Answering(seen[p]) = None
    <3>0. Typed
      BY DEF TypeOK
    <3>1. /\ seen[p] \in MaybeInstance /\ spawned[p] \in MaybeInstance
          /\ Killed(spawned[p]) \in [Instance -> Life]
      BY KilledType DEF TypeOK, Typed
    <3>2. Typed'
      BY <1>3, <2>2, <3>0, <3>1, RunningType DEF Typed, RowState, Life, Place, Launching, Attach, EmptyHand, row, hand, session
    <3>3. ASSUME NEW q \in Process PROVE Accompanied(q)'
      BY <1>3, <2>2, <3>1, RunningType DEF TypeOK, Typed, Accompanied, RowState, Life, Place, Launching, Attach, EmptyHand, row, hand, session
    <3> QED
      BY <3>2, <3>3 DEF TypeOK
  <2> QED
    BY <1>3, <2>1, <2>2 DEF Attach, EmptyHand
<1>4. ASSUME NEW p \in Proc, Wait(p) PROVE TypeOK'
  <2>1. CASE Running # None
    <3>0. Typed
      BY DEF TypeOK
    <3>1. /\ seen[p] \in MaybeInstance /\ spawned[p] \in MaybeInstance
          /\ Killed(spawned[p]) \in [Instance -> Life]
      BY KilledType DEF TypeOK, Typed
    <3>2. Typed'
      BY <1>4, <2>1, <3>0, <3>1, RunningType DEF Typed, RowState, Life, Place, Launching, Wait, row, hand, session
    <3>3. ASSUME NEW q \in Process PROVE Accompanied(q)'
      BY <1>4, <2>1, <3>1, RunningType DEF TypeOK, Typed, Accompanied, RowState, Life, Place, Launching, Wait, row, hand, session
    <3> QED
      BY <3>2, <3>3 DEF TypeOK
  <2>2. CASE Running = None
    <3>0. Typed
      BY DEF TypeOK
    <3>1. /\ seen[p] \in MaybeInstance /\ spawned[p] \in MaybeInstance
          /\ Killed(spawned[p]) \in [Instance -> Life]
      BY KilledType DEF TypeOK, Typed
    <3>2. Typed'
      BY <1>4, <2>2, <3>0, <3>1, RunningType DEF Typed, RowState, Life, Place, Launching, Wait, row, hand, session
    <3>3. ASSUME NEW q \in Process PROVE Accompanied(q)'
      BY <1>4, <2>2, <3>1, RunningType DEF TypeOK, Typed, Accompanied, RowState, Life, Place, Launching, Wait, row, hand, session
    <3> QED
      BY <3>2, <3>3 DEF TypeOK
  <2> QED
    BY <1>4, <2>1, <2>2 DEF Wait
<1>5. ASSUME NEW p \in Process, Spawn(p) PROVE TypeOK'
  BY <1>5, RunningType, KilledType DEF TypeOK, Typed, Accompanied, RowState, Life, Place, Launching, Spawn, row, hand, session
<1>6. ASSUME NEW p \in Process, SpawnFails(p) PROVE TypeOK'
  BY <1>6, RunningType, KilledType DEF TypeOK, Typed, Accompanied, RowState, Life, Place, Launching, SpawnFails, row, hand, session
<1>7. ASSUME NEW p \in Process, Ready(p) PROVE TypeOK'
  <2>1. CASE Running = before[p]
    <3>0. Typed
      BY DEF TypeOK
    <3>1. /\ seen[p] \in MaybeInstance /\ spawned[p] \in MaybeInstance
          /\ Killed(spawned[p]) \in [Instance -> Life]
      BY KilledType DEF TypeOK, Typed
    <3>2. Typed'
      BY <1>7, <2>1, <3>0, <3>1, RunningType DEF Typed, RowState, Life, Place, Launching, Ready, EndTheLoser, EmptyHand, row, hand, session
    <3>3. ASSUME NEW q \in Process PROVE Accompanied(q)'
      BY <1>7, <2>1, <3>1, RunningType DEF TypeOK, Typed, Accompanied, RowState, Life, Place, Launching, Ready, EndTheLoser, EmptyHand, row, hand, session
    <3> QED
      BY <3>2, <3>3 DEF TypeOK
  <2>2. CASE Running # before[p]
    <3>0. Typed
      BY DEF TypeOK
    <3>1. /\ seen[p] \in MaybeInstance /\ spawned[p] \in MaybeInstance
          /\ Killed(spawned[p]) \in [Instance -> Life]
      BY KilledType DEF TypeOK, Typed
    <3>2. Typed'
      BY <1>7, <2>2, <3>0, <3>1, RunningType DEF Typed, RowState, Life, Place, Launching, Ready, EndTheLoser, EmptyHand, row, hand, session
    <3>3. ASSUME NEW q \in Process PROVE Accompanied(q)'
      BY <1>7, <2>2, <3>1, RunningType DEF TypeOK, Typed, Accompanied, RowState, Life, Place, Launching, Ready, EndTheLoser, EmptyHand, row, hand, session
    <3> QED
      BY <3>2, <3>3 DEF TypeOK
  <2> QED
    BY <1>7, <2>1, <2>2 DEF Ready, EndTheLoser, EmptyHand
<1>8. ASSUME NEW p \in Process, NotReady(p) PROVE TypeOK'
  BY <1>8, RunningType, KilledType DEF TypeOK, Typed, Accompanied, RowState, Life, Place, Launching, NotReady, EmptyHand, row, hand, session
<1>9. ASSUME NEW p \in Process, Connect(p) PROVE TypeOK'
  <2>1. CASE Answering(seen[p]) # None /\ p \in Proc
    <3>0. Typed
      BY DEF TypeOK
    <3>1. /\ seen[p] \in MaybeInstance /\ spawned[p] \in MaybeInstance
          /\ Killed(spawned[p]) \in [Instance -> Life]
      BY KilledType DEF TypeOK, Typed
    <3>2. Typed'
      BY <1>9, <2>1, <3>0, <3>1, RunningType DEF Typed, RowState, Life, Place, Launching, Connect, EmptyHand, row, hand, session
    <3>3. ASSUME NEW q \in Process PROVE Accompanied(q)'
      BY <1>9, <2>1, <3>1, RunningType DEF TypeOK, Typed, Accompanied, RowState, Life, Place, Launching, Connect, EmptyHand, row, hand, session
    <3> QED
      BY <3>2, <3>3 DEF TypeOK
  <2>2. CASE Answering(seen[p]) # None /\ p \in Login
    <3>0. Typed
      BY DEF TypeOK
    <3>1. /\ seen[p] \in MaybeInstance /\ spawned[p] \in MaybeInstance
          /\ Killed(spawned[p]) \in [Instance -> Life]
      BY KilledType DEF TypeOK, Typed
    <3>2. Typed'
      BY <1>9, <2>2, <3>0, <3>1, RunningType DEF Typed, RowState, Life, Place, Launching, Connect, EmptyHand, row, hand, session
    <3>3. ASSUME NEW q \in Process PROVE Accompanied(q)'
      BY <1>9, <2>2, <3>1, RunningType DEF TypeOK, Typed, Accompanied, RowState, Life, Place, Launching, Connect, EmptyHand, row, hand, session
    <3> QED
      BY <3>2, <3>3 DEF TypeOK
  <2>3. CASE Answering(seen[p]) = None
    <3>0. Typed
      BY DEF TypeOK
    <3>1. /\ seen[p] \in MaybeInstance /\ spawned[p] \in MaybeInstance
          /\ Killed(spawned[p]) \in [Instance -> Life]
      BY KilledType DEF TypeOK, Typed
    <3>2. Typed'
      BY <1>9, <2>3, <3>0, <3>1, RunningType DEF Typed, RowState, Life, Place, Launching, Connect, EmptyHand, row, hand, session
    <3>3. ASSUME NEW q \in Process PROVE Accompanied(q)'
      BY <1>9, <2>3, <3>1, RunningType DEF TypeOK, Typed, Accompanied, RowState, Life, Place, Launching, Connect, EmptyHand, row, hand, session
    <3> QED
      BY <3>2, <3>3 DEF TypeOK
  <2> QED
    BY <1>9, <2>1, <2>2, <2>3 DEF Connect, EmptyHand
<1>10. ASSUME NEW p \in Proc, RecordLaunched(p) PROVE TypeOK'
  <2>1. CASE rowState' = "running" /\ at' = [at EXCEPT ![p] = "idle"]
    <3>0. Typed
      BY DEF TypeOK
    <3>1. /\ seen[p] \in MaybeInstance /\ spawned[p] \in MaybeInstance
          /\ Killed(spawned[p]) \in [Instance -> Life]
      BY KilledType DEF TypeOK, Typed
    <3>2. Typed'
      BY <1>10, <2>1, <3>0, <3>1, RunningType DEF Typed, RowState, Life, Place, Launching, RecordLaunched, EmptyHand, row, hand, session
    <3>3. ASSUME NEW q \in Process PROVE Accompanied(q)'
      BY <1>10, <2>1, <3>1, RunningType DEF TypeOK, Typed, Accompanied, RowState, Life, Place, Launching, RecordLaunched, EmptyHand, row, hand, session
    <3> QED
      BY <3>2, <3>3 DEF TypeOK
  <2>2. CASE at' = [at EXCEPT ![p] = "failed"]
    <3>0. Typed
      BY DEF TypeOK
    <3>1. /\ seen[p] \in MaybeInstance /\ spawned[p] \in MaybeInstance
          /\ Killed(spawned[p]) \in [Instance -> Life]
      BY KilledType DEF TypeOK, Typed
    <3>2. Typed'
      BY <1>10, <2>2, <3>0, <3>1, RunningType DEF Typed, RowState, Life, Place, Launching, RecordLaunched, EmptyHand, row, hand, session
    <3>3. ASSUME NEW q \in Process PROVE Accompanied(q)'
      BY <1>10, <2>2, <3>1, RunningType DEF TypeOK, Typed, Accompanied, RowState, Life, Place, Launching, RecordLaunched, EmptyHand, row, hand, session
    <3> QED
      BY <3>2, <3>3 DEF TypeOK
  <2> QED
    BY <1>10, <2>1, <2>2 DEF RecordLaunched, EmptyHand
<1>11. ASSUME NEW p \in Proc, RecordLaunchFailed(p) PROVE TypeOK'
  BY <1>11, RunningType, KilledType DEF TypeOK, Typed, Accompanied, RowState, Life, Place, Launching, RecordLaunchFailed, RecordStopped, row, hand, session
<1>12. ASSUME NEW p \in Proc, Probe(p) PROVE TypeOK'
  BY <1>12, RunningType, KilledType DEF TypeOK, Typed, Accompanied, RowState, Life, Place, Launching, Probe, row, hand, session
<1>13. ASSUME NEW p \in Proc, ProbeAnswers(p) PROVE TypeOK'
  <2>1. CASE Verdict(p) = "live"
    <3>0. Typed
      BY DEF TypeOK
    <3>1. /\ seen[p] \in MaybeInstance /\ spawned[p] \in MaybeInstance
          /\ Killed(spawned[p]) \in [Instance -> Life]
      BY KilledType DEF TypeOK, Typed
    <3>2. Typed'
      BY <1>13, <2>1, <3>0, <3>1, RunningType DEF Typed, RowState, Life, Place, Launching, ProbeAnswers, EmptyHand, Forget, row, hand, session
    <3>3. ASSUME NEW q \in Process PROVE Accompanied(q)'
      BY <1>13, <2>1, <3>1, RunningType DEF TypeOK, Typed, Accompanied, RowState, Life, Place, Launching, ProbeAnswers, EmptyHand, Forget, row, hand, session
    <3> QED
      BY <3>2, <3>3 DEF TypeOK
  <2>2. CASE Verdict(p) # "live"
    <3>0. Typed
      BY DEF TypeOK
    <3>1. /\ seen[p] \in MaybeInstance /\ spawned[p] \in MaybeInstance
          /\ Killed(spawned[p]) \in [Instance -> Life]
      BY KilledType DEF TypeOK, Typed
    <3>2. Typed'
      BY <1>13, <2>2, <3>0, <3>1, RunningType DEF Typed, RowState, Life, Place, Launching, ProbeAnswers, EmptyHand, Forget, row, hand, session
    <3>3. ASSUME NEW q \in Process PROVE Accompanied(q)'
      BY <1>13, <2>2, <3>1, RunningType DEF TypeOK, Typed, Accompanied, RowState, Life, Place, Launching, ProbeAnswers, EmptyHand, Forget, row, hand, session
    <3> QED
      BY <3>2, <3>3 DEF TypeOK
  <2> QED
    BY <1>13, <2>1, <2>2 DEF ProbeAnswers, EmptyHand, Forget
<1>14. ASSUME NEW p \in Proc, Disconnect(p) PROVE TypeOK'
  BY <1>14, RunningType, KilledType DEF TypeOK, Typed, Accompanied, RowState, Life, Place, Launching, Disconnect, row, hand, session
<1>14a. ASSUME NEW p \in Login, LoginPrepares(p) PROVE TypeOK'
  BY <1>14a, RunningType, KilledType DEF TypeOK, Typed, Accompanied, RowState, Life, Place, Launching, LoginPrepares, row, hand, session
<1>14b. ASSUME NEW p \in Login, LoginRefused(p) PROVE TypeOK'
  BY <1>14b, RunningType, KilledType DEF TypeOK, Typed, Accompanied, RowState, Life, Place, Launching, LoginRefused, row, hand, session
<1>15. ASSUME NEW p \in Login, LoginBegins(p) PROVE TypeOK'
  BY <1>15, RunningType, KilledType DEF TypeOK, Typed, Accompanied, RowState, Life, Place, Launching, LoginBegins, row, hand, session
<1>16. ASSUME NEW p \in Login, LoginOpens(p) PROVE TypeOK'
  BY <1>16, RunningType, KilledType DEF TypeOK, Typed, Accompanied, RowState, Life, Place, Launching, LoginOpens, row, hand, session
<1>17. ASSUME NEW p \in Login, LoginCloses(p) PROVE TypeOK'
  BY <1>17, RunningType, KilledType DEF TypeOK, Typed, Accompanied, RowState, Life, Place, Launching, LoginCloses, row, hand, session
<1>18. ASSUME NEW p \in Login, LoginEnds(p) PROVE TypeOK'
  BY <1>18, RunningType, KilledType DEF TypeOK, Typed, Accompanied, RowState, Life, Place, Launching, LoginEnds, row, hand, session
<1>19. ASSUME NEW p \in Process, Die(p) PROVE TypeOK'
  BY <1>19, RunningType, KilledType DEF TypeOK, Typed, Accompanied, RowState, Life, Place, Launching, Die, EmptyHand, Forget, row, hand, session
<1>20. ASSUME NEW i \in Instance, Serve(i) PROVE TypeOK'
  BY <1>20 DEF TypeOK, Typed, Accompanied, RowState, Life, Place, Launching, Serve, row, hand, session
<1>21. ASSUME NEW i \in Instance, Quit(i) PROVE TypeOK'
  BY <1>21 DEF TypeOK, Typed, Accompanied, RowState, Life, Place, Launching, Quit, row, hand, session
<1>22. CASE UNCHANGED vars
  BY <1>22 DEF TypeOK, Typed, Accompanied, RowState, Life, Place, Launching, vars, row, hand, session
<1> QED
  BY <1>1, <1>2, <1>3, <1>4, <1>5, <1>6, <1>7, <1>8, <1>9, <1>10, <1>11, <1>12,
     <1>13, <1>14, <1>14a, <1>14b, <1>15, <1>16, <1>17, <1>18, <1>19, <1>20, <1>21, <1>22 DEF Next, Continue, LoginStep

(* Every variable holds values of its kind, in every behaviour.            *)
THEOREM AdoptionTypeCorrect == Spec => []TypeOK
BY InitType, TypeStep, PTL DEF Spec

(* A launch changes hands nowhere: only its own outcome, a death or a      *)
(* refused write takes a launcher out of the race, and each of them leaves *)
(* its mark.                                                               *)
LEMMA LauncherStep ==
  ASSUME Typed, StartingNamesItsLauncher, [Next]_vars
  PROVE  StartingNamesItsLauncher'
<1>1. ASSUME NEW p \in Proc, Acquire(p) PROVE StartingNamesItsLauncher'
  BY <1>1 DEF StartingNamesItsLauncher, Typed, Launching, Acquire, Forget, row, hand, session
<1>2. ASSUME NEW p \in Proc, Decide(p) PROVE StartingNamesItsLauncher'
  BY <1>2 DEF StartingNamesItsLauncher, Typed, Launching, Decide, RecordRunning, RecordStarting, row, hand, session
<1>3. ASSUME NEW p \in Proc, Attach(p) PROVE StartingNamesItsLauncher'
  BY <1>3 DEF StartingNamesItsLauncher, Typed, Launching, Attach, EmptyHand, row, hand, session
<1>4. ASSUME NEW p \in Proc, Wait(p) PROVE StartingNamesItsLauncher'
  BY <1>4 DEF StartingNamesItsLauncher, Typed, Launching, Wait, row, hand, session
<1>5. ASSUME NEW p \in Process, Spawn(p) PROVE StartingNamesItsLauncher'
  BY <1>5 DEF StartingNamesItsLauncher, Typed, Launching, Spawn, row, hand, session
<1>6. ASSUME NEW p \in Process, SpawnFails(p) PROVE StartingNamesItsLauncher'
  BY <1>6 DEF StartingNamesItsLauncher, Typed, Launching, SpawnFails, row, hand, session
<1>7. ASSUME NEW p \in Process, Ready(p) PROVE StartingNamesItsLauncher'
  BY <1>7 DEF StartingNamesItsLauncher, Typed, Launching, Ready, EndTheLoser, EmptyHand, row, hand, session
<1>8. ASSUME NEW p \in Process, NotReady(p) PROVE StartingNamesItsLauncher'
  BY <1>8 DEF StartingNamesItsLauncher, Typed, Launching, NotReady, EmptyHand, row, hand, session
<1>9. ASSUME NEW p \in Process, Connect(p) PROVE StartingNamesItsLauncher'
  BY <1>9 DEF StartingNamesItsLauncher, Typed, Launching, Connect, EmptyHand, row, hand, session
<1>10. ASSUME NEW p \in Proc, RecordLaunched(p) PROVE StartingNamesItsLauncher'
  BY <1>10 DEF StartingNamesItsLauncher, Typed, Launching, RecordLaunched, EmptyHand, row, hand, session
<1>11. ASSUME NEW p \in Proc, RecordLaunchFailed(p) PROVE StartingNamesItsLauncher'
  BY <1>11 DEF StartingNamesItsLauncher, Typed, Launching, RecordLaunchFailed, RecordStopped, row, hand, session
<1>12. ASSUME NEW p \in Proc, Probe(p) PROVE StartingNamesItsLauncher'
  BY <1>12 DEF StartingNamesItsLauncher, Typed, Launching, Probe, row, hand, session
<1>13. ASSUME NEW p \in Proc, ProbeAnswers(p) PROVE StartingNamesItsLauncher'
  BY <1>13 DEF StartingNamesItsLauncher, Typed, Launching, ProbeAnswers, EmptyHand, Forget, row, hand, session
<1>14. ASSUME NEW p \in Proc, Disconnect(p) PROVE StartingNamesItsLauncher'
  BY <1>14 DEF StartingNamesItsLauncher, Typed, Launching, Disconnect, row, hand, session
<1>14a. ASSUME NEW p \in Login, LoginPrepares(p) PROVE StartingNamesItsLauncher'
  BY <1>14a DEF StartingNamesItsLauncher, Typed, Launching, LoginPrepares, row, hand, session
<1>14b. ASSUME NEW p \in Login, LoginRefused(p) PROVE StartingNamesItsLauncher'
  BY <1>14b DEF StartingNamesItsLauncher, Typed, Launching, LoginRefused, row, hand, session
<1>15. ASSUME NEW p \in Login, LoginBegins(p) PROVE StartingNamesItsLauncher'
  BY <1>15 DEF StartingNamesItsLauncher, Typed, Launching, LoginBegins, row, hand, session
<1>16. ASSUME NEW p \in Login, LoginOpens(p) PROVE StartingNamesItsLauncher'
  BY <1>16 DEF StartingNamesItsLauncher, Typed, Launching, LoginOpens, row, hand, session
<1>17. ASSUME NEW p \in Login, LoginCloses(p) PROVE StartingNamesItsLauncher'
  BY <1>17 DEF StartingNamesItsLauncher, Typed, Launching, LoginCloses, row, hand, session
<1>18. ASSUME NEW p \in Login, LoginEnds(p) PROVE StartingNamesItsLauncher'
  BY <1>18 DEF StartingNamesItsLauncher, Typed, Launching, LoginEnds, row, hand, session
<1>19. ASSUME NEW p \in Process, Die(p) PROVE StartingNamesItsLauncher'
  BY <1>19 DEF StartingNamesItsLauncher, Typed, Launching, Die, EmptyHand, Forget, row, hand, session
<1>20. ASSUME NEW i \in Instance, Serve(i) PROVE StartingNamesItsLauncher'
  BY <1>20 DEF StartingNamesItsLauncher, Typed, Launching, Serve, row, hand, session
<1>21. ASSUME NEW i \in Instance, Quit(i) PROVE StartingNamesItsLauncher'
  BY <1>21 DEF StartingNamesItsLauncher, Typed, Launching, Quit, row, hand, session
<1>22. CASE UNCHANGED vars
  BY <1>22 DEF StartingNamesItsLauncher, Typed, Launching, vars, row, hand, session
<1> QED
  BY <1>1, <1>2, <1>3, <1>4, <1>5, <1>6, <1>7, <1>8, <1>9, <1>10, <1>11, <1>12,
     <1>13, <1>14, <1>14a, <1>14b, <1>15, <1>16, <1>17, <1>18, <1>19, <1>20, <1>21, <1>22 DEF Next, Continue, LoginStep

(* A row that says `starting` always has a launcher, or one that is known  *)
(* to have been killed or refused.                                         *)
THEOREM StartingHasLauncher == Spec => []StartingNamesItsLauncher
<1>1. Init => TypeOK /\ StartingNamesItsLauncher
  BY InitType DEF Init, StartingNamesItsLauncher
<1>2. TypeOK /\ StartingNamesItsLauncher /\ [Next]_vars
        => (TypeOK /\ StartingNamesItsLauncher)'
  BY TypeStep, LauncherStep DEF TypeOK
<1> QED
  BY <1>1, <1>2, PTL DEF Spec

(* The step of CollisionSparesHolder, for one browser.                     *)
EndsByItsLauncher(i) ==
  life[i] = "serving" /\ life'[i] # "serving" /\ at' # at
    => \E p \in Process : /\ spawned[p] = i
                          /\ at[p] = "spawned" /\ at'[p] = "failed"

LEMMA HolderStep ==
  ASSUME Typed, [Next]_vars, NEW i \in Instance
  PROVE  EndsByItsLauncher(i)
<1>1. ASSUME NEW p \in Proc, Acquire(p) PROVE EndsByItsLauncher(i)
  BY <1>1 DEF EndsByItsLauncher, Typed, Killed, Acquire, Forget, row, hand, session
<1>2. ASSUME NEW p \in Proc, Decide(p) PROVE EndsByItsLauncher(i)
  BY <1>2 DEF EndsByItsLauncher, Typed, Killed, Decide, RecordRunning, RecordStarting, row, hand, session
<1>3. ASSUME NEW p \in Proc, Attach(p) PROVE EndsByItsLauncher(i)
  BY <1>3 DEF EndsByItsLauncher, Typed, Killed, Attach, EmptyHand, row, hand, session
<1>4. ASSUME NEW p \in Proc, Wait(p) PROVE EndsByItsLauncher(i)
  BY <1>4 DEF EndsByItsLauncher, Typed, Killed, Wait, row, hand, session
<1>5. ASSUME NEW p \in Process, Spawn(p) PROVE EndsByItsLauncher(i)
  BY <1>5 DEF EndsByItsLauncher, Typed, Killed, Spawn, row, hand, session
<1>6. ASSUME NEW p \in Process, SpawnFails(p) PROVE EndsByItsLauncher(i)
  BY <1>6 DEF EndsByItsLauncher, Typed, Killed, SpawnFails, row, hand, session
<1>7. ASSUME NEW p \in Process, Ready(p) PROVE EndsByItsLauncher(i)
  BY <1>7 DEF EndsByItsLauncher, Typed, Killed, Ready, EndTheLoser, EmptyHand, row, hand, session
<1>8. ASSUME NEW p \in Process, NotReady(p) PROVE EndsByItsLauncher(i)
  BY <1>8 DEF EndsByItsLauncher, Typed, Killed, NotReady, EmptyHand, row, hand, session
<1>9. ASSUME NEW p \in Process, Connect(p) PROVE EndsByItsLauncher(i)
  BY <1>9 DEF EndsByItsLauncher, Typed, Killed, Connect, EmptyHand, row, hand, session
<1>10. ASSUME NEW p \in Proc, RecordLaunched(p) PROVE EndsByItsLauncher(i)
  BY <1>10 DEF EndsByItsLauncher, Typed, Killed, RecordLaunched, EmptyHand, row, hand, session
<1>11. ASSUME NEW p \in Proc, RecordLaunchFailed(p) PROVE EndsByItsLauncher(i)
  BY <1>11 DEF EndsByItsLauncher, Typed, Killed, RecordLaunchFailed, RecordStopped, row, hand, session
<1>12. ASSUME NEW p \in Proc, Probe(p) PROVE EndsByItsLauncher(i)
  BY <1>12 DEF EndsByItsLauncher, Typed, Killed, Probe, row, hand, session
<1>13. ASSUME NEW p \in Proc, ProbeAnswers(p) PROVE EndsByItsLauncher(i)
  BY <1>13 DEF EndsByItsLauncher, Typed, Killed, ProbeAnswers, EmptyHand, Forget, row, hand, session
<1>14. ASSUME NEW p \in Proc, Disconnect(p) PROVE EndsByItsLauncher(i)
  BY <1>14 DEF EndsByItsLauncher, Typed, Killed, Disconnect, row, hand, session
<1>14a. ASSUME NEW p \in Login, LoginPrepares(p) PROVE EndsByItsLauncher(i)
  BY <1>14a DEF EndsByItsLauncher, Typed, Killed, LoginPrepares, row, hand, session
<1>14b. ASSUME NEW p \in Login, LoginRefused(p) PROVE EndsByItsLauncher(i)
  BY <1>14b DEF EndsByItsLauncher, Typed, Killed, LoginRefused, row, hand, session
<1>15. ASSUME NEW p \in Login, LoginBegins(p) PROVE EndsByItsLauncher(i)
  BY <1>15 DEF EndsByItsLauncher, Typed, Killed, LoginBegins, row, hand, session
<1>16. ASSUME NEW p \in Login, LoginOpens(p) PROVE EndsByItsLauncher(i)
  BY <1>16 DEF EndsByItsLauncher, Typed, Killed, LoginOpens, row, hand, session
<1>17. ASSUME NEW p \in Login, LoginCloses(p) PROVE EndsByItsLauncher(i)
  BY <1>17 DEF EndsByItsLauncher, Typed, Killed, LoginCloses, row, hand, session
<1>18. ASSUME NEW p \in Login, LoginEnds(p) PROVE EndsByItsLauncher(i)
  BY <1>18 DEF EndsByItsLauncher, Typed, Killed, LoginEnds, row, hand, session
<1>19. ASSUME NEW p \in Process, Die(p) PROVE EndsByItsLauncher(i)
  BY <1>19 DEF EndsByItsLauncher, Typed, Killed, Die, EmptyHand, Forget, row, hand, session
<1>20. ASSUME NEW j \in Instance, Serve(j) PROVE EndsByItsLauncher(i)
  BY <1>20 DEF EndsByItsLauncher, Typed, Killed, Serve, row, hand, session
<1>21. ASSUME NEW j \in Instance, Quit(j) PROVE EndsByItsLauncher(i)
  BY <1>21 DEF EndsByItsLauncher, Typed, Killed, Quit, row, hand, session
<1>22. CASE UNCHANGED vars
  BY <1>22 DEF EndsByItsLauncher, Typed, Killed, vars, row, hand, session
<1> QED
  BY <1>1, <1>2, <1>3, <1>4, <1>5, <1>6, <1>7, <1>8, <1>9, <1>10, <1>11, <1>12,
     <1>13, <1>14, <1>14a, <1>14b, <1>15, <1>16, <1>17, <1>18, <1>19, <1>20, <1>21, <1>22 DEF Next, Continue, LoginStep

(* A browser that serves ends by its own, or by the launch that spawned it *)
(* and gave up: a launch that finds the profile taken spares the browser   *)
(* it found.                                                               *)
THEOREM HolderSpared == Spec => CollisionSparesHolder
<1>1. TypeOK /\ [Next]_vars => [\A i \in Instance : EndsByItsLauncher(i)]_vars
  BY HolderStep DEF TypeOK
<1>2. [\A i \in Instance : EndsByItsLauncher(i)]_vars
        => [\A i \in Instance :
             /\ life[i] = "serving" /\ life'[i] # "serving"
             /\ at' # at
             => \E p \in Process : /\ spawned[p] = i
                                   /\ at[p] = "spawned" /\ at'[p] = "failed"]_vars
  BY DEF EndsByItsLauncher
<1> QED
  BY <1>1, <1>2, AdoptionTypeCorrect, PTL DEF Spec, CollisionSparesHolder

=============================================================================
