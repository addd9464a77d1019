----------------------------- MODULE StoreOpen -----------------------------
(***************************************************************************)
(* How processes of different builds and settings come to share one store: *)
(* each opens the file, upgrades it if it is behind, and agrees with what  *)
(* is recorded about the tab budget, or refuses to start (store/open.ts,   *)
(* store/schema/step.ts, store/budget.ts).  Nobody coordinates them but    *)
(* SQLite's one writer at a time, and any may be killed at any moment.     *)
(* Between two starts somebody may change the settings; `broker doctor`    *)
(* may be asked at any point, and changes nothing here.                    *)
(***************************************************************************)
EXTENDS Settings, Doctor

CONSTANTS
  Proc,         \* processes
  Build,        \* Build[p]: the schema version p's build understands
  Environments, \* Environments[p]: the settings p may be started with
  Content,      \* the stores there may be: records of version and rows
  Machine       \* what the doctor may observe beside the store

VARIABLES
  version,      \* PRAGMA user_version of the file
  db,           \* its rows
  applied,      \* the schema steps committed to it, in order (a history)
  wal,          \* is the file in write-ahead-log mode?
  writer,       \* who holds the write lock
  draft,        \* what the writer has written and not committed
  env,          \* env[p]: the settings p was started with
  at,           \* at[p]: where p is in opening the store
  observed,     \* observed[p]: the version p read before its transaction
  fk            \* fk[p]: does p's connection check foreign keys?

\* The settings and the place are judged before the file is touched.
Usable(e) == Readable(e) /\ ~StoreIsElsewhere(e)

\* A store as some build left it: rows its version accepts, and ids and arrival
\* numbers as its builds hand them out.
Sound(v, rows) ==
  /\ v \in Version /\ rows \in Stores /\ Legal(v, rows)
  /\ IsFiniteSet(rows.claims)
  /\ \A c, d \in rows.claims : c.id = d.id => c = d
  /\ v >= 3 => \A c \in rows.claims : c.arrival \in 0 .. rows.next

\* A build that agrees on the budget has the step that made room for it.
ASSUME StoreOpenAssumption ==
  /\ Null \notin Proc \cup Nat \cup Kinds
  /\ Kinds \subseteq BrowserName
  /\ Build \in [Proc -> 2 .. Expected]
  /\ \A c \in Content : Sound(c.version, c.db)

file == <<version, db, applied>>
vars == <<file, wal, writer, draft, env, at, observed, fk>>

Stage == {"new", "converting", "open", "read", "stepping", "stepped",
          "serving", "refused"}

NoDraft == [applied |-> <<>>, db |-> NoRows]

-----------------------------------------------------------------------------
(* Opening the file.                                                       *)

Tabs(p) == TabBudget(env[p])

Go(p, stage) == at' = [at EXCEPT ![p] = stage]

\* A refusal closes the handle: nobody holds a file open for a process that has
\* decided not to run.
Refuse(p) ==
  /\ Go(p, "refused")
  /\ fk' = [fk EXCEPT ![p] = FALSE]

\* Two processes may both set the journal mode for the first time; one of them
\* has the file to itself while it does.
OpenFile(p) ==
  /\ at[p] = "new"
  /\ \E e \in Environments[p] :
       /\ env' = [env EXCEPT ![p] = e]
       /\ \/ /\ ~Usable(e)
             /\ Refuse(p)
             /\ UNCHANGED writer
          \/ /\ Usable(e)
             /\ wal
             /\ Go(p, "open")
             /\ fk' = [fk EXCEPT ![p] = TRUE]
             /\ UNCHANGED writer
          \/ /\ Usable(e)
             /\ ~wal /\ writer = Null
             /\ writer' = p
             /\ Go(p, "converting")
             /\ UNCHANGED fk
          \/ /\ Usable(e)
             /\ ~wal /\ writer # Null     \* ten attempts, and it gives up
             /\ Refuse(p)
             /\ UNCHANGED writer
  /\ UNCHANGED <<file, wal, draft, observed>>

Convert(p) ==
  /\ at[p] = "converting"
  /\ wal' = TRUE
  /\ writer' = Null
  /\ Go(p, "open")
  /\ fk' = [fk EXCEPT ![p] = TRUE]
  /\ UNCHANGED <<file, draft, env, observed>>

-----------------------------------------------------------------------------
(* stepSchema.                                                             *)

\* The first look, outside any transaction: a store of a newer build is
\* refused, one at this version is left alone.  Otherwise the connection stops
\* checking foreign keys, which it cannot do inside a transaction.
ReadVersion(p) ==
  /\ at[p] = "open"
  /\ observed' = [observed EXCEPT ![p] = version]
  /\ \/ /\ version > Build[p]
        /\ Refuse(p)
     \/ /\ version = Build[p]
        /\ Go(p, "stepped")
        /\ UNCHANGED fk
     \/ /\ version < Build[p]
        /\ Go(p, "read")
        /\ fk' = [fk EXCEPT ![p] = FALSE]
  /\ UNCHANGED <<file, wal, writer, draft, env>>

\* BEGIN IMMEDIATE fails once it has been blocked for too long.
Blocked(p) ==
  /\ at[p] \in {"read", "stepped"}
  /\ writer # Null
  /\ Refuse(p)
  /\ UNCHANGED <<file, wal, writer, draft, env, observed>>

SeenVersion(p) == observed[p]

\* The second look, inside: whoever got here first has done the work.
VersionInside(p) == version

BeginStepping(p) ==
  /\ at[p] = "read"
  /\ writer = Null
  /\ \/ /\ VersionInside(p) > Build[p]
        /\ Refuse(p)
        /\ UNCHANGED <<writer, draft>>
     \/ /\ VersionInside(p) = Build[p]
        /\ Go(p, "stepped")
        /\ fk' = [fk EXCEPT ![p] = TRUE]
        /\ UNCHANGED <<writer, draft>>
     \/ /\ VersionInside(p) < Build[p]
        /\ writer' = p
        /\ draft' = [applied |-> [i \in 1 .. VersionInside(p) |-> i], db |-> db]
        /\ Go(p, "stepping")
        /\ UNCHANGED fk
  /\ UNCHANGED <<file, wal, env, observed>>

\* One step of the list.  None reads the version: each takes the one before it
\* for granted.
ApplyStep(p) ==
  /\ at[p] = "stepping"
  /\ LET v == Len(draft.applied) + 1 IN
       /\ v <= Build[p]
       /\ draft' = [applied |-> Append(draft.applied, v), db |-> Stepped(v, draft.db)]
  /\ UNCHANGED <<file, wal, writer, env, at, observed, fk>>

\* foreign_key_check, then the stamp and the commit; or the rollback.
CommitSteps(p) ==
  /\ at[p] = "stepping"
  /\ Len(draft.applied) = Build[p]
  /\ writer' = Null
  /\ draft' = NoDraft
  /\ \/ /\ draft.db.dangling
        /\ Refuse(p)
        /\ UNCHANGED file
     \/ /\ ~draft.db.dangling
        /\ version' = Build[p]
        /\ db' = draft.db
        /\ applied' = applied \o SubSeq(draft.applied, VersionInside(p) + 1, Build[p])
        /\ Go(p, "stepped")
        /\ fk' = [fk EXCEPT ![p] = TRUE]
  /\ UNCHANGED <<wal, env, observed>>

-----------------------------------------------------------------------------
(* agreeOnTabBudget.                                                       *)

OwnBudget(p) == Tabs(p)

\* The first process to get here writes its number in; nobody adopts or
\* overwrites another's.
RecordedBudget(p) == IF db.budget = Null THEN Tabs(p) ELSE db.budget

\* A process that agrees goes on to read the settings of comparisons, and ends
\* if it cannot (createBroker); its number is recorded by then.
ReadAndRecord(p) ==
  /\ at[p] = "stepped"
  /\ writer = Null
  /\ db' = [db EXCEPT !.budget = RecordedBudget(p)]
  /\ \/ /\ RecordedBudget(p) = Tabs(p)
        /\ ComparisonsReadable(env[p])
        /\ Go(p, "serving")
        /\ UNCHANGED fk
     \/ /\ RecordedBudget(p) # Tabs(p) \/ ~ComparisonsReadable(env[p])
        /\ Refuse(p)
  /\ UNCHANGED <<version, applied, wal, writer, draft, env, observed>>

\* A process is killed, or exits: what it had not committed is gone.  Another
\* start of it is another open.
Exit(p) ==
  /\ at[p] # "new"
  /\ Go(p, "new")
  /\ fk' = [fk EXCEPT ![p] = FALSE]
  /\ writer' = IF writer = p THEN Null ELSE writer
  /\ draft' = IF writer = p THEN NoDraft ELSE draft
  /\ env' = [env EXCEPT ![p] = Null]
  /\ observed' = [observed EXCEPT ![p] = 0]
  /\ UNCHANGED <<file, wal>>

Init ==
  /\ \E c \in Content :
       /\ version = c.version
       /\ db = c.db
       /\ applied = [i \in 1 .. c.version |-> i]
       /\ wal = (c.version > 0)
  /\ writer = Null
  /\ draft = NoDraft
  /\ env = [p \in Proc |-> Null]
  /\ at = [p \in Proc |-> "new"]
  /\ observed = [p \in Proc |-> 0]
  /\ fk = [p \in Proc |-> FALSE]

Next == \E p \in Proc :
  \/ OpenFile(p) \/ Convert(p) \/ ReadVersion(p) \/ Blocked(p)
  \/ BeginStepping(p) \/ ApplyStep(p) \/ CommitSteps(p)
  \/ ReadAndRecord(p) \/ Exit(p)

Spec == Init /\ [][Next]_vars

-----------------------------------------------------------------------------
(* `broker doctor`, asked in an environment by a build.                    *)

\* It opens the store without stepping it, and goes on without one that is
\* elsewhere, or not there yet.
Found(e) == IF StoreIsElsewhere(e) \/ ~wal THEN Null ELSE version

Report(p, e, m) ==
  Checks(StoreIsElsewhere(e), Found(e), Build[p],
         IF Found(e) = Null THEN Null ELSE db.budget, TabBudget(e), m)

-----------------------------------------------------------------------------
(* Properties.                                                             *)

\* Whichever builds race to upgrade the store, and wherever one of them dies,
\* the file holds exactly the steps up to its stamped version, each applied
\* once and in order, and only rows the tables of that version accept.
StoreIsWhole ==
  /\ applied = [i \in 1 .. version |-> i]
  /\ Legal(version, db)

\* A process that serves arbitrates against the tab budget everybody recorded,
\* in a store that has all its build needs, on a connection that checks
\* foreign keys again.
ServesItsStore ==
  \A p \in Proc :
    at[p] = "serving" => db.budget = Tabs(p) /\ version >= Build[p] /\ fk[p]

\* A caller told its place in the queue keeps it across an upgrade: whoever was
\* ahead stays ahead, and later arrivals are numbered above everybody there.
UpgradeKeepsQueue ==
  [][/\ \A c, d \in db.claims, e, f \in db'.claims :
          e.id = c.id /\ f.id = d.id /\ Before(version, c, d)
            => Before(version', e, f)
     /\ {c.id : c \in db'.claims} = {c.id : c \in db.claims}
     /\ version' >= 3 => \A c \in db'.claims : c.arrival <= db'.next]_vars

\* A person whose process refuses to start runs `broker doctor` with the same
\* settings: unless another process was in the way, the rows contradict each
\* other, or it is the settings of comparisons, which the doctor does not read,
\* it answers, and its exit code or its budget check names the cause whatever
\* else is wrong with the machine.  A process that starts is not told
\* afterwards that its budget is wrong.
DoctorExplainsRefusals ==
  [][\A p \in Proc, m \in Machine :
       /\ /\ at[p] # "refused" /\ at'[p] = "refused"
          /\ Readable(env'[p]) /\ ComparisonsReadable(env'[p])
          /\ writer = Null
          => /\ Answers(Found(env'[p]))
             /\ \/ ExitCode(Report(p, env'[p], m)) = DoctorExit.store
                \/ Check("budget", "failed") \in Report(p, env'[p], m)
       /\ at[p] # "serving" /\ at'[p] = "serving"
          => Check("budget", "failed") \notin Report(p, env[p], m)']_vars
=============================================================================
