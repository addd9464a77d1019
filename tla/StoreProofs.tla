-------------------------- MODULE StoreProofs --------------------------
(* Theorems about the store: about StoreOpen, for any number of processes, *)
(* builds, settings and earlier stores; and, in the second part, about     *)
(* Readers, for any lines, callers, rows and limits.                       *)
EXTENDS StoreOpen, Readers, FiniteSetTheorems, SequenceTheorems, TLAPS

USE DEF Expected, Version

Steps(n) == [i \in 1 .. n |-> i]

(* Applying the next step to the first n gives the first n + 1.            *)
LEMMA StepsAppend ==
  ASSUME NEW n \in Nat
  PROVE  /\ Steps(n) \in Seq(Nat) /\ Len(Steps(n)) = n
         /\ Append(Steps(n), n + 1) = Steps(n + 1)
<1>1. Steps(n) \in Seq(Nat) /\ Len(Steps(n)) = n
  BY DEF Steps
<1>2. Steps(n + 1) \in Seq(Nat) /\ Len(Steps(n + 1)) = n + 1
  BY DEF Steps
<1>3. Append(Steps(n), n + 1) = [i \in 1 .. n + 1 |-> IF i <= n THEN Steps(n)[i] ELSE n + 1]
  BY <1>1
<1>4. \A i \in 1 .. n + 1 : (IF i <= n THEN Steps(n)[i] ELSE n + 1) = i
  BY DEF Steps
<1> QED
  BY <1>1, <1>3, <1>4 DEF Steps

(* What was committed and the rest of what was written are one list.       *)
LEMMA StepsConcat ==
  ASSUME NEW v \in Nat, NEW b \in Nat, v <= b
  PROVE  Steps(v) \o SubSeq(Steps(b), v + 1, b) = Steps(b)
<1>1. Steps(v) \in Seq(Nat) /\ Len(Steps(v)) = v /\ Steps(b) \in Seq(Nat) /\ Len(Steps(b)) = b
  BY StepsAppend
<1> DEFINE rest == SubSeq(Steps(b), v + 1, b)
<1>2. rest = [i \in 1 .. b - v |-> Steps(b)[v + 1 + i - 1]]
  BY <1>1
<1>3. rest \in Seq(Nat) /\ Len(rest) = b - v
  BY <1>1, <1>2 DEF Steps
<1>4. \A i \in 1 .. b - v : rest[i] = v + i
  BY <1>2 DEF Steps
<1> HIDE DEF rest
<1>5. /\ Steps(v) \o rest \in Seq(Nat) /\ Len(Steps(v) \o rest) = v + (b - v)
      /\ \A i \in 1 .. v + (b - v) :
           (Steps(v) \o rest)[i] = IF i <= v THEN Steps(v)[i] ELSE rest[i - v]
  <2>1. Steps(v) \in Seq(Nat) /\ rest \in Seq(Nat)
    BY <1>1, <1>3
  <2>2. /\ Steps(v) \o rest \in Seq(Nat) /\ Len(Steps(v) \o rest) = Len(Steps(v)) + Len(rest)
        /\ \A i \in 1 .. Len(Steps(v)) + Len(rest) :
             (Steps(v) \o rest)[i] =
               IF i <= Len(Steps(v)) THEN Steps(v)[i] ELSE rest[i - Len(Steps(v))]
    BY <2>1, ConcatProperties, Zenon
  <2> QED
    BY <2>2, <1>1, <1>3, Zenon
<1>6. v + (b - v) = b
  OBVIOUS
<1>7. \A i \in 1 .. b : (Steps(v) \o rest)[i] = Steps(b)[i]
  BY <1>4, <1>5, <1>6 DEF Steps
<1> QED
  BY <1>1, <1>5, <1>6, <1>7, SeqEqual DEF rest

(* Settings a process gets past come with a budget.                        *)
LEMMA BudgetIsNumber ==
  ASSUME NEW e, Usable(e)
  PROVE  TabBudget(e) \in Nat
BY SettingsAssumption DEF Usable, Readable, ReadableInteger, TabBudget, NumberOr, Fallback

-----------------------------------------------------------------------------
(* The steps of an upgrade.                                                *)

(* Step three: numbers by creation respect the order of creation.          *)
LEMMA EarlierGrows ==
  ASSUME NEW claims \in SUBSET ClaimRows, IsFiniteSet(claims)
  PROVE  /\ \A c \in claims : Cardinality(Earlier(c, claims)) \in 0 .. Cardinality(claims)
         /\ \A c, d \in claims :
              Before(2, c, d) => Cardinality(Earlier(c, claims)) < Cardinality(Earlier(d, claims))
<1>1. \A c \in claims : /\ Earlier(c, claims) \in SUBSET claims
                        /\ IsFiniteSet(Earlier(c, claims))
                        /\ Cardinality(Earlier(c, claims)) \in Nat
  BY FS_Subset, FS_CardinalityType DEF Earlier
<1>2. \A c \in claims : Cardinality(Earlier(c, claims)) <= Cardinality(claims)
  BY <1>1, FS_Subset
<1>3. ASSUME NEW c \in claims, NEW d \in claims, Before(2, c, d)
      PROVE  Cardinality(Earlier(c, claims)) < Cardinality(Earlier(d, claims))
  <2>1. Earlier(c, claims) \in SUBSET Earlier(d, claims)
    BY <1>3 DEF Earlier, Before, ClaimRows
  <2>2. d \in Earlier(d, claims) /\ d \notin Earlier(c, claims)
    BY <1>3 DEF Earlier, Before, ClaimRows
  <2>3. /\ Cardinality(Earlier(c, claims)) <= Cardinality(Earlier(d, claims))
        /\ Cardinality(Earlier(d, claims)) = Cardinality(Earlier(c, claims))
             => Earlier(d, claims) = Earlier(c, claims)
    BY <1>1, <2>1, FS_Subset
  <2> QED
    BY <1>1, <2>2, <2>3
<1>4. Cardinality(claims) \in Nat
  BY FS_CardinalityType
<1> QED
  BY <1>1, <1>2, <1>3, <1>4

Numbered(claims) == {[c EXCEPT !.arrival = Cardinality(Earlier(c, claims))] : c \in claims}

(* The claims of step three are those it found, each with a number.        *)
LEMMA NumberedClaims ==
  ASSUME NEW claims \in SUBSET ClaimRows, IsFiniteSet(claims)
  PROVE  /\ Numbered(claims) \in SUBSET ClaimRows
         /\ IsFiniteSet(Numbered(claims))
         /\ Cardinality(claims) \in Nat
         /\ \A e \in Numbered(claims) : \E c \in claims :
              /\ e.id = c.id /\ e.state = c.state /\ e.reason = c.reason
              /\ e.ended = c.ended /\ e.activated = c.activated
              /\ e = [c EXCEPT !.arrival = Cardinality(Earlier(c, claims))]
              /\ e.arrival = Cardinality(Earlier(c, claims))
         /\ {e.id : e \in Numbered(claims)} = {c.id : c \in claims}
<1>1. \A c \in claims : Cardinality(Earlier(c, claims)) \in Nat
  BY EarlierGrows, FS_CardinalityType
<1>2. Numbered(claims) \in SUBSET ClaimRows
  BY <1>1 DEF Numbered, ClaimRows
<1> DEFINE f == [c \in claims |-> [c EXCEPT !.arrival = Cardinality(Earlier(c, claims))]]
<1>3. f \in Surjection(claims, Numbered(claims))
  BY DEF Surjection, Numbered
<1>4. IsFiniteSet(Numbered(claims))
  BY <1>3, FS_Surjection
<1>5. \A e \in Numbered(claims) : \E c \in claims :
              /\ e.id = c.id /\ e.state = c.state /\ e.reason = c.reason
              /\ e.ended = c.ended /\ e.activated = c.activated
              /\ e = [c EXCEPT !.arrival = Cardinality(Earlier(c, claims))]
              /\ e.arrival = Cardinality(Earlier(c, claims))
  BY DEF Numbered, ClaimRows
<1>6. ASSUME NEW c \in claims
      PROVE  \E e \in Numbered(claims) : e.id = c.id
  <2> DEFINE e == [c EXCEPT !.arrival = Cardinality(Earlier(c, claims))]
  <2>1. e \in Numbered(claims)
    BY DEF Numbered
  <2>2. e.id = c.id
    BY DEF ClaimRows
  <2> QED
    BY <2>1, <2>2
<1>7. {e.id : e \in Numbered(claims)} = {c.id : c \in claims}
  BY <1>5, <1>6
<1> QED
  BY <1>2, <1>4, <1>5, <1>7, FS_CardinalityType

(* Whoever was ahead in the store a at version v is ahead in b at w.       *)
Kept(v, a, w, b) ==
  /\ {e.id : e \in b.claims} = {c.id : c \in a.claims}
  /\ \A c, d \in a.claims, e, f \in b.claims :
       e.id = c.id /\ f.id = d.id /\ Before(v, c, d) => Before(w, e, f)

LEMMA KeptByItself ==
  ASSUME NEW v, NEW rows, Sound(v, rows)
  PROVE  Kept(v, rows, v, rows)
BY DEF Kept, Sound

(* A step changes no claim but in step three, and no budget.               *)
LEMMA StepFrame ==
  ASSUME NEW v \in 1 .. 11, NEW rows \in Stores
  PROVE  /\ Stepped(v, rows).budget = rows.budget
         /\ Stepped(v, rows).tabs = rows.tabs
         /\ Stepped(v, rows).events = rows.events
         /\ v \notin {1, 9} => Stepped(v, rows).browsers = rows.browsers
         /\ v # 3 => /\ Stepped(v, rows).claims = rows.claims
                     /\ Stepped(v, rows).next = rows.next
         /\ v = 3 => /\ Stepped(v, rows).claims = Numbered(rows.claims)
                     /\ Stepped(v, rows).next = Cardinality(rows.claims)
         /\ Stepped(v, rows) = [browsers |-> Stepped(v, rows).browsers,
                                claims |-> Stepped(v, rows).claims, tabs |-> rows.tabs,
                                events |-> rows.events, next |-> Stepped(v, rows).next,
                                budget |-> rows.budget, dangling |-> rows.dangling]
<1>1. rows = [browsers |-> rows.browsers, claims |-> rows.claims, tabs |-> rows.tabs,
              events |-> rows.events, next |-> rows.next, budget |-> rows.budget,
              dangling |-> rows.dangling]
  BY DEF Stores
<1>2. CASE v = 1
  <2>1. Stepped(v, rows) = StepOne(rows)
    BY <1>2 DEF Stepped
  <2>2. PICK browsers : StepOne(rows) = [rows EXCEPT !.browsers = browsers]
    BY DEF StepOne
  <2> QED
    BY <1>1, <1>2, <2>1, <2>2
<1>3. CASE v = 3
  <2>1. Stepped(v, rows) = StepThree(rows)
    BY <1>3 DEF Stepped
  <2>2. StepThree(rows) = [rows EXCEPT !.claims = Numbered(rows.claims),
                                       !.next = Cardinality(rows.claims)]
    BY DEF StepThree, Numbered
  <2> QED
    BY <1>1, <1>3, <2>1, <2>2
<1>4. CASE v = 9
  <2>1. Stepped(v, rows) = StepNine(rows)
    BY <1>4 DEF Stepped
  <2>2. PICK browsers : StepNine(rows) = [rows EXCEPT !.browsers = browsers]
    BY DEF StepNine
  <2> QED
    BY <1>1, <1>4, <2>1, <2>2
<1>5. CASE v \in {4, 5, 6, 7, 11}
  <2>1. Stepped(v, rows) = rows
    BY <1>5 DEF Stepped, Rebuild
  <2> QED
    BY <1>1, <1>5, <2>1
<1>6. CASE v \in {2, 8, 10}
  <2>1. Stepped(v, rows) = rows
    BY <1>6 DEF Stepped, Widen
  <2> QED
    BY <1>1, <1>6, <2>1
<1> QED
  BY <1>2, <1>3, <1>4, <1>5, <1>6

(* Events a version knows, the next one knows.                             *)
LEMMA EventKindsGrow ==
  ASSUME NEW v \in 0 .. 10
  PROVE  EventKinds(v) \subseteq EventKinds(v + 1)
BY DEF EventKinds

(* Rows a version accepts, the next one accepts once its step has been     *)
(* over them.                                                              *)
LEMMA StepSound ==
  ASSUME NEW v \in 0 .. 10, NEW rows, Sound(v, rows)
  PROVE  Sound(v + 1, Stepped(v + 1, rows))
<1> DEFINE after == Stepped(v + 1, rows)
<1>0. /\ rows \in Stores /\ v + 1 \in 1 .. 11
      /\ rows.browsers \in SUBSET BrowserRows /\ rows.claims \in SUBSET ClaimRows
      /\ rows.tabs \in SUBSET TabRows /\ rows.events \in SUBSET EventRows
      /\ rows.next \in Nat \cup {Null} /\ rows.budget \in Nat \cup {Null}
      /\ rows.dangling \in BOOLEAN /\ IsFiniteSet(rows.claims)
      /\ Legal(v, rows)
  BY DEF Sound, Stores
<1>1. /\ after.budget = rows.budget /\ after.tabs = rows.tabs /\ after.events = rows.events
      /\ v + 1 \notin {1, 9} => after.browsers = rows.browsers
      /\ v + 1 # 3 => after.claims = rows.claims /\ after.next = rows.next
      /\ v + 1 = 3 => /\ after.claims = Numbered(rows.claims)
                      /\ after.next = Cardinality(rows.claims)
      /\ after = [browsers |-> after.browsers, claims |-> after.claims, tabs |-> rows.tabs,
                  events |-> rows.events, next |-> after.next, budget |-> rows.budget,
                  dangling |-> rows.dangling]
  BY <1>0, StepFrame
<1>2. v + 1 = 1 => after.browsers = {[name |-> k, kind |-> Null, state |-> "stopped",
                                     pid |-> FALSE] : k \in Kinds}
  BY <1>0 DEF Stepped, StepOne, Stores
<1>3. v + 1 = 9 => after.browsers =
        {[r EXCEPT !.kind = IF r.name = "private" THEN "private" ELSE "regular"]
           : r \in rows.browsers}
  <2>1. v + 1 = 9 => after = StepNine(rows)
    BY DEF Stepped
  <2> QED
    BY <1>0, <2>1 DEF StepNine, Stores
<1> HIDE DEF after
<1>4. /\ after.browsers \in SUBSET BrowserRows
      /\ \A r \in after.browsers : LegalBrowser(v + 1, r)
  <2>1. CASE v + 1 = 1
    <3>1. ASSUME NEW r \in after.browsers
          PROVE  r \in BrowserRows /\ LegalBrowser(1, r)
      <4>1. PICK k \in Kinds : r = [name |-> k, kind |-> Null, state |-> "stopped", pid |-> FALSE]
        BY <1>2, <2>1
      <4>0. k \in BrowserName
        BY <4>1, StoreOpenAssumption
      <4>2. /\ r.name = k /\ r.kind = Null /\ r.state = "stopped" /\ r.pid = FALSE
            /\ k \in BrowserName
        BY <4>0, <4>1
      <4>3. r \in BrowserRows
        BY <4>1, <4>2 DEF BrowserRows, BrowserStates
      <4> QED
        BY <4>2, <4>3 DEF LegalBrowser, BrowserStates
    <3> QED
      BY <2>1, <3>1
  <2>2. CASE v + 1 = 9
    <3>1. \A r \in rows.browsers : LegalBrowser(8, r)
      BY <1>0, <2>2 DEF Legal
    <3>2. ASSUME NEW r \in after.browsers
          PROVE  r \in BrowserRows /\ LegalBrowser(9, r)
      <4>1. PICK q \in rows.browsers :
              r = [q EXCEPT !.kind = IF q.name = "private" THEN "private" ELSE "regular"]
        BY <1>3, <2>2
      <4>2. q \in BrowserRows /\ LegalBrowser(8, q)
        BY <1>0, <3>1
      <4>3. /\ r \in BrowserRows /\ r.kind \in Kinds
            /\ r.state = q.state /\ r.pid = q.pid
        BY <4>1, <4>2 DEF BrowserRows, Kinds
      <4> QED
        BY <4>2, <4>3 DEF LegalBrowser
    <3> QED
      BY <2>2, <3>2
  <2>3. CASE v + 1 \notin {1, 9}
    <3>1. \A r \in rows.browsers : LegalBrowser(v, r)
      BY <1>0 DEF Legal
    <3> QED
      BY <1>0, <1>1, <2>3, <3>1 DEF BrowserRows, BrowserStates, Kinds, LegalBrowser
  <2> QED
    BY <2>1, <2>2, <2>3
<1>5. /\ after.claims \in SUBSET ClaimRows /\ IsFiniteSet(after.claims)
      /\ after.next \in Nat \cup {Null}
      /\ \A r \in after.claims : LegalClaim(v + 1, r)
      /\ after.next = Null <=> v + 1 < 3
      /\ \A c, d \in after.claims : c.id = d.id => c = d
      /\ v + 1 >= 3 => \A c \in after.claims : c.arrival \in 0 .. after.next
  <2>0. /\ \A r \in rows.claims : LegalClaim(v, r)
        /\ rows.next = Null <=> v < 3
        /\ \A c, d \in rows.claims : c.id = d.id => c = d
        /\ v >= 3 => \A c \in rows.claims : c.arrival \in 0 .. rows.next
    BY DEF Legal, Sound
  <2>1. CASE v + 1 = 3
    <3>1. Cardinality(rows.claims) \in Nat /\ Null \notin Nat
      BY <1>0, NumberedClaims, StoreOpenAssumption
    <3>2. /\ after.claims \in SUBSET ClaimRows /\ IsFiniteSet(after.claims)
          /\ after.next \in Nat
      BY <1>0, <1>1, <2>1, <3>1, NumberedClaims
    <3>3. \A r \in after.claims : \E c \in rows.claims :
            /\ r.id = c.id /\ r.state = c.state /\ r.reason = c.reason
            /\ r.ended = c.ended /\ r.activated = c.activated
            /\ r = [c EXCEPT !.arrival = Cardinality(Earlier(c, rows.claims))]
            /\ r.arrival = Cardinality(Earlier(c, rows.claims))
      BY <1>0, <1>1, <2>1, NumberedClaims
    <3>4. \A r \in after.claims : LegalClaim(v + 1, r)
      BY <2>0, <2>1, <3>3 DEF LegalClaim
    <3>5. \A c, d \in after.claims : c.id = d.id => c = d
      BY <2>0, <3>3
    <3>6. \A c \in after.claims : c.arrival \in 0 .. after.next
      BY <1>0, <1>1, <2>1, <3>3, EarlierGrows
    <3> QED
      BY <2>1, <3>1, <3>2, <3>4, <3>5, <3>6
  <2>2. CASE v + 1 # 3
    BY <1>0, <1>1, <2>0, <2>2 DEF LegalClaim
  <2> QED
    BY <2>1, <2>2
<1>6. \A r \in rows.tabs : LegalTab(v + 1, r)
  BY <1>0 DEF Legal, LegalTab
<1>7. \A r \in rows.events : LegalEvent(v + 1, r)
  BY <1>0, EventKindsGrow DEF Legal, LegalEvent
<1>8. Legal(v + 1, after)
  <2>1. OneRowPerPhysicalTab(after.tabs)
    BY <1>0, <1>1 DEF Legal
  <2>2. after.budget # Null => v + 1 >= 2
    BY <1>0, <1>1 DEF Legal
  <2> QED
    BY <1>1, <1>4, <1>5, <1>6, <1>7, <2>1, <2>2 DEF Legal
<1>9. after \in Stores
  BY <1>0, <1>1, <1>4, <1>5 DEF Stores
<1> QED
  BY <1>0, <1>5, <1>8, <1>9 DEF Sound, after

(* Whoever is ahead stays ahead over one more step.                        *)
LEMMA StepKeeps ==
  ASSUME NEW v \in 0 .. 11, NEW a, NEW w \in v .. 10, NEW b,
         Sound(w, b), Kept(v, a, w, b)
  PROVE  Kept(v, a, w + 1, Stepped(w + 1, b))
<1> DEFINE after == Stepped(w + 1, b)
<1>0. /\ b \in Stores /\ w + 1 \in 1 .. 11
      /\ b.claims \in SUBSET ClaimRows /\ IsFiniteSet(b.claims)
  BY DEF Sound, Stores
<1>1. /\ w + 1 # 3 => after.claims = b.claims
      /\ w + 1 = 3 => after.claims = Numbered(b.claims)
  BY <1>0, StepFrame
<1> HIDE DEF after
<1>2. CASE w + 1 # 3
  BY <1>1, <1>2 DEF Kept, Before, after
<1>3. CASE w + 1 = 3
  <2>1. /\ {e.id : e \in after.claims} = {c.id : c \in a.claims}
        /\ \A e \in after.claims : \E x \in b.claims :
             e.id = x.id /\ e.arrival = Cardinality(Earlier(x, b.claims))
    BY <1>0, <1>1, <1>3, NumberedClaims DEF Kept
  <2>2. ASSUME NEW c \in a.claims, NEW d \in a.claims,
               NEW e \in after.claims, NEW f \in after.claims,
               e.id = c.id, f.id = d.id, Before(v, c, d)
        PROVE  Before(3, e, f)
    <3>1. PICK x \in b.claims : e.id = x.id /\ e.arrival = Cardinality(Earlier(x, b.claims))
      BY <2>1
    <3>2. PICK y \in b.claims : f.id = y.id /\ f.arrival = Cardinality(Earlier(y, b.claims))
      BY <2>1
    <3>3. Before(w, x, y)
      BY <2>2, <3>1, <3>2 DEF Kept
    <3>4. Before(2, x, y)
      BY <1>3, <3>3
    <3> QED
      BY <1>0, <3>1, <3>2, <3>4, EarlierGrows DEF Before
  <2> QED
    BY <1>3, <2>1, <2>2 DEF Kept, after
<1> QED
  BY <1>2, <1>3

-----------------------------------------------------------------------------
(* The invariant.                                                          *)

(* What a process in the middle of an upgrade has written so far is the    *)
(* file with some of its steps taken.                                      *)
DraftIsAhead(p) ==
  \E k \in version .. Build[p] :
    /\ draft.applied = Steps(k) /\ Sound(k, draft.db)
    /\ Kept(version, db, k, draft.db) /\ draft.db.budget = db.budget

Opening(p) ==
  /\ at[p] \in {"converting", "stepping"} => writer = p
  /\ at[p] \notin {"new", "refused"} => Usable(env[p])
  /\ at[p] = "stepping" => DraftIsAhead(p)
  /\ at[p] \in {"stepped", "serving"} => version >= Build[p]
  /\ at[p] \in {"open", "stepped", "serving"} => fk[p] = TRUE
  /\ at[p] = "serving" => db.budget = Tabs(p)

Typed ==
  /\ Sound(version, db) /\ applied = Steps(version)
  /\ writer \in Proc \cup {Null}
  /\ at \in [Proc -> Stage] /\ fk \in [Proc -> BOOLEAN]
  /\ env = [p \in Proc |-> env[p]]

StoreInv == Typed /\ \A p \in Proc : Opening(p)

LEMMA InitInv == Init => StoreInv
<1> SUFFICES ASSUME Init PROVE StoreInv
  OBVIOUS
<1>1. Sound(version, db) /\ applied = Steps(version)
  BY StoreOpenAssumption DEF Init, Steps
<1>2. Typed
  BY <1>1 DEF Init, Typed, Stage
<1>3. ASSUME NEW p \in Proc PROVE Opening(p)
  BY DEF Init, Opening
<1> QED
  BY <1>2, <1>3 DEF StoreInv

(* A step of one process that leaves the file, the lock and the draft      *)
(* alone.                                                                  *)
LEMMA OthersStay ==
  ASSUME StoreInv, NEW p \in Proc, NEW q \in Proc, q # p,
         UNCHANGED <<file, writer, draft>>,
         at'[q] = at[q], fk'[q] = fk[q], env'[q] = env[q]
  PROVE  Opening(q)'
<1>1. Opening(q)
  BY DEF StoreInv
<1>2. DraftIsAhead(q) => DraftIsAhead(q)'
  BY DEF DraftIsAhead, file
<1> QED
  BY <1>1, <1>2 DEF Opening, Tabs, file

LEMMA OpenFileInv ==
  ASSUME StoreInv, NEW p \in Proc, OpenFile(p)
  PROVE  StoreInv'
<1>0. Typed /\ Opening(p) /\ p # Null
  BY StoreOpenAssumption DEF StoreInv
<1>1. PICK e \in Environments[p] :
        /\ env' = [env EXCEPT ![p] = e]
        /\ \/ at' = [at EXCEPT ![p] = "refused"] /\ writer' = writer
              /\ fk' = [fk EXCEPT ![p] = FALSE]
           \/ at' = [at EXCEPT ![p] = "open"] /\ writer' = writer /\ Usable(e)
              /\ fk' = [fk EXCEPT ![p] = TRUE]
           \/ /\ at' = [at EXCEPT ![p] = "converting"] /\ writer = Null
              /\ writer' = p /\ Usable(e) /\ fk' = fk
  BY DEF OpenFile, Refuse, Go
<1>2. UNCHANGED <<file, wal, draft, observed>> /\ at[p] = "new"
  BY DEF OpenFile
<1>3. Typed'
  BY <1>0, <1>1, <1>2 DEF Typed, Stage, file
<1>4. Opening(p)'
  BY <1>0, <1>1, <1>2 DEF Typed, Opening
<1>5. ASSUME NEW q \in Proc, q # p PROVE Opening(q)'
  <2>1. at'[q] = at[q] /\ fk'[q] = fk[q] /\ env'[q] = env[q]
    BY <1>0, <1>1, <1>5 DEF Typed
  <2>2. CASE writer' = writer
    BY <1>2, <1>5, <2>1, <2>2, OthersStay DEF file
  <2>3. CASE writer = Null
    <3>1. at[q] \notin {"converting", "stepping"}
      BY <2>3, StoreOpenAssumption DEF StoreInv, Opening
    <3> QED
      BY <1>2, <2>1, <3>1 DEF StoreInv, Opening, Tabs, file
  <2> QED
    BY <1>1, <2>2, <2>3
<1> QED
  BY <1>3, <1>4, <1>5 DEF StoreInv

LEMMA ConvertInv ==
  ASSUME StoreInv, NEW p \in Proc, Convert(p)
  PROVE  StoreInv'
<1>0. Typed /\ Opening(p)
  BY DEF StoreInv
<1>1. /\ at' = [at EXCEPT ![p] = "open"] /\ fk' = [fk EXCEPT ![p] = TRUE]
      /\ at[p] = "converting" /\ writer' = Null /\ UNCHANGED <<file, draft, env, observed>>
  BY DEF Convert, Go
<1>2. Typed'
  BY <1>0, <1>1 DEF Typed, Stage, file
<1>3. Opening(p)'
  BY <1>0, <1>1 DEF Typed, Opening
<1>4. ASSUME NEW q \in Proc, q # p PROVE Opening(q)'
  <2>1. at'[q] = at[q] /\ fk'[q] = fk[q] /\ env'[q] = env[q]
    BY <1>0, <1>1, <1>4 DEF Typed
  <2>2. at[q] \notin {"converting", "stepping"}
    BY <1>0, <1>1, <1>4 DEF StoreInv, Opening
  <2> QED
    BY <1>1, <2>1, <2>2 DEF StoreInv, Opening, Tabs, file
<1> QED
  BY <1>2, <1>3, <1>4 DEF StoreInv

LEMMA ReadVersionInv ==
  ASSUME StoreInv, NEW p \in Proc, ReadVersion(p) \/ Blocked(p)
  PROVE  StoreInv'
<1>0. Typed /\ Opening(p) /\ Build[p] \in Int /\ version \in Int
  BY StoreOpenAssumption DEF StoreInv, Typed, Sound
<1>1. /\ UNCHANGED <<file, wal, writer, draft, env>>
      /\ \/ at' = [at EXCEPT ![p] = "refused"] /\ fk' = [fk EXCEPT ![p] = FALSE]
         \/ at' = [at EXCEPT ![p] = "stepped"] /\ fk' = fk /\ version = Build[p] /\ at[p] = "open"
         \/ at' = [at EXCEPT ![p] = "read"] /\ fk' = [fk EXCEPT ![p] = FALSE] /\ at[p] = "open"
  BY DEF ReadVersion, Blocked, Refuse, Go
<1>2. Typed'
  BY <1>0, <1>1 DEF Typed, Stage, file
<1>3. Opening(p)'
  BY <1>0, <1>1 DEF Typed, Opening, file
<1>4. ASSUME NEW q \in Proc, q # p PROVE Opening(q)'
  <2>1. at'[q] = at[q] /\ fk'[q] = fk[q] /\ env'[q] = env[q]
    BY <1>0, <1>1, <1>4 DEF Typed
  <2> QED
    BY <1>1, <1>4, <2>1, OthersStay
<1> QED
  BY <1>2, <1>3, <1>4 DEF StoreInv

LEMMA BeginSteppingInv ==
  ASSUME StoreInv, NEW p \in Proc, BeginStepping(p)
  PROVE  StoreInv'
<1>0. Typed /\ Opening(p) /\ Build[p] \in Int /\ version \in Int /\ p # Null
  BY StoreOpenAssumption DEF StoreInv, Typed, Sound
<1>1. /\ at[p] = "read" /\ writer = Null /\ UNCHANGED <<file, wal, env, observed>>
      /\ \/ /\ at' = [at EXCEPT ![p] = "refused"] /\ fk' = [fk EXCEPT ![p] = FALSE]
            /\ UNCHANGED <<writer, draft>>
         \/ /\ at' = [at EXCEPT ![p] = "stepped"] /\ fk' = [fk EXCEPT ![p] = TRUE]
            /\ version = Build[p] /\ UNCHANGED <<writer, draft>>
         \/ /\ at' = [at EXCEPT ![p] = "stepping"] /\ fk' = fk /\ version < Build[p]
            /\ writer' = p /\ draft' = [applied |-> Steps(version), db |-> db]
  BY DEF BeginStepping, VersionInside, Refuse, Go, Steps
<1>2. Typed'
  BY <1>0, <1>1 DEF Typed, Stage, file
<1>3. Opening(p)'
  <2>1. CASE at' = [at EXCEPT ![p] = "stepping"]
    <3>1. /\ writer' = p /\ draft'.applied = Steps(version) /\ draft'.db = db
          /\ version < Build[p] /\ at'[p] = "stepping"
      BY <1>0, <1>1, <2>1 DEF Typed
    <3>2. Sound(version, db) /\ Kept(version, db, version, db)
      BY <1>0, KeptByItself DEF Typed
    <3>3. version \in version .. Build[p]
      BY <1>0, <3>1
    <3>4. DraftIsAhead(p)'
      BY <1>1, <3>1, <3>2, <3>3 DEF DraftIsAhead, file
    <3> QED
      BY <1>0, <1>1, <3>1, <3>4 DEF Opening
  <2>2. CASE at' # [at EXCEPT ![p] = "stepping"]
    BY <1>0, <1>1, <2>2 DEF Typed, Opening, file
  <2> QED
    BY <2>1, <2>2
<1>4. ASSUME NEW q \in Proc, q # p PROVE Opening(q)'
  <2>1. at'[q] = at[q] /\ fk'[q] = fk[q] /\ env'[q] = env[q]
    BY <1>0, <1>1, <1>4 DEF Typed
  <2>2. at[q] \notin {"converting", "stepping"}
    BY <1>1, StoreOpenAssumption DEF StoreInv, Opening
  <2> QED
    BY <1>1, <2>1, <2>2 DEF StoreInv, Opening, Tabs, file
<1> QED
  BY <1>2, <1>3, <1>4 DEF StoreInv

LEMMA ApplyStepInv ==
  ASSUME StoreInv, NEW p \in Proc, ApplyStep(p)
  PROVE  StoreInv'
<1>0. Typed /\ Opening(p) /\ Build[p] \in 2 .. 11 /\ version \in 0 .. 11
  BY StoreOpenAssumption DEF StoreInv, Typed, Sound
<1>1. /\ at[p] = "stepping" /\ writer = p
      /\ UNCHANGED <<file, wal, writer, env, at, observed, fk>>
  BY <1>0 DEF ApplyStep, Opening
<1>2. PICK k \in version .. Build[p] :
        /\ draft.applied = Steps(k) /\ Sound(k, draft.db)
        /\ Kept(version, db, k, draft.db) /\ draft.db.budget = db.budget
  BY <1>0, <1>1 DEF Opening, DraftIsAhead
<1>3. k \in 0 .. 11 /\ k \in Nat /\ Len(draft.applied) = k
  <2>1. k \in 0 .. 11 /\ k \in Nat
    BY <1>0, <1>2
  <2>2. Len(Steps(k)) = k
    BY <2>1, StepsAppend
  <2> QED
    BY <1>2, <2>1, <2>2
<1>4. /\ k + 1 <= Build[p]
      /\ draft'.applied = Steps(k + 1) /\ draft'.db = Stepped(k + 1, draft.db)
  BY <1>2, <1>3, StepsAppend DEF ApplyStep
<1>5. k \in 0 .. 10 /\ k \in version .. 10 /\ k + 1 \in version .. Build[p]
  BY <1>0, <1>2, <1>3, <1>4
<1>6. Sound(k + 1, draft'.db) /\ Kept(version, db, k + 1, draft'.db)
  BY <1>0, <1>2, <1>4, <1>5, StepSound, StepKeeps
<1>7. draft'.db.budget = db.budget
  BY <1>2, <1>4, <1>5, StepFrame DEF Sound
<1>8. DraftIsAhead(p)'
  BY <1>1, <1>4, <1>5, <1>6, <1>7 DEF DraftIsAhead, file
<1>9. Typed'
  BY <1>0, <1>1 DEF Typed, file
<1>10. ASSUME NEW q \in Proc PROVE Opening(q)'
  <2>1. CASE q = p
    BY <1>0, <1>1, <1>8, <2>1 DEF Opening, Tabs, file
  <2>2. CASE q # p
    BY <1>1, <2>2 DEF StoreInv, Opening, Tabs, file
  <2> QED
    BY <2>1, <2>2
<1> QED
  BY <1>9, <1>10 DEF StoreInv

LEMMA CommitStepsInv ==
  ASSUME StoreInv, NEW p \in Proc, CommitSteps(p)
  PROVE  StoreInv' /\ (UNCHANGED <<version, db>> \/ Kept(version, db, version', db'))
<1>0. Typed /\ Opening(p) /\ Build[p] \in 2 .. 11 /\ version \in 0 .. 11
  BY StoreOpenAssumption DEF StoreInv, Typed, Sound
<1>1. /\ at[p] = "stepping" /\ writer = p /\ Len(draft.applied) = Build[p]
      /\ writer' = Null /\ UNCHANGED <<wal, env, observed>>
  BY <1>0 DEF CommitSteps, Opening
<1>2. PICK k \in version .. Build[p] :
        /\ draft.applied = Steps(k) /\ Sound(k, draft.db)
        /\ Kept(version, db, k, draft.db) /\ draft.db.budget = db.budget
  BY <1>0, <1>1 DEF Opening, DraftIsAhead
<1>3. k = Build[p] /\ k \in Nat
  <2>1. k \in Nat
    BY <1>0, <1>2
  <2>2. Len(Steps(k)) = k
    BY <2>1, StepsAppend
  <2> QED
    BY <1>1, <1>2, <2>1, <2>2
<1>4. ASSUME NEW q \in Proc, q # p
      PROVE  at[q] \notin {"converting", "stepping"}
  BY <1>1, <1>4 DEF StoreInv, Opening
<1>5. CASE draft.db.dangling
  <2>1. /\ at' = [at EXCEPT ![p] = "refused"] /\ fk' = [fk EXCEPT ![p] = FALSE]
        /\ UNCHANGED file
    BY <1>5 DEF CommitSteps, Refuse, Go
  <2>2. Typed'
    BY <1>0, <1>1, <2>1 DEF Typed, Stage, file
  <2>3. ASSUME NEW q \in Proc PROVE Opening(q)'
    <3>1. CASE q = p
      BY <1>0, <1>1, <2>1, <3>1 DEF Typed, Opening
    <3>2. CASE q # p
      <4>1. at'[q] = at[q] /\ fk'[q] = fk[q] /\ env'[q] = env[q]
        BY <1>0, <1>1, <2>1, <3>2 DEF Typed
      <4> QED
        BY <1>4, <2>1, <3>2, <4>1 DEF StoreInv, Opening, Tabs, file
    <3> QED
      BY <3>1, <3>2
  <2> QED
    BY <2>1, <2>2, <2>3 DEF StoreInv, file
<1>6. CASE ~draft.db.dangling
  <2>1. /\ at' = [at EXCEPT ![p] = "stepped"] /\ fk' = [fk EXCEPT ![p] = TRUE]
        /\ version' = k /\ db' = draft.db
        /\ applied' = applied \o SubSeq(draft.applied, version + 1, k)
    BY <1>3, <1>6 DEF CommitSteps, VersionInside, Go
  <2>2. applied' = Steps(k)
    <3>1. version \in Nat /\ version <= k /\ applied = Steps(version)
      BY <1>0, <1>2 DEF Typed
    <3>2. Steps(version) \o SubSeq(Steps(k), version + 1, k) = Steps(k)
      BY <1>3, <3>1, StepsConcat
    <3> QED
      BY <1>2, <2>1, <3>1, <3>2
  <2>3. Typed'
    BY <1>0, <1>1, <1>2, <2>1, <2>2 DEF Typed, Stage
  <2>4. ASSUME NEW q \in Proc PROVE Opening(q)'
    <3>1. CASE q = p
      BY <1>0, <1>1, <1>3, <2>1, <3>1 DEF Typed, Opening
    <3>2. CASE q # p
      <4>1. at'[q] = at[q] /\ fk'[q] = fk[q] /\ env'[q] = env[q]
        BY <1>0, <1>1, <2>1, <3>2 DEF Typed
      <4>2. /\ Build[q] \in Int /\ version \in Int /\ k \in Int /\ version <= k
            /\ version' = k /\ db'.budget = db.budget
        <5>1. Build[q] \in Int
          BY StoreOpenAssumption
        <5>2. version \in Int /\ k \in Int /\ version <= k
          BY <1>0, <1>2, <1>3
        <5>3. version' = k /\ db'.budget = db.budget
          BY <1>2, <2>1
        <5> QED
          BY <5>1, <5>2, <5>3
      <4>3. Opening(q) /\ at[q] \notin {"converting", "stepping"}
        BY <1>4, <3>2 DEF StoreInv
      <4> QED
        BY <4>1, <4>2, <4>3 DEF Opening, Tabs
    <3> QED
      BY <3>1, <3>2
  <2> QED
    BY <1>2, <2>1, <2>3, <2>4 DEF StoreInv
<1> QED
  BY <1>5, <1>6

LEMMA ReadAndRecordInv ==
  ASSUME StoreInv, NEW p \in Proc, ReadAndRecord(p)
  PROVE  /\ StoreInv' /\ version' = version
         /\ db'.claims = db.claims /\ db'.next = db.next
<1>0. /\ Typed /\ Opening(p) /\ Build[p] \in 2 .. 11 /\ version \in 0 .. 11
      /\ db \in Stores /\ Legal(version, db)
  BY StoreOpenAssumption DEF StoreInv, Typed, Sound
<1>1. /\ at[p] = "stepped" /\ writer = Null
      /\ db' = [db EXCEPT !.budget = RecordedBudget(p)]
      /\ UNCHANGED <<version, applied, wal, writer, draft, env, observed>>
      /\ \/ RecordedBudget(p) = Tabs(p) /\ at' = [at EXCEPT ![p] = "serving"] /\ fk' = fk
         \/ at' = [at EXCEPT ![p] = "refused"] /\ fk' = [fk EXCEPT ![p] = FALSE]
  BY DEF ReadAndRecord, Refuse, Go
<1>2. Tabs(p) \in Nat /\ version >= 2
  BY <1>0, <1>1, BudgetIsNumber DEF Opening, Tabs
<1>3. /\ db'.browsers = db.browsers /\ db'.claims = db.claims /\ db'.tabs = db.tabs
      /\ db'.events = db.events /\ db'.next = db.next /\ db'.dangling = db.dangling
      /\ db'.budget = RecordedBudget(p) /\ db' \in Stores
  BY <1>0, <1>1, <1>2 DEF Stores, RecordedBudget
<1>4. Sound(version, db')
  <2>1. Legal(version, db')
    BY <1>0, <1>2, <1>3 DEF Legal
  <2> QED
    BY <1>0, <1>3, <2>1 DEF Sound, Typed
<1>5. Typed'
  BY <1>0, <1>1, <1>4 DEF Typed, Stage
<1>6. ASSUME NEW q \in Proc PROVE Opening(q)'
  <2>0. Opening(q) /\ at[q] \notin {"converting", "stepping"}
    BY <1>1, StoreOpenAssumption DEF StoreInv, Opening
  <2>1. CASE q = p
    BY <1>0, <1>1, <1>3, <2>1 DEF Typed, Opening, Tabs
  <2>2. CASE q # p
    <3>1. at'[q] = at[q] /\ fk'[q] = fk[q] /\ env'[q] = env[q]
      BY <1>0, <1>1, <2>2 DEF Typed
    <3>2. at[q] = "serving" => db'.budget = Tabs(q)
      <4>1. at[q] = "serving" => db.budget = Tabs(q) /\ Tabs(q) \in Nat
        BY <2>0, BudgetIsNumber DEF Opening, Tabs
      <4> QED
        BY <1>3, <4>1, StoreOpenAssumption DEF RecordedBudget
    <3> QED
      BY <1>1, <2>0, <3>1, <3>2 DEF Opening, Tabs
  <2> QED
    BY <2>1, <2>2
<1> QED
  BY <1>1, <1>3, <1>5, <1>6 DEF StoreInv

LEMMA ExitInv ==
  ASSUME StoreInv, NEW p \in Proc, Exit(p)
  PROVE  StoreInv'
<1>0. Typed /\ Opening(p)
  BY DEF StoreInv
<1>1. /\ at' = [at EXCEPT ![p] = "new"] /\ fk' = [fk EXCEPT ![p] = FALSE]
      /\ env' = [env EXCEPT ![p] = Null] /\ UNCHANGED <<file, wal>>
      /\ writer' = (IF writer = p THEN Null ELSE writer)
      /\ draft' = (IF writer = p THEN NoDraft ELSE draft)
  BY DEF Exit, Go
<1>2. Typed'
  BY <1>0, <1>1 DEF Typed, Stage, file
<1>3. Opening(p)'
  BY <1>0, <1>1 DEF Typed, Opening
<1>4. ASSUME NEW q \in Proc, q # p PROVE Opening(q)'
  <2>1. at'[q] = at[q] /\ fk'[q] = fk[q] /\ env'[q] = env[q]
    BY <1>0, <1>1, <1>4 DEF Typed
  <2>2. CASE writer # p
    BY <1>1, <1>4, <2>1, <2>2, OthersStay DEF file
  <2>3. CASE writer = p
    <3>1. at[q] \notin {"converting", "stepping"}
      BY <1>4, <2>3 DEF StoreInv, Opening
    <3> QED
      BY <1>1, <2>1, <3>1 DEF StoreInv, Opening, Tabs, file
  <2> QED
    BY <2>2, <2>3
<1> QED
  BY <1>2, <1>3, <1>4 DEF StoreInv

(* Every step keeps the invariant.                                         *)
LEMMA NextInv ==
  ASSUME StoreInv, [Next]_vars
  PROVE  StoreInv'
<1>1. ASSUME NEW p \in Proc,
             OpenFile(p) \/ Convert(p) \/ ReadVersion(p) \/ Blocked(p) \/ BeginStepping(p)
               \/ ApplyStep(p) \/ CommitSteps(p) \/ ReadAndRecord(p) \/ Exit(p)
      PROVE  StoreInv'
  BY <1>1, OpenFileInv, ConvertInv, ReadVersionInv, BeginSteppingInv, ApplyStepInv,
     CommitStepsInv, ReadAndRecordInv, ExitInv
<1>2. CASE UNCHANGED vars
  <2>1. Typed'
    BY <1>2 DEF StoreInv, Typed, vars, file
  <2>2. ASSUME NEW p \in Proc PROVE Opening(p)'
    BY <1>2 DEF StoreInv, Opening, DraftIsAhead, Tabs, vars, file
  <2> QED
    BY <2>1, <2>2 DEF StoreInv
<1> QED
  BY <1>1, <1>2 DEF Next

LEMMA StoreInvHolds == Spec => []StoreInv
BY InitInv, NextInv, PTL DEF Spec

-----------------------------------------------------------------------------
(* The theorems.                                                           *)

(* Whoever upgrades the store, and wherever one of them dies, the file     *)
(* holds the steps up to its version, in order, and rows that version      *)
(* accepts.                                                                *)
THEOREM UpgradesAreWhole == Spec => []StoreIsWhole
<1>1. StoreInv => StoreIsWhole
  BY DEF StoreInv, Typed, Sound, Steps, StoreIsWhole
<1> QED
  BY <1>1, StoreInvHolds, PTL

(* A process that serves agrees with the store on the budget, has all of   *)
(* its tables, and checks foreign keys.                                    *)
THEOREM ServersAgree == Spec => []ServesItsStore
<1>1. StoreInv => ServesItsStore
  BY DEF StoreInv, Opening, ServesItsStore
<1> QED
  BY <1>1, StoreInvHolds, PTL

(* A queue keeps its members and their order through any upgrade.          *)
THEOREM QueueSurvivesUpgrade == Spec => UpgradeKeepsQueue
<1> DEFINE KeptNow ==
      /\ \A c, d \in db.claims, e, f \in db'.claims :
           e.id = c.id /\ f.id = d.id /\ Before(version, c, d)
             => Before(version', e, f)
      /\ {c.id : c \in db'.claims} = {c.id : c \in db.claims}
      /\ version' >= 3 => \A c \in db'.claims : c.arrival <= db'.next
<1>1. ASSUME StoreInv, [Next]_vars PROVE KeptNow
  <2>0. Sound(version, db) /\ StoreInv'
    BY <1>1, NextInv DEF StoreInv, Typed
  <2>1. version' >= 3 => \A c \in db'.claims : c.arrival <= db'.next
    BY <2>0 DEF StoreInv, Typed, Sound
  <2>2. Kept(version, db, version, db)
    BY <2>0, KeptByItself
  <2>3. ASSUME version' = version, db'.claims = db.claims PROVE KeptNow
    BY <2>1, <2>2, <2>3 DEF Kept
  <2>4. ASSUME NEW p \in Proc, CommitSteps(p) PROVE KeptNow
    <3>1. UNCHANGED <<version, db>> \/ Kept(version, db, version', db')
      BY <1>1, <2>4, CommitStepsInv
    <3> QED
      BY <2>1, <2>3, <3>1 DEF Kept
  <2>5. ASSUME NEW p \in Proc, ReadAndRecord(p) PROVE KeptNow
    BY <1>1, <2>3, <2>5, ReadAndRecordInv
  <2>6. ASSUME NEW p \in Proc,
               OpenFile(p) \/ Convert(p) \/ ReadVersion(p) \/ Blocked(p)
                 \/ BeginStepping(p) \/ ApplyStep(p) \/ Exit(p)
        PROVE  KeptNow
    <3>1. version' = version /\ db' = db
      BY <2>6 DEF OpenFile, Convert, ReadVersion, Blocked, BeginStepping, ApplyStep, Exit, file
    <3> QED
      BY <2>3, <3>1
  <2>7. CASE UNCHANGED vars
    BY <2>3, <2>7 DEF vars, file
  <2> QED
    BY <1>1, <2>4, <2>5, <2>6, <2>7 DEF Next
<1>2. StoreInv /\ [Next]_vars => [KeptNow]_vars
  BY <1>1
<1> QED
  BY <1>2, StoreInvHolds, PTL DEF Spec, UpgradeKeepsQueue

-----------------------------------------------------------------------------
(* What the doctor reports.                                                *)

Groups == {"store", "automation", "roots", "browsers", "capture", "keeper",
           "budget", "session"}

(* The groups a report's checks can be in; one check is about the budget.  *)
LEMMA ReportGroups ==
  ASSUME NEW elsewhere, NEW found, NEW expected, NEW stored, NEW configured, NEW m,
         NEW c \in Checks(elsewhere, found, expected, stored, configured, m)
  PROVE  /\ c.group \in Groups
         /\ c.group = "budget" => c = CheckTabBudget(stored, configured)
<1>1. \A status : \A group \in Groups : Check(group, status).group = group
  BY DEF Check
<1>2. CheckStoreLocation(elsewhere).group = "store"
  BY <1>1 DEF CheckStoreLocation, Judge, Groups
<1>3. CheckStorePresent(m.file).group = "store"
  BY <1>1 DEF CheckStorePresent, Judge, Groups
<1>4. CheckSchemaVersion(found, expected).group = "store"
  BY <1>1 DEF CheckSchemaVersion, Judge, Groups
<1>5. CheckTabBudget(stored, configured).group = "budget"
  BY <1>1 DEF CheckTabBudget, Judge, Groups
<1>6. \A stranded : CheckStrandedTabs(stranded).group = "store"
  BY <1>1 DEF CheckStrandedTabs, Groups
<1>7. CheckAutomation(m.automation).group = "automation"
  BY <1>1 DEF CheckAutomation, Judge, Groups
<1>8. \A root : CheckRootWritable(root).group = "roots"
  BY <1>1 DEF CheckRootWritable, Judge, Groups
<1>9. CheckDiscoveryRecord(m.discovery).group = "browsers"
  BY <1>1 DEF CheckDiscoveryRecord, Judge, Groups
<1>10. CheckCaptureSurface(Null).group = "capture"
  BY <1>1 DEF CheckCaptureSurface, Groups
<1>11. CheckKeeperTab(m.keeper).group = "keeper"
  BY <1>1 DEF CheckKeeperTab, Judge, Groups
<1>12. \A running : CheckSignInSession(m.profile, running).group = "session"
  BY <1>1 DEF CheckSignInSession, Groups
<1>13. \A owner : CheckAbandonedSignIn(owner).group = "session"
  BY <1>1 DEF CheckAbandonedSignIn, Judge, Groups
<1>14. \/ c = CheckTabBudget(stored, configured)
       \/ c.group \in Groups \ {"budget"}
  BY <1>2, <1>3, <1>4, <1>6, <1>7, <1>8, <1>9, <1>10, <1>11, <1>12, <1>13
     DEF Checks, Groups
<1> QED
  BY <1>5, <1>14 DEF Groups

(* A failed check of the store decides the exit code.                      *)
LEMMA StoreFaultIsLowest ==
  ASSUME NEW checks, \A c \in checks : c.group \in Groups,
         NEW c \in checks, c.group = "store", c.status = "failed"
  PROVE  ExitCode(checks) = DoctorExit.store
<1>0. /\ \A g \in Groups : DoctorExit[g] \in 10 .. 17
      /\ DoctorExit["store"] = 10 /\ DoctorExit.store = 10
  BY DEF Groups, DoctorExit
<1> DEFINE failed == {DoctorExit[d.group] : d \in {d \in checks : d.status = "failed"}}
<1>1. 10 \in failed /\ \A n \in failed : n \in 10 .. 17
  BY <1>0
<1> HIDE DEF failed
<1>2. Min(failed) = 10
  <2>1. \A x \in failed : (\A y \in failed : x <= y) <=> x = 10
    BY <1>1
  <2> QED
    BY <1>1, <2>1 DEF Min
<1>3. ExitCode(checks) = Min(failed)
  BY <1>1 DEF ExitCode, failed
<1> QED
  BY <1>0, <1>2, <1>3

(* Whoever got past opening the file left it in write-ahead-log mode.      *)
Converted == \A p \in Proc : at[p] \notin {"new", "refused", "converting"} => wal

LEMMA ConvertedNext ==
  ASSUME StoreInv, Converted, [Next]_vars
  PROVE  Converted'
<1>0. at = [p \in Proc |-> at[p]]
  BY DEF StoreInv, Typed
<1>1. ASSUME NEW p \in Proc,
             OpenFile(p) \/ Convert(p) \/ ReadVersion(p) \/ Blocked(p)
               \/ BeginStepping(p) \/ ApplyStep(p) \/ CommitSteps(p)
               \/ ReadAndRecord(p) \/ Exit(p)
      PROVE  Converted'
  <2>1. CASE OpenFile(p)
    BY <1>0, <2>1 DEF Converted, OpenFile, Refuse, Go
  <2>2. CASE Convert(p)
    BY <2>2 DEF Converted, Convert
  <2>3. CASE ReadVersion(p) \/ Blocked(p)
    BY <1>0, <2>3 DEF Converted, ReadVersion, Blocked, Refuse, Go
  <2>4. CASE BeginStepping(p) \/ ApplyStep(p)
    BY <1>0, <2>4 DEF Converted, BeginStepping, ApplyStep, Refuse, Go
  <2>5. CASE CommitSteps(p)
    BY <1>0, <2>5 DEF Converted, CommitSteps, Refuse, Go
  <2>6. CASE ReadAndRecord(p) \/ Exit(p)
    BY <1>0, <2>6 DEF Converted, ReadAndRecord, Exit, Refuse, Go
  <2> QED
    BY <1>1, <2>1, <2>2, <2>3, <2>4, <2>5, <2>6
<1>2. CASE UNCHANGED vars
  BY <1>2 DEF Converted, vars
<1> QED
  BY <1>1, <1>2 DEF Next

(* A store of another version than the doctor's build, or one that is      *)
(* elsewhere, is the exit code.                                            *)
LEMMA StoreIsBlamed ==
  ASSUME NEW p \in Proc, NEW e, NEW m,
         \/ StoreIsElsewhere(e)
         \/ ~StoreIsElsewhere(e) /\ wal /\ version # Null /\ version # Build[p]
  PROVE  ExitCode(Report(p, e, m)) = DoctorExit.store
<1>1. \A c \in Report(p, e, m) : c.group \in Groups
  BY ReportGroups DEF Report
<1>2. \E c \in Report(p, e, m) : c.group = "store" /\ c.status = "failed"
  <2>1. CASE StoreIsElsewhere(e)
    <3>1. CheckStoreLocation(StoreIsElsewhere(e)) \in Report(p, e, m)
      BY DEF Report, Checks
    <3>2. CheckStoreLocation(StoreIsElsewhere(e)) = Check("store", "failed")
      BY <2>1 DEF CheckStoreLocation, Judge
    <3> QED
      BY <3>1, <3>2 DEF Check
  <2>2. CASE ~StoreIsElsewhere(e) /\ wal /\ version # Null /\ version # Build[p]
    <3>1. CheckSchemaVersion(Found(e), Build[p]) \in Report(p, e, m)
      BY DEF Report, Checks
    <3>2. CheckSchemaVersion(Found(e), Build[p]) = Check("store", "failed")
      BY <2>2 DEF Found, CheckSchemaVersion, Judge, VersionIsExpected
    <3> QED
      BY <3>1, <3>2 DEF Check
  <2> QED
    BY <2>1, <2>2
<1> QED
  BY <1>1, <1>2, StoreFaultIsLowest

(* A recorded budget that is another number than the settings' is named.   *)
LEMMA BudgetIsBlamed ==
  ASSUME NEW p \in Proc, NEW e, NEW m, ~StoreIsElsewhere(e), wal, version # Null,
         TabBudget(e) # Null, db.budget # Null, db.budget # TabBudget(e)
  PROVE  Check("budget", "failed") \in Report(p, e, m)
<1>1. Found(e) # Null
  BY DEF Found
<1>2. CheckTabBudget(db.budget, TabBudget(e)) \in Report(p, e, m)
  BY <1>1 DEF Report, Checks
<1> QED
  BY <1>2 DEF CheckTabBudget, Judge

-----------------------------------------------------------------------------

(* A process that refuses to start although nobody was in its way: the     *)
(* doctor answers, and its exit code or its budget check says why.         *)
LEMMA RefusalIsNamed ==
  ASSUME StoreInv, Converted, NEW p \in Proc, NEW m, Next, writer = Null,
         at[p] # "refused", at'[p] = "refused",
         Readable(env'[p]), ComparisonsReadable(env'[p])
  PROVE  /\ Answers(Found(env'[p]))
         /\ \/ ExitCode(Report(p, env'[p], m)) = DoctorExit.store
            \/ Check("budget", "failed") \in Report(p, env'[p], m)
<1>0. /\ at = [q \in Proc |-> at[q]] /\ env = [q \in Proc |-> env[q]]
      /\ version \in 0 .. 11 /\ version # Null
      /\ Null \notin Proc \cup Nat /\ Build[p] \in 2 .. 11 /\ Opening(p)
  <2>1. at = [q \in Proc |-> at[q]] /\ env = [q \in Proc |-> env[q]] /\ Opening(p)
    BY DEF StoreInv, Typed
  <2>2. Null \notin Proc \cup Nat /\ Build[p] \in 2 .. 11
    BY StoreOpenAssumption
  <2>3. version \in 0 .. 11
    BY DEF StoreInv, Typed, Sound
  <2> QED
    BY <2>1, <2>2, <2>3
<1>1. PICK q \in Proc :
        OpenFile(q) \/ Convert(q) \/ ReadVersion(q) \/ Blocked(q) \/ BeginStepping(q)
          \/ ApplyStep(q) \/ CommitSteps(q) \/ ReadAndRecord(q) \/ Exit(q)
  BY DEF Next
<1>2. q = p
  BY <1>0, <1>1 DEF OpenFile, Convert, ReadVersion, Blocked, BeginStepping, ApplyStep,
     CommitSteps, ReadAndRecord, Exit, Refuse, Go
<1>3. CASE OpenFile(p)
  <2>1. ~Usable(env'[p])
    BY <1>0, <1>3 DEF OpenFile, Refuse, Go
  <2>2. StoreIsElsewhere(env'[p])
    BY <2>1 DEF Usable
  <2>3. Found(env'[p]) = Null
    BY <2>2 DEF Found
  <2> QED
    BY <2>2, <2>3, StoreIsBlamed DEF Answers
<1>4. CASE ReadVersion(p) \/ BeginStepping(p)
  <2>1. version > Build[p] /\ env' = env /\ at[p] \in {"open", "read"}
    BY <1>0, <1>4 DEF ReadVersion, BeginStepping, VersionInside, Refuse, Go
  <2>2. ~StoreIsElsewhere(env'[p]) /\ wal
    BY <1>0, <2>1 DEF Opening, Usable, Converted
  <2>3. version # Build[p] /\ version >= 2
    BY <1>0, <2>1
  <2> QED
    BY <1>0, <2>2, <2>3, StoreIsBlamed DEF Answers, Found
<1>5. CASE ReadAndRecord(p)
  <2>1. RecordedBudget(p) # Tabs(p) /\ env' = env /\ at[p] = "stepped"
    BY <1>0, <1>5 DEF ReadAndRecord, Refuse, Go
  <2>2. ~StoreIsElsewhere(env'[p]) /\ wal /\ Usable(env'[p]) /\ version >= Build[p]
    BY <1>0, <2>1 DEF Opening, Usable, Converted
  <2>3. TabBudget(env'[p]) # Null
    BY <1>0, <2>2, BudgetIsNumber
  <2>4. db.budget # Null /\ db.budget # TabBudget(env'[p])
    BY <2>1 DEF RecordedBudget, Tabs
  <2>5. Check("budget", "failed") \in Report(p, env'[p], m)
    BY <1>0, <2>2, <2>3, <2>4, BudgetIsBlamed
  <2> QED
    BY <1>0, <2>2, <2>5 DEF Answers, Found
<1>6. ~Blocked(p) /\ ~CommitSteps(p)
  BY <1>0 DEF Blocked, CommitSteps, Opening
<1>7. ~Convert(p) /\ ~ApplyStep(p) /\ ~Exit(p)
  BY <1>0 DEF Convert, ApplyStep, Exit, Go
<1> QED
  BY <1>1, <1>2, <1>3, <1>4, <1>5, <1>6, <1>7

(* A process that starts is not told that its budget is wrong.             *)
LEMMA ServerIsNotBlamed ==
  ASSUME StoreInv, NEW p \in Proc, NEW m, Next, at[p] # "serving", at'[p] = "serving"
  PROVE  (Check("budget", "failed") \notin Report(p, env[p], m))'
<1>0. /\ at = [q \in Proc |-> at[q]] /\ StoreInv'
  BY NextInv DEF StoreInv, Typed
<1>1. (db.budget = TabBudget(env[p]))'
  BY <1>0 DEF StoreInv, Opening, Tabs
<1>2. (\A c \in Report(p, env[p], m) : c.group = "budget" =>
         \/ c = CheckTabBudget(Null, TabBudget(env[p]))
         \/ c = CheckTabBudget(db.budget, TabBudget(env[p])))'
  BY ReportGroups DEF Report
<1>3. (\A c \in Report(p, env[p], m) : c.group = "budget" => c.status # "failed")'
  BY <1>1, <1>2 DEF CheckTabBudget, Judge, Check
<1> QED
  BY <1>3 DEF Check

(* A person whose process refuses to start learns the cause from `broker   *)
(* doctor`, unless another process was in the way, the rows contradict     *)
(* each other or the settings of comparisons are at fault; and a process   *)
(* that starts is not told that its budget is wrong.                       *)
THEOREM DoctorNamesTheCause == Spec => DoctorExplainsRefusals
<1> DEFINE Explained ==
      \A p \in Proc, m \in Machine :
        /\ /\ at[p] # "refused" /\ at'[p] = "refused"
           /\ Readable(env'[p]) /\ ComparisonsReadable(env'[p])
           /\ writer = Null
           => /\ Answers(Found(env'[p]))
              /\ \/ ExitCode(Report(p, env'[p], m)) = DoctorExit.store
                 \/ Check("budget", "failed") \in Report(p, env'[p], m)
        /\ at[p] # "serving" /\ at'[p] = "serving"
           => Check("budget", "failed") \notin Report(p, env[p], m)'
<1>1. Init => Converted
  BY DEF Init, Converted
<1>2. StoreInv /\ Converted /\ [Next]_vars => Converted'
  BY ConvertedNext
<1>3. ASSUME StoreInv, Converted, Next PROVE Explained
  BY <1>3, RefusalIsNamed, ServerIsNotBlamed
<1>4. StoreInv /\ Converted /\ [Next]_vars => [Explained]_vars
  BY <1>3
<1> QED
  BY <1>1, <1>2, <1>4, StoreInvHolds, PTL DEF Spec, DoctorExplainsRefusals

-----------------------------------------------------------------------------
(* Numbers in their order.                                                 *)
Below == {p \in Nat \X Nat : p[1] < p[2]}

(* The order of the natural numbers has no endless descent.                *)
LEMMA BelowIsWellFounded == IsWellFoundedOn(Below, Nat)
<1>1. Below = OpToRel(<, Nat)
  BY DEF OpToRel, Below
<1> QED
  BY <1>1, NatLessThanWellFounded

(* A set of natural numbers has a least one: where a fact about numbers    *)
(* fails, it fails for a first one.                                        *)
LEMMA Least ==
  ASSUME NEW T \in SUBSET Nat, T # {}
  PROVE  \E n \in T : \A m \in T : n <= m
<1>1. T \subseteq Nat
  OBVIOUS
<1>2. PICK n \in T : \A m \in T : <<m, n>> \notin Below
  BY <1>1, BelowIsWellFounded, WFMin
<1>3. \A m \in T : m < n => <<m, n>> \in Below
  BY DEF Below
<1>4. \A m \in T : ~(m < n)
  BY <1>2, <1>3
<1>5. \A m \in T : n <= m
  BY <1>1, <1>4
<1> QED
  BY <1>5

(* A finite set has a smallest part among those of some kind.              *)
LEMMA SmallestPart ==
  ASSUME NEW S, IsFiniteSet(S), NEW Parts \in SUBSET SUBSET S, Parts # {}
  PROVE  \E T \in Parts : \A U \in Parts : U \subseteq T => U = T
<1>1. IsWellFoundedOn(StrictSubsetOrdering(S), SUBSET S)
  BY FS_StrictSubsetOrderingWellFounded, FS_FiniteSubsetsOfFinite
<1>2. PICK T \in Parts : \A U \in Parts : <<U, T>> \notin StrictSubsetOrdering(S)
  BY <1>1, WFMin
<1>3. \A U \in Parts : U \subseteq T /\ U # T => <<U, T>> \in StrictSubsetOrdering(S)
  BY DEF StrictSubsetOrdering
<1>4. \A U \in Parts : U \subseteq T => U = T
  BY <1>2, <1>3, Zenon
<1> QED
  BY <1>4, Zenon

Orders(R, S) ==
  /\ \A x \in S : <<x, x>> \notin R
  /\ \A x, y, z \in S : <<x, y>> \in R /\ <<y, z>> \in R => <<x, z>> \in R
  /\ \A x, y \in S : x # y => <<x, y>> \in R \/ <<y, x>> \in R

(* A finite set that is not empty has a last one in any strict order.      *)
LEMMA LastOfOrder ==
  ASSUME NEW S, IsFiniteSet(S), NEW R, Orders(R, S), S # {}
  PROVE  \E m \in S : \A x \in S \ {m} : <<x, m>> \in R
<1> DEFINE HasLast(T) == \E m \in T : \A x \in T \ {m} : <<x, m>> \in R
           Bad == {T \in SUBSET S : T # {} /\ ~HasLast(T)}
<1>1. SUFFICES ASSUME Bad # {} PROVE FALSE
  OBVIOUS
<1>2. PICK T \in Bad : \A U \in Bad : U \subseteq T => U = T
  <2>1. Bad \in SUBSET SUBSET S
    OBVIOUS
  <2> HIDE DEF Bad
  <2> QED
    BY <1>1, <2>1, SmallestPart
<1>3. PICK x \in T : TRUE
  BY DEF Bad
<1>4. T \ {x} \notin Bad
  BY <1>2, <1>3
<1>5. T \subseteq S /\ ~HasLast(T)
  OBVIOUS
<1>6. CASE T \ {x} = {}
  BY <1>3, <1>5, <1>6
<1>7. CASE T \ {x} # {}
  <2>1. HasLast(T \ {x})
    BY <1>4, <1>5, <1>7
  <2>2. PICK m \in T \ {x} : \A y \in (T \ {x}) \ {m} : <<y, m>> \in R
    BY <2>1
  <2>3. CASE <<x, m>> \in R
    <3>1. \A y \in T \ {m} : <<y, m>> \in R
      BY <2>2, <2>3
    <3> QED
      BY <1>5, <2>2, <3>1
  <2>4. CASE <<m, x>> \in R
    <3>1. \A y \in T \ {x} : <<y, x>> \in R
      BY <1>3, <1>5, <2>2, <2>4 DEF Orders
    <3> QED
      BY <1>3, <1>5, <3>1
  <2> QED
    BY <1>3, <1>5, <2>2, <2>3, <2>4 DEF Orders
<1> QED
  BY <1>6, <1>7

Lists(seq, S, R) ==
  \A i, j \in 1 .. Cardinality(S) : i < j => <<seq[i], seq[j]>> \in R

(* Whatever strict order a SELECT asks for, finitely many rows have a      *)
(* listing in it: the choice that Sorted makes is one of those there are.  *)
LEMMA ListingExists ==
  ASSUME NEW S, IsFiniteSet(S), NEW R, Orders(R, S)
  PROVE  \E seq \in [1 .. Cardinality(S) -> S] : Lists(seq, S, R)
<1> DEFINE Bad == {T \in SUBSET S : \A seq \in [1 .. Cardinality(T) -> T] : ~Lists(seq, T, R)}
<1>1. SUFFICES ASSUME Bad # {} PROVE FALSE
  OBVIOUS
<1>2. PICK T \in Bad : \A U \in Bad : U \subseteq T => U = T
  <2>1. Bad \in SUBSET SUBSET S
    OBVIOUS
  <2> HIDE DEF Bad
  <2> QED
    BY <1>1, <2>1, SmallestPart
<1>3. T \subseteq S /\ IsFiniteSet(T)
  BY FS_Subset
<1>4. Orders(R, T)
  BY <1>3 DEF Orders
<1>5. T # {}
  <2>1. SUFFICES ASSUME T = {} PROVE FALSE
    OBVIOUS
  <2>2. Cardinality(T) = 0
    BY <2>1, FS_EmptySet
  <2>3. [i \in 1 .. 0 |-> 0] \in [1 .. Cardinality(T) -> T]
    BY <2>2
  <2>4. Lists([i \in 1 .. 0 |-> 0], T, R)
    BY <2>2 DEF Lists
  <2> QED
    BY <2>3, <2>4
<1>6. PICK m \in T : \A x \in T \ {m} : <<x, m>> \in R
  BY <1>3, <1>4, <1>5, LastOfOrder
<1>7. T \ {m} \notin Bad
  BY <1>2, <1>6
<1>8. PICK seq \in [1 .. Cardinality(T \ {m}) -> T \ {m}] : Lists(seq, T \ {m}, R)
  BY <1>3, <1>7
<1>9. Cardinality(T \ {m}) = Cardinality(T) - 1 /\ Cardinality(T) \in Nat
  BY <1>3, <1>6, FS_RemoveElement, FS_CardinalityType
<1> DEFINE n == Cardinality(T)
           longer == [i \in 1 .. n |-> IF i < n THEN seq[i] ELSE m]
<1>10. \A i \in 1 .. n : i < n => i \in 1 .. Cardinality(T \ {m}) /\ seq[i] \in T \ {m}
  <2>1. \A i \in 1 .. n : i < n => i \in 1 .. n - 1
    BY <1>9
  <2> QED
    BY <1>8, <1>9, <2>1
<1>11. longer \in [1 .. n -> T]
  BY <1>6, <1>10
<1>12. ASSUME NEW i \in 1 .. n, NEW j \in 1 .. n, i < j PROVE <<longer[i], longer[j]>> \in R
  <2>1. CASE j < n
    <3>1. i < n /\ longer[i] = seq[i] /\ longer[j] = seq[j]
      BY <1>9, <1>12, <2>1
    <3> QED
      BY <1>8, <1>10, <1>12, <2>1, <3>1 DEF Lists
  <2>2. CASE j = n
    <3>1. i < n /\ longer[i] = seq[i] /\ longer[j] = m
      BY <1>9, <1>12, <2>2
    <3> QED
      BY <1>6, <1>10, <3>1
  <2> QED
    BY <1>9, <2>1, <2>2
<1>13. Lists(longer, T, R)
  BY <1>12 DEF Lists
<1> QED
  BY <1>11, <1>13

(* A listing without repetitions names every element of a finite set.      *)
LEMMA ListingIsOnto ==
  ASSUME NEW S, IsFiniteSet(S), NEW seq \in [1 .. Cardinality(S) -> S],
         \A i, j \in 1 .. Cardinality(S) : i < j => seq[i] # seq[j]
  PROVE  \A x \in S : \E i \in 1 .. Cardinality(S) : seq[i] = x
<1> DEFINE n == Cardinality(S)
<1>1. n \in Nat
  BY FS_CardinalityType
<1>2. IsFiniteSet(1 .. n) /\ Cardinality(1 .. n) = n
  BY <1>1, FS_Interval
<1>3. \A i, j \in 1 .. n : i # j => seq[i] # seq[j]
  BY <1>1
<1>4. seq \in Injection(1 .. n, S)
  BY <1>3 DEF Injection, IsInjective
<1>5. seq \in Surjection(1 .. n, S)
  BY <1>2, <1>4, FS_Injection
<1> QED
  BY <1>5 DEF Surjection

Rises(seq) == \A i, j \in 1 .. Len(seq) : i < j => seq[i] < seq[j]
Falls(seq) == \A i, j \in 1 .. Len(seq) : i < j => seq[i] > seq[j]

(* seq has the elements of S and no other.                                 *)
Names(seq, S) ==
  /\ seq \in Seq(S)
  /\ \A x \in S : \E i \in 1 .. Len(seq) : seq[i] = x

(* Rows by their numbers, from the oldest on: each once.                   *)
LEMMA AscendingListing ==
  ASSUME NEW S \in SUBSET Int, IsFiniteSet(S)
  PROVE  Names(Ascending(S), S) /\ Rises(Ascending(S)) /\ Len(Ascending(S)) = Cardinality(S)
<1> DEFINE n == Cardinality(S)
           R == {p \in S \X S : p[1] < p[2]}
<1>1. n \in Nat
  BY FS_CardinalityType
<1>2. Orders(R, S)
  BY DEF Orders
<1>3. \E seq \in [1 .. n -> S] : Lists(seq, S, R)
  <2> HIDE DEF R
  <2> QED
    BY <1>2, ListingExists
<1>4. \E seq \in [1 .. n -> S] : \A i, j \in DOMAIN seq : i < j => seq[i] < seq[j]
  BY <1>3 DEF Lists
<1>5. /\ Ascending(S) \in [1 .. n -> S]
      /\ \A i, j \in DOMAIN Ascending(S) : i < j => Ascending(S)[i] < Ascending(S)[j]
  BY <1>4 DEF Ascending, Sorted
<1>6. \A i, j \in 1 .. n : i < j => Ascending(S)[i] < Ascending(S)[j]
  BY <1>5
<1>7. \A i, j \in 1 .. n : i < j => Ascending(S)[i] # Ascending(S)[j]
  <2>1. \A i \in 1 .. n : Ascending(S)[i] \in Int
    BY <1>5
  <2> QED
    BY <1>6, <2>1
<1>8. \A x \in S : \E i \in 1 .. n : Ascending(S)[i] = x
  BY <1>5, <1>7, ListingIsOnto
<1>9. Ascending(S) \in Seq(S) /\ Len(Ascending(S)) = n
  BY <1>1, <1>5
<1> QED
  BY <1>6, <1>8, <1>9 DEF Names, Rises

(* And from the newest back.                                               *)
LEMMA DescendingListing ==
  ASSUME NEW S \in SUBSET Int, IsFiniteSet(S)
  PROVE  Names(Descending(S), S) /\ Falls(Descending(S)) /\ Len(Descending(S)) = Cardinality(S)
<1> DEFINE n == Cardinality(S)
           R == {p \in S \X S : p[1] > p[2]}
<1>1. n \in Nat
  BY FS_CardinalityType
<1>2. Orders(R, S)
  BY DEF Orders
<1>3. \E seq \in [1 .. n -> S] : Lists(seq, S, R)
  <2> HIDE DEF R
  <2> QED
    BY <1>2, ListingExists
<1>4. \E seq \in [1 .. n -> S] : \A i, j \in DOMAIN seq : i < j => seq[i] > seq[j]
  BY <1>3 DEF Lists
<1>5. /\ Descending(S) \in [1 .. n -> S]
      /\ \A i, j \in DOMAIN Descending(S) : i < j => Descending(S)[i] > Descending(S)[j]
  BY <1>4 DEF Descending, Sorted
<1>6. \A i, j \in 1 .. n : i < j => Descending(S)[i] > Descending(S)[j]
  BY <1>5
<1>7. \A i, j \in 1 .. n : i < j => Descending(S)[i] # Descending(S)[j]
  <2>1. \A i \in 1 .. n : Descending(S)[i] \in Int
    BY <1>5
  <2> QED
    BY <1>6, <2>1
<1>8. \A x \in S : \E i \in 1 .. n : Descending(S)[i] = x
  BY <1>5, <1>7, ListingIsOnto
<1>9. Descending(S) \in Seq(S) /\ Len(Descending(S)) = n
  BY <1>1, <1>5
<1> QED
  BY <1>6, <1>8, <1>9 DEF Names, Falls

(* There is one ascending listing of a set.                                *)
LEMMA AscendingIsUnique ==
  ASSUME NEW S \in SUBSET Int, NEW s, NEW t,
         Names(s, S), Rises(s), Names(t, S), Rises(t)
  PROVE  s = t
<1>1. /\ s \in Seq(S) /\ Len(s) \in Nat /\ s = [i \in 1 .. Len(s) |-> s[i]]
      /\ t \in Seq(S) /\ Len(t) \in Nat /\ t = [i \in 1 .. Len(t) |-> t[i]]
  BY DEF Names
<1>2. \A i \in 1 .. Len(s) : s[i] \in Int /\ \E j \in 1 .. Len(t) : t[j] = s[i]
  BY <1>1 DEF Names
<1>3. \A j \in 1 .. Len(t) : t[j] \in Int /\ \E i \in 1 .. Len(s) : s[i] = t[j]
  BY <1>1 DEF Names
<1> DEFINE Differ == {i \in Nat : /\ i \in 1 .. Len(s) \/ i \in 1 .. Len(t)
                                  /\ ~(i \in 1 .. Len(s) /\ i \in 1 .. Len(t) /\ s[i] = t[i])}
<1>4. ASSUME Differ # {} PROVE FALSE
  <2>1. PICK k \in Differ : \A m \in Differ : k <= m
    <3>1. Differ \in SUBSET Nat
      OBVIOUS
    <3> HIDE DEF Differ
    <3> QED
      BY <1>4, <3>1, Least
  <2>2. \A i \in 1 .. k - 1 : i \in 1 .. Len(s) /\ i \in 1 .. Len(t) /\ s[i] = t[i]
    <3>1. \A i \in 1 .. k - 1 : i \in Nat /\ i \notin Differ
      BY <1>1, <2>1
    <3>2. \A i \in 1 .. k - 1 : i \in 1 .. Len(s) \/ i \in 1 .. Len(t)
      BY <1>1, <2>1
    <3> QED
      BY <3>1, <3>2
  <2>3. CASE k \in 1 .. Len(s) /\ k \in 1 .. Len(t) /\ s[k] < t[k]
    <3>1. PICK j \in 1 .. Len(t) : t[j] = s[k]
      BY <1>2, <2>3
    <3>2. t[j] < t[k] /\ t[j] \in Int /\ t[k] \in Int /\ j \in Nat /\ k \in Nat
      BY <1>1, <1>3, <2>3, <3>1
    <3>3. ~(k < j) /\ k # j
      <4>1. k < j => t[k] < t[j]
        BY <2>3 DEF Rises
      <4> QED
        BY <3>2, <4>1
    <3>4. j \in 1 .. k - 1
      BY <3>2, <3>3
    <3>5. s[j] = t[j] /\ s[j] < s[k]
      BY <2>2, <2>3, <3>2, <3>4 DEF Rises
    <3> QED
      BY <3>1, <3>2, <3>5
  <2>4. CASE k \in 1 .. Len(s) /\ k \in 1 .. Len(t) /\ t[k] < s[k]
    <3>1. PICK j \in 1 .. Len(s) : s[j] = t[k]
      BY <1>3, <2>4
    <3>2. s[j] < s[k] /\ s[j] \in Int /\ s[k] \in Int /\ j \in Nat /\ k \in Nat
      BY <1>1, <1>2, <2>4, <3>1
    <3>3. ~(k < j) /\ k # j
      <4>1. k < j => s[k] < s[j]
        BY <2>4 DEF Rises
      <4> QED
        BY <3>2, <4>1
    <3>4. j \in 1 .. k - 1
      BY <3>2, <3>3
    <3>5. s[j] = t[j] /\ t[j] < t[k]
      BY <2>2, <2>4, <3>2, <3>4 DEF Rises
    <3> QED
      BY <3>1, <3>2, <3>5
  <2>5. CASE k \in 1 .. Len(s) /\ k \notin 1 .. Len(t)
    <3>1. PICK j \in 1 .. Len(t) : t[j] = s[k]
      BY <1>2, <2>5
    <3>2. j < k /\ j \in 1 .. k - 1
      BY <1>1, <2>5, <3>1
    <3> QED
      BY <1>1, <1>2, <2>2, <2>5, <3>1, <3>2 DEF Rises
  <2>6. CASE k \in 1 .. Len(t) /\ k \notin 1 .. Len(s)
    <3>1. PICK j \in 1 .. Len(s) : s[j] = t[k]
      BY <1>3, <2>6
    <3>2. j < k /\ j \in 1 .. k - 1
      BY <1>1, <2>6, <3>1
    <3> QED
      BY <1>1, <1>3, <2>2, <2>6, <3>1, <3>2 DEF Rises
  <2>7. \/ k \in 1 .. Len(s) /\ k \in 1 .. Len(t) /\ s[k] # t[k]
        \/ k \in 1 .. Len(s) /\ k \notin 1 .. Len(t)
        \/ k \in 1 .. Len(t) /\ k \notin 1 .. Len(s)
    BY <2>1
  <2>8. k \in 1 .. Len(s) /\ k \in 1 .. Len(t) /\ s[k] # t[k] => s[k] < t[k] \/ t[k] < s[k]
    <3>1. k \in 1 .. Len(s) /\ k \in 1 .. Len(t) => s[k] \in Int /\ t[k] \in Int
      BY <1>2, <1>3
    <3> QED
      BY <3>1
  <2> QED
    BY <2>3, <2>4, <2>5, <2>6, <2>7, <2>8
<1>5. \A i \in Nat : i \in 1 .. Len(s) \/ i \in 1 .. Len(t) =>
        i \in 1 .. Len(s) /\ i \in 1 .. Len(t) /\ s[i] = t[i]
  BY <1>4
<1>6. Len(s) = Len(t)
  <2>1. Len(s) <= Len(t)
    <3>1. Len(s) > 0 => Len(s) \in 1 .. Len(t)
      BY <1>1, <1>5
    <3> QED
      BY <1>1, <3>1
  <2>2. Len(t) <= Len(s)
    <3>1. Len(t) > 0 => Len(t) \in 1 .. Len(s)
      BY <1>1, <1>5
    <3> QED
      BY <1>1, <3>1
  <2>3. Len(s) \in Nat /\ Len(t) \in Nat
    BY <1>1
  <2> HIDE DEF Differ
  <2> QED
    BY <2>1, <2>2, <2>3
<1>7. \A i \in 1 .. Len(s) : s[i] = t[i]
  BY <1>1, <1>5
<1> QED
  BY <1>1, <1>6, <1>7, SeqEqual

(* The first k of a sequence are a beginning of it.                        *)
LEMMA FirstOfSequence ==
  ASSUME NEW S, NEW seq \in Seq(S), NEW k \in Int
  PROVE  /\ First(seq, k) \in Seq(S)
         /\ Len(First(seq, k)) <= Len(seq)
         /\ k >= 1 /\ seq # << >> => First(seq, k) # << >>
         /\ k = 1 /\ seq # << >> => First(seq, k) = <<seq[1]>>
         /\ \A i \in 1 .. Len(First(seq, k)) : First(seq, k)[i] = seq[i]
<1> DEFINE m == IF k < Len(seq) THEN k ELSE Len(seq)
<1>1. m \in Int /\ Len(seq) \in Nat /\ m <= Len(seq)
  OBVIOUS
<1>2. \A i \in 1 .. m : seq[i] \in S
  BY <1>1
<1>3. First(seq, k) = SubSeq(seq, 1, m)
  BY DEF First
<1> HIDE DEF m
<1>4. /\ First(seq, k) \in Seq(S)
      /\ Len(First(seq, k)) = IF 1 <= m THEN m - 1 + 1 ELSE 0
      /\ \A i \in 1 .. m - 1 + 1 : First(seq, k)[i] = seq[1 + i - 1]
  BY <1>1, <1>2, <1>3, SubSeqProperties
<1>5. Len(First(seq, k)) = IF 1 <= m THEN m ELSE 0
  BY <1>1, <1>4
<1>6. \A i \in 1 .. Len(First(seq, k)) : First(seq, k)[i] = seq[i]
  BY <1>1, <1>4, <1>5
<1>7. Len(First(seq, k)) <= Len(seq)
  BY <1>1, <1>5
<1>8. k >= 1 /\ seq # << >> => Len(First(seq, k)) >= 1
  BY <1>1, <1>5 DEF m
<1>9. k = 1 /\ seq # << >> => Len(First(seq, k)) = 1
  <2>1. k = 1 /\ seq # << >> => m = 1
    <3> SUFFICES ASSUME k = 1, seq # << >> PROVE m = 1
      OBVIOUS
    <3>1. Len(seq) \in Nat \ {0}
      BY EmptySeq
    <3>0. \A n \in Nat \ {0} : 1 < n \/ n = 1
      OBVIOUS
    <3>2. 1 < Len(seq) \/ Len(seq) = 1
      BY <3>0, <3>1, Zenon
    <3> QED
      BY <3>2 DEF m
  <2> QED
    BY <1>5, <2>1
<1>10. k = 1 /\ seq # << >> => First(seq, k) = <<seq[1]>>
  <2>1. SUFFICES ASSUME k = 1, seq # << >> PROVE First(seq, k) = <<seq[1]>>
    OBVIOUS
  <2>2. Len(First(seq, k)) = 1 /\ First(seq, k)[1] = seq[1] /\ seq[1] \in S
    BY <1>6, <1>9, <2>1
  <2> QED
    BY <1>4, <2>2
<1>11. k >= 1 /\ seq # << >> => First(seq, k) # << >>
  BY <1>4, <1>8
<1> QED
  BY <1>4, <1>6, <1>7, <1>10, <1>11

NoGapBelow(S, got) == \A x \in S, i \in 1 .. Len(got) : x <= got[i] => \E j \in 1 .. Len(got) : got[j] = x
NoGapAbove(S, got) == \A x \in S, i \in 1 .. Len(got) : x >= got[i] => \E j \in 1 .. Len(got) : got[j] = x

(* A page from the oldest row on leaves none out that is older than one it *)
(* has.                                                                    *)
LEMMA OldestPage ==
  ASSUME NEW S \in SUBSET Int, IsFiniteSet(S), NEW k \in Int
  PROVE  LET got == First(Ascending(S), k) IN
         got \in Seq(S) /\ Rises(got) /\ NoGapBelow(S, got)
<1> DEFINE all == Ascending(S)
           got == First(all, k)
<1>1. all \in Seq(S) /\ Rises(all) /\ \A x \in S : \E i \in 1 .. Len(all) : all[i] = x
  BY AscendingListing DEF Names
<1> HIDE DEF all
<1>2. got \in Seq(S) /\ Len(got) <= Len(all) /\ \A i \in 1 .. Len(got) : got[i] = all[i]
  BY <1>1, FirstOfSequence
<1> HIDE DEF got
<1>3. Len(got) \in Nat /\ Len(all) \in Nat
  BY <1>1, <1>2
<1>4. Rises(got)
  BY <1>1, <1>2, <1>3 DEF Rises
<1>5. ASSUME NEW x \in S, NEW i \in 1 .. Len(got), x <= got[i]
      PROVE  \E j \in 1 .. Len(got) : got[j] = x
  <2>1. PICK j \in 1 .. Len(all) : all[j] = x
    BY <1>1
  <2>2. i \in 1 .. Len(all) /\ all[i] = got[i] /\ all[i] \in Int /\ all[j] \in Int
    <3>1. i \in 1 .. Len(all) /\ all[i] = got[i]
      BY <1>2, <1>3
    <3>2. all[i] \in S /\ all[j] \in S
      BY <1>1, <2>1, <3>1, ElementOfSeq
    <3> QED
      BY <3>1, <3>2
  <2>3. ~(i < j)
    <3>1. i < j => all[i] < all[j]
      BY <1>1, <2>2 DEF Rises
    <3> QED
      BY <1>5, <2>1, <2>2, <3>1
  <2>4. j \in 1 .. Len(got)
    BY <1>3, <2>3
  <2> QED
    BY <1>2, <2>1, <2>4
<1> QED
  BY <1>2, <1>4, <1>5 DEF NoGapBelow, got, all

(* A page of the newest rows, turned round, rises and leaves out nothing   *)
(* above its first row.                                                    *)
LEMMA ReversedPage ==
  ASSUME NEW S \in SUBSET Int, IsFiniteSet(S), NEW k \in Int
  PROVE  LET page == First(Descending(S), k)
             got  == Reverse(page)
         IN /\ page \in Seq(S) /\ Falls(page) /\ NoGapAbove(S, page)
            /\ Len(got) = Len(page) /\ got \in Seq(S) /\ Rises(got) /\ NoGapAbove(S, got)
            /\ \A i \in 1 .. Len(page) : \E j \in 1 .. Len(page) : got[j] = page[i]
<1> DEFINE all == Descending(S)
           page == First(all, k)
           got == Reverse(page)
<1>1. all \in Seq(S) /\ Falls(all) /\ \A x \in S : \E i \in 1 .. Len(all) : all[i] = x
  BY DescendingListing DEF Names
<1> HIDE DEF all
<1>2. page \in Seq(S) /\ Len(page) <= Len(all) /\ \A i \in 1 .. Len(page) : page[i] = all[i]
  BY <1>1, FirstOfSequence
<1> HIDE DEF page
<1>3. Len(page) \in Nat /\ Len(all) \in Nat
  BY <1>1, <1>2
<1>4. Falls(page)
  BY <1>1, <1>2, <1>3 DEF Falls
<1>5. got = [i \in 1 .. Len(page) |-> page[(Len(page) - i) + 1]]
  BY DEF Reverse
<1>6. \A i \in 1 .. Len(page) : (Len(page) - i) + 1 \in 1 .. Len(page)
  BY <1>3
<1>7. got \in Seq(S) /\ Len(got) = Len(page)
  BY <1>2, <1>3, <1>5, <1>6
<1>8. \A i \in 1 .. Len(page) : got[i] = page[(Len(page) - i) + 1]
  BY <1>5
<1> HIDE DEF got
<1>9. Rises(got)
  <2> SUFFICES ASSUME NEW i \in 1 .. Len(page), NEW j \in 1 .. Len(page), i < j PROVE got[i] < got[j]
    BY <1>7 DEF Rises
  <2>1. (Len(page) - j) + 1 < (Len(page) - i) + 1
    BY <1>3
  <2>2. page[(Len(page) - j) + 1] > page[(Len(page) - i) + 1]
    BY <1>4, <1>6, <2>1 DEF Falls
  <2>3. page[(Len(page) - j) + 1] \in Int /\ page[(Len(page) - i) + 1] \in Int
    <3>1. page[(Len(page) - j) + 1] \in S /\ page[(Len(page) - i) + 1] \in S
      BY <1>2, <1>6, ElementOfSeq
    <3> QED
      BY <3>1
  <2> QED
    BY <1>8, <2>2, <2>3
<1>10. \A i \in 1 .. Len(page) : \E j \in 1 .. Len(page) : got[j] = page[i]
  <2> TAKE i \in 1 .. Len(page)
  <2>1. (Len(page) - i) + 1 \in 1 .. Len(page) /\ (Len(page) - ((Len(page) - i) + 1)) + 1 = i
    BY <1>3
  <2>2. got[(Len(page) - i) + 1] = page[i]
    BY <1>8, <2>1
  <2> QED
    BY <2>1, <2>2
<1>11. NoGapAbove(S, page)
  <2> SUFFICES ASSUME NEW x \in S, NEW i \in 1 .. Len(page), x >= page[i]
               PROVE  \E j \in 1 .. Len(page) : page[j] = x
    BY DEF NoGapAbove
  <2>1. PICK j \in 1 .. Len(all) : all[j] = x
    BY <1>1
  <2>2. i \in 1 .. Len(all) /\ all[i] = page[i] /\ all[i] \in Int /\ all[j] \in Int
    <3>1. i \in 1 .. Len(all) /\ all[i] = page[i]
      BY <1>2, <1>3
    <3>2. all[i] \in S /\ all[j] \in S
      BY <1>1, <2>1, <3>1, ElementOfSeq
    <3> QED
      BY <3>1, <3>2
  <2>3. ~(i < j)
    <3>1. i < j => all[i] > all[j]
      BY <1>1, <2>2 DEF Falls
    <3> QED
      BY <2>1, <2>2, <3>1
  <2>4. j \in 1 .. Len(page)
    BY <1>3, <2>3
  <2> QED
    BY <1>2, <2>1, <2>4
<1>12. NoGapAbove(S, got)
  <2> SUFFICES ASSUME NEW x \in S, NEW i \in 1 .. Len(page), x >= got[i]
               PROVE  \E j \in 1 .. Len(page) : got[j] = x
    BY <1>7 DEF NoGapAbove
  <2>1. PICK j \in 1 .. Len(page) : page[j] = x
    BY <1>6, <1>8, <1>11 DEF NoGapAbove
  <2> QED
    BY <1>10, <2>1
<1> QED
  BY <1>2, <1>4, <1>7, <1>9, <1>10, <1>11, <1>12 DEF got, page, all

-----------------------------------------------------------------------------
(* Command lines.                                                          *)

(* The fields of what a line of `broker events` asks for.                  *)
LEMMA EventsParsed ==
  ASSUME NEW line, ParseEvents(line) # Nothing
  PROVE  LET given == ParseFlags(line)
             q     == ParseEvents(line)
         IN /\ Unknown(line) = {}
            /\ q = [ok |-> TRUE, kinds |-> KindsAsked(given),
                    outcome |-> AsString(given, "outcome"), guard |-> AsString(given, "guard"),
                    session |-> AsString(given, "session-id"), claim |-> AsString(given, "claim-id"),
                    since |-> AsNumber(given, "since"), before |-> AsNumber(given, "before"),
                    limit |-> AsNumber(given, "limit"), order |-> OrderAsked(given)]
BY DEF ParseEvents

(* Of a flag that is given there is a last place.                          *)
LEMMA LastPlaceOf ==
  ASSUME NEW line, line \in Seq(ToSet(line)), NEW i \in FlagsIn(line)
  PROVE  /\ LastPlace(line, line[i].flag) \in FlagsIn(line)
         /\ line[LastPlace(line, line[i].flag)].flag = line[i].flag
         /\ \A j \in FlagsIn(line) : line[j].flag = line[i].flag => j <= LastPlace(line, line[i].flag)
<1> DEFINE n == Len(line)
           T == {k \in Nat : n - k \in FlagsIn(line) /\ line[n - k].flag = line[i].flag}
<1>1. n \in Nat /\ FlagsIn(line) \subseteq 1 .. n
  BY DEF FlagsIn
<1>2. i \in 1 .. n /\ n - (n - i) = i /\ n - i \in Nat
  BY <1>1
<1>3. n - i \in T
  BY <1>2
<1>4. PICK k \in T : \A m \in T : k <= m
  <2>1. T \in SUBSET Nat /\ T # {}
    BY <1>3
  <2> HIDE DEF T
  <2> QED
    BY <2>1, Least
<1>5. ASSUME NEW j \in FlagsIn(line), line[j].flag = line[i].flag PROVE j <= n - k
  <2>1. j \in 1 .. n /\ n - (n - j) = j /\ n - j \in Nat
    BY <1>1
  <2>2. n - j \in T
    BY <1>5, <2>1
  <2>3. k <= n - j
    BY <1>4, <2>2
  <2> QED
    BY <1>1, <1>4, <2>1, <2>3
<1>6. /\ n - k \in FlagsIn(line) /\ line[n - k].flag = line[i].flag
      /\ \A j \in FlagsIn(line) : line[j].flag = line[i].flag => j <= n - k
  BY <1>4, <1>5
<1> HIDE DEF T
<1> QED
  BY <1>6 DEF LastPlace

(* What a flag that is written by itself stands for is a number or none.   *)
WholeOrNull == Int \cup {Null}

(* What is read of a line as a number is one, or nothing.                  *)
LEMMA NumbersAreWhole ==
  ASSUME NEW line \in EventLines, NEW name
  PROVE  AsNumber(ParseFlags(line), name) \in WholeOrNull
<1> DEFINE given == ParseFlags(line)
<1>1. SUFFICES ASSUME name \in DOMAIN given, "number" \in DOMAIN given[name]
               PROVE  given[name].number \in Int
  BY DEF AsNumber, WholeOrNull
<1>2. /\ line \in Seq(ToSet(line))
      /\ \A word \in ToSet(line) : WellSpelt(word) /\ (IsJoined(word) => WellSpelt(word.value))
  BY ReadersAssumption
<1>3. PICK i \in FlagsIn(line) : name = line[i].flag
  BY <1>1 DEF ParseFlags
<1> DEFINE last == LastPlace(line, name)
<1>4. last \in FlagsIn(line)
  BY <1>2, <1>3, LastPlaceOf
<1>5. given[name] = ValueAt(line, last)
  BY <1>3 DEF ParseFlags
<1> HIDE DEF last, given
<1>6. last \in 1 .. Len(line) /\ Len(line) \in Nat /\ \A j \in 1 .. Len(line) : line[j] \in ToSet(line)
  BY <1>2, <1>4 DEF FlagsIn, ToSet
<1>7. CASE IsJoined(line[last])
  <2>1. given[name] = line[last].value /\ WellSpelt(line[last].value)
    BY <1>2, <1>5, <1>6, <1>7 DEF ValueAt
  <2> QED
    BY <1>1, <2>1 DEF WellSpelt
<1>8. CASE ~IsJoined(line[last]) /\ last < Len(line) /\ last + 1 \notin FlagsIn(line)
  <2>1. given[name] = line[last + 1] /\ last + 1 \in 1 .. Len(line)
    BY <1>5, <1>6, <1>8 DEF ValueAt
  <2>2. WellSpelt(line[last + 1])
    BY <1>2, <1>6, <2>1
  <2> QED
    BY <1>1, <2>1, <2>2 DEF WellSpelt
<1>9. CASE ~IsJoined(line[last]) /\ ~(last < Len(line) /\ last + 1 \notin FlagsIn(line))
  <2>1. given[name] = Bare
    BY <1>5, <1>9 DEF ValueAt
  <2> QED
    BY <1>1, <2>1 DEF Bare
<1> QED
  BY <1>7, <1>8, <1>9

(* Two words more.                                                         *)
LEMMA TwoMore ==
  ASSUME NEW S, NEW s \in Seq(S), NEW a, NEW b
  PROVE  /\ s \o <<a, b>> \in Seq(S \cup {a, b})
         /\ Len(s \o <<a, b>>) = Len(s) + 2
         /\ \A i \in 1 .. Len(s) : (s \o <<a, b>>)[i] = s[i]
         /\ (s \o <<a, b>>)[Len(s) + 1] = a
         /\ (s \o <<a, b>>)[Len(s) + 2] = b
<1> DEFINE Every == S \cup {a, b}
<1>1. s \in Seq(Every)
  BY SeqMonotonic
<1>2. <<a, b>> \in Seq(Every) /\ Len(<<a, b>>) = 2 /\ <<a, b>>[1] = a /\ <<a, b>>[2] = b
  OBVIOUS
<1>3. Len(s) \in Nat
  OBVIOUS
<1> DEFINE two == <<a, b>>
<1> HIDE DEF two, Every
<1>4. two \in Seq(Every) /\ Len(two) = 2 /\ two[1] = a /\ two[2] = b
  BY <1>2 DEF two
<1>5. /\ s \o two \in Seq(Every)
      /\ Len(s \o two) = Len(s) + Len(two)
      /\ \A i \in 1 .. Len(s) + Len(two) :
           (s \o two)[i] = IF i <= Len(s) THEN s[i] ELSE two[i - Len(s)]
  BY <1>1, <1>4, ConcatProperties
<1>6. (s \o two)[Len(s) + 1] = two[1] /\ (s \o two)[Len(s) + 2] = two[2]
  BY <1>3, <1>4, <1>5
<1>7. \A i \in 1 .. Len(s) : (s \o two)[i] = s[i]
  BY <1>3, <1>4, <1>5
<1> QED
  BY <1>4, <1>5, <1>6, <1>7 DEF two, Every

(* A line with a flag of its own and its value added asks for what it      *)
(* asked for, but for that flag.                                           *)
LEMMA WordsAdded ==
  ASSUME NEW line \in EventLines, NEW name \in EventFlags, NEW n \in Int
  PROVE  LET longer == line \o <<Flag(name), Number(n)>> IN
         /\ DOMAIN ParseFlags(longer) = DOMAIN ParseFlags(line) \cup {name}
         /\ \A other \in DOMAIN ParseFlags(line) \ {name} :
              ParseFlags(longer)[other] = ParseFlags(line)[other]
         /\ ParseFlags(longer)[name] = Number(n)
         /\ Unknown(longer) = Unknown(line)
<1> DEFINE k == Len(line)
           longer == line \o <<Flag(name), Number(n)>>
<1>1. line \in Seq(ToSet(line)) /\ k \in Nat
  BY ReadersAssumption
<1>3. /\ longer \in Seq(ToSet(line) \cup {Flag(name), Number(n)}) /\ Len(longer) = k + 2
      /\ \A i \in 1 .. k : longer[i] = line[i]
      /\ longer[k + 1] = Flag(name) /\ longer[k + 2] = Number(n)
  <2> HIDE DEF Flag, Number
  <2> QED
    BY <1>1, TwoMore
<1> HIDE DEF longer
<1>4. IsFlag(Flag(name)) /\ ~IsJoined(Flag(name)) /\ Flag(name).flag = name /\ ~IsFlag(Number(n))
  BY DEF Flag, Number, IsFlag, IsJoined
<1>5. FlagsIn(longer) = FlagsIn(line) \cup {k + 1}
  <2>1. FlagsIn(line) = {i \in 1 .. k : IsFlag(line[i])}
    BY <1>1 DEF FlagsIn
  <2>2. FlagsIn(longer) = {i \in 1 .. k + 2 : IsFlag(longer[i])}
    BY <1>3 DEF FlagsIn
  <2>3. \A i : i \in 1 .. k + 2 <=> i \in 1 .. k \/ i = k + 1 \/ i = k + 2
    BY <1>1
  <2> QED
    BY <1>3, <1>4, <2>1, <2>2, <2>3
<1>6. FlagsIn(line) \subseteq 1 .. k
  BY <1>1 DEF FlagsIn
<1>7. {longer[i].flag : i \in FlagsIn(longer)} = {line[i].flag : i \in FlagsIn(line)} \cup {name}
  BY <1>3, <1>4, <1>5, <1>6
<1>8. DOMAIN ParseFlags(longer) = DOMAIN ParseFlags(line) \cup {name}
  BY <1>7 DEF ParseFlags
<1>9. longer \in Seq(ToSet(longer))
  BY <1>3 DEF ToSet
<1>10. ASSUME NEW other \in DOMAIN ParseFlags(line), other # name
       PROVE  ParseFlags(longer)[other] = ParseFlags(line)[other]
  <2>1. PICK i \in FlagsIn(line) : line[i].flag = other
    BY DEF ParseFlags
  <2> DEFINE a == LastPlace(line, other)
             b == LastPlace(longer, other)
  <2>2. /\ a \in FlagsIn(line) /\ line[a].flag = other
        /\ \A j \in FlagsIn(line) : line[j].flag = other => j <= a
    BY <1>1, <2>1, LastPlaceOf
  <2>3. i \in FlagsIn(longer) /\ longer[i].flag = other
    BY <1>3, <1>5, <1>6, <2>1
  <2>4. /\ b \in FlagsIn(longer) /\ longer[b].flag = other
        /\ \A j \in FlagsIn(longer) : longer[j].flag = other => j <= b
    BY <1>9, <2>3, LastPlaceOf
  <2>5. ParseFlags(line)[other] = ValueAt(line, a)
    BY DEF ParseFlags
  <2>6. ParseFlags(longer)[other] = ValueAt(longer, b)
    BY <1>8 DEF ParseFlags
  <2> HIDE DEF a, b
  <2>7. b \in FlagsIn(line) /\ line[b].flag = other
    BY <1>3, <1>4, <1>5, <1>6, <1>10, <2>4
  <2>8. a \in FlagsIn(longer) /\ longer[a].flag = other
    BY <1>3, <1>5, <1>6, <2>2
  <2>9. a = b /\ a \in 1 .. k
    BY <1>1, <1>6, <2>2, <2>4, <2>7, <2>8
  <2>10. longer[a] = line[a] /\ (a < k => longer[a + 1] = line[a + 1])
    BY <1>1, <1>3, <2>9
  <2>11. a < k => (a + 1 \in FlagsIn(longer) <=> a + 1 \in FlagsIn(line))
    BY <1>1, <1>5, <2>9
  <2>12. a = k => a + 1 \in FlagsIn(longer)
    BY <1>5
  <2>13. ValueAt(longer, a) = ValueAt(line, a)
    BY <1>1, <1>3, <2>9, <2>10, <2>11, <2>12 DEF ValueAt
  <2> QED
    BY <2>5, <2>6, <2>9, <2>13
<1>11. ParseFlags(longer)[name] = Number(n)
  <2> DEFINE b == LastPlace(longer, name)
  <2>1. k + 1 \in FlagsIn(longer) /\ longer[k + 1].flag = name
    BY <1>3, <1>4, <1>5
  <2>2. b \in FlagsIn(longer) /\ k + 1 <= b
    BY <1>9, <2>1, LastPlaceOf
  <2>3. ParseFlags(longer)[name] = ValueAt(longer, b)
    BY <1>8 DEF ParseFlags
  <2> HIDE DEF b
  <2>4. b = k + 1
    BY <1>1, <1>5, <1>6, <2>2
  <2>5. k + 2 \notin FlagsIn(longer) /\ (k + 1) + 1 = k + 2 /\ k + 1 < k + 2
    BY <1>1, <1>5, <1>6
  <2> QED
    BY <1>3, <1>4, <2>3, <2>4, <2>5 DEF ValueAt
<1>12. Unknown(longer) = Unknown(line)
  BY <1>3, <1>4, <1>5, <1>6 DEF Unknown
<1> QED
  BY <1>8, <1>10, <1>11, <1>12 DEF longer

(* Whatever is not given a new value is asked for as before.               *)
LEMMA SameField ==
  ASSUME NEW given, NEW more, NEW other,
         other \in DOMAIN more <=> other \in DOMAIN given,
         other \in DOMAIN given => more[other] = given[other]
  PROVE  AsString(more, other) = AsString(given, other) /\ AsNumber(more, other) = AsNumber(given, other)
BY DEF AsString, AsNumber

(* With the cursor behind it a line asks for the same rows, from the one   *)
(* after the cursor on and the oldest first.                               *)
LEMMA ReadOnParsed ==
  ASSUME NEW line \in EventLines, ParseEvents(line) # Nothing, NEW n \in Int
  PROVE  LET p == ParseEvents(line \o <<Flag("since"), Number(n)>>)
             q == ParseEvents(line)
         IN /\ p.kinds = q.kinds /\ p.outcome = q.outcome /\ p.guard = q.guard
            /\ p.session = q.session /\ p.claim = q.claim
            /\ p.since = n /\ p.before = q.before /\ p.limit = q.limit /\ p.order = "oldest"
<1> DEFINE longer == line \o <<Flag("since"), Number(n)>>
           given  == ParseFlags(line)
           more   == ParseFlags(longer)
<1>1. /\ DOMAIN more = DOMAIN given \cup {"since"}
      /\ \A other \in DOMAIN given \ {"since"} : more[other] = given[other]
      /\ more["since"] = Number(n)
      /\ Unknown(longer) = Unknown(line)
  <2>1. "since" \in EventFlags
    BY DEF EventFlags
  <2> HIDE DEF given, more
  <2>2. /\ DOMAIN ParseFlags(longer) = DOMAIN ParseFlags(line) \cup {"since"}
        /\ \A other \in DOMAIN ParseFlags(line) \ {"since"} :
             ParseFlags(longer)[other] = ParseFlags(line)[other]
        /\ ParseFlags(longer)["since"] = Number(n)
        /\ Unknown(longer) = Unknown(line)
    BY <2>1, WordsAdded, Zenon DEF longer
  <2> QED
    BY <2>2 DEF given, more
<1>2. Unknown(line) = {}
  BY EventsParsed
<1>3. Unknown(longer) = {}
  BY <1>1, <1>2
<1>4. ParseEvents(line) =
        [ok |-> TRUE, kinds |-> KindsAsked(given),
         outcome |-> AsString(given, "outcome"), guard |-> AsString(given, "guard"),
         session |-> AsString(given, "session-id"), claim |-> AsString(given, "claim-id"),
         since |-> AsNumber(given, "since"), before |-> AsNumber(given, "before"),
         limit |-> AsNumber(given, "limit"), order |-> OrderAsked(given)]
  BY EventsParsed
<1>5. ParseEvents(longer) =
        [ok |-> TRUE, kinds |-> KindsAsked(more),
         outcome |-> AsString(more, "outcome"), guard |-> AsString(more, "guard"),
         session |-> AsString(more, "session-id"), claim |-> AsString(more, "claim-id"),
         since |-> AsNumber(more, "since"), before |-> AsNumber(more, "before"),
         limit |-> AsNumber(more, "limit"), order |-> OrderAsked(more)]
  BY <1>3 DEF ParseEvents
<1> HIDE DEF longer, given, more
<1>6. \A other \in {"kind", "outcome", "guard", "session-id", "claim-id", "before", "limit"} :
        /\ other \in DOMAIN more <=> other \in DOMAIN given
        /\ other \in DOMAIN given => more[other] = given[other]
  BY <1>1
<1>7. \A other \in {"kind", "outcome", "guard", "session-id", "claim-id", "before", "limit"} :
        AsString(more, other) = AsString(given, other) /\ AsNumber(more, other) = AsNumber(given, other)
  BY <1>6, SameField
<1>8. KindsAsked(more) = KindsAsked(given)
  <2>1. AsString(more, "kind") = AsString(given, "kind")
    BY <1>7
  <2>2. CASE AsString(given, "kind") = Null
    BY <2>1, <2>2 DEF KindsAsked
  <2>3. CASE AsString(given, "kind") # Null
    <3>1. "kind" \in DOMAIN given
      BY <2>3 DEF AsString
    <3>2. more["kind"] = given["kind"]
      BY <1>6, <3>1
    <3> QED
      BY <2>1, <2>3, <3>2 DEF KindsAsked
  <2> QED
    BY <2>2, <2>3
<1>9. AsNumber(more, "since") = n
  BY <1>1 DEF AsNumber, Number
<1>10. OrderAsked(more) = "oldest"
  BY <1>1 DEF OrderAsked
<1>11. ParseEvents(longer) =
        [ok |-> TRUE, kinds |-> KindsAsked(given),
         outcome |-> AsString(given, "outcome"), guard |-> AsString(given, "guard"),
         session |-> AsString(given, "session-id"), claim |-> AsString(given, "claim-id"),
         since |-> n, before |-> AsNumber(given, "before"),
         limit |-> AsNumber(given, "limit"), order |-> "oldest"]
  BY <1>5, <1>7, <1>8, <1>9, <1>10
<1> QED
  BY <1>4, <1>11 DEF longer

(* With the first row behind it a line asks for the same rows, up to the   *)
(* one before it, and keeps its order and its limit.                       *)
LEMMA ReadBackParsed ==
  ASSUME NEW line \in EventLines, ParseEvents(line) # Nothing, NEW n \in Int
  PROVE  LET p == ParseEvents(line \o <<Flag("before"), Number(n)>>)
             q == ParseEvents(line)
         IN /\ p.kinds = q.kinds /\ p.outcome = q.outcome /\ p.guard = q.guard
            /\ p.session = q.session /\ p.claim = q.claim
            /\ p.since = q.since /\ p.before = n /\ p.limit = q.limit /\ p.order = q.order
<1> DEFINE longer == line \o <<Flag("before"), Number(n)>>
           given  == ParseFlags(line)
           more   == ParseFlags(longer)
<1>1. /\ DOMAIN more = DOMAIN given \cup {"before"}
      /\ \A other \in DOMAIN given \ {"before"} : more[other] = given[other]
      /\ more["before"] = Number(n)
      /\ Unknown(longer) = Unknown(line)
  <2>1. "before" \in EventFlags
    BY DEF EventFlags
  <2> HIDE DEF given, more
  <2>2. /\ DOMAIN ParseFlags(longer) = DOMAIN ParseFlags(line) \cup {"before"}
        /\ \A other \in DOMAIN ParseFlags(line) \ {"before"} :
             ParseFlags(longer)[other] = ParseFlags(line)[other]
        /\ ParseFlags(longer)["before"] = Number(n)
        /\ Unknown(longer) = Unknown(line)
    BY <2>1, WordsAdded, Zenon DEF longer
  <2> QED
    BY <2>2 DEF given, more
<1>2. Unknown(line) = {}
  BY EventsParsed
<1>3. Unknown(longer) = {}
  BY <1>1, <1>2
<1>4. ParseEvents(line) =
        [ok |-> TRUE, kinds |-> KindsAsked(given),
         outcome |-> AsString(given, "outcome"), guard |-> AsString(given, "guard"),
         session |-> AsString(given, "session-id"), claim |-> AsString(given, "claim-id"),
         since |-> AsNumber(given, "since"), before |-> AsNumber(given, "before"),
         limit |-> AsNumber(given, "limit"), order |-> OrderAsked(given)]
  BY EventsParsed
<1>5. ParseEvents(longer) =
        [ok |-> TRUE, kinds |-> KindsAsked(more),
         outcome |-> AsString(more, "outcome"), guard |-> AsString(more, "guard"),
         session |-> AsString(more, "session-id"), claim |-> AsString(more, "claim-id"),
         since |-> AsNumber(more, "since"), before |-> AsNumber(more, "before"),
         limit |-> AsNumber(more, "limit"), order |-> OrderAsked(more)]
  BY <1>3 DEF ParseEvents
<1> HIDE DEF longer, given, more
<1>6. \A other \in {"kind", "outcome", "guard", "session-id", "claim-id", "since", "limit"} :
        /\ other \in DOMAIN more <=> other \in DOMAIN given
        /\ other \in DOMAIN given => more[other] = given[other]
  BY <1>1
<1>7. \A other \in {"kind", "outcome", "guard", "session-id", "claim-id", "since", "limit"} :
        AsString(more, other) = AsString(given, other) /\ AsNumber(more, other) = AsNumber(given, other)
  BY <1>6, SameField
<1>8. KindsAsked(more) = KindsAsked(given)
  <2>1. AsString(more, "kind") = AsString(given, "kind")
    BY <1>7
  <2>2. CASE AsString(given, "kind") = Null
    BY <2>1, <2>2 DEF KindsAsked
  <2>3. CASE AsString(given, "kind") # Null
    <3>1. "kind" \in DOMAIN given
      BY <2>3 DEF AsString
    <3>2. more["kind"] = given["kind"]
      BY <1>6, <3>1
    <3> QED
      BY <2>1, <2>3, <3>2 DEF KindsAsked
  <2> QED
    BY <2>2, <2>3
<1>9. AsNumber(more, "before") = n
  BY <1>1 DEF AsNumber, Number
<1>10. OrderAsked(more) = OrderAsked(given)
  BY <1>6 DEF OrderAsked
<1>11. ParseEvents(longer) =
        [ok |-> TRUE, kinds |-> KindsAsked(given),
         outcome |-> AsString(given, "outcome"), guard |-> AsString(given, "guard"),
         session |-> AsString(given, "session-id"), claim |-> AsString(given, "claim-id"),
         since |-> AsNumber(given, "since"), before |-> n,
         limit |-> AsNumber(given, "limit"), order |-> OrderAsked(given)]
  BY <1>5, <1>7, <1>8, <1>9, <1>10
<1> QED
  BY <1>4, <1>11 DEF longer

-----------------------------------------------------------------------------
(* A page of the ledger.                                                   *)

(* A page has room for at least one row.                                   *)
LEMMA LimitIsWhole ==
  ASSUME NEW limit \in WholeOrNull
  PROVE  ClampLimit(limit) \in Int /\ ClampLimit(limit) >= 1 /\ ClampLimit(limit) # Null
BY ReadersAssumption DEF ClampLimit, WholeOrNull

(* The rows that match are finitely many places of the ledger.             *)
LEMMA MatchingIsFinite ==
  ASSUME NEW S, events \in Seq(S), NEW q
  PROVE  Matching(q) \in SUBSET (1 .. Len(events)) /\ IsFiniteSet(Matching(q))
         /\ Matching(q) \in SUBSET Int
<1>1. Matching(q) \in SUBSET (1 .. Len(events)) /\ Len(events) \in Nat
  BY DEF Matching
<1>2. IsFiniteSet(1 .. Len(events))
  BY <1>1, FS_Interval
<1>3. IsFiniteSet(Matching(q))
  BY <1>1, <1>2, FS_Subset
<1> QED
  BY <1>1, <1>3

Got(q) == InOrder(q, ReadLedger(q))

(* A page is in order, leaves nothing out on the side it begins from, and  *)
(* its cursor is its last row.                                             *)
LEMMA PageOfLedger ==
  ASSUME NEW S, events \in Seq(S), NEW q, q.limit \in WholeOrNull
  PROVE  /\ Got(q) \in Seq(Matching(q)) /\ Rises(Got(q))
         /\ q.order = "oldest" => NoGapBelow(Matching(q), Got(q))
         /\ q.order # "oldest" => NoGapAbove(Matching(q), Got(q))
         /\ ReadLedger(q).cursor = IF Got(q) = << >> THEN Null ELSE Got(q)[Len(Got(q))]
<1> DEFINE M == Matching(q)
           k == ClampLimit(q.limit)
           entries == ReadLedger(q).entries
<1>1. M \in SUBSET Int /\ IsFiniteSet(M) /\ k \in Int
  BY MatchingIsFinite, LimitIsWhole
<1>2. entries = First(IF q.order = "oldest" THEN Ascending(M) ELSE Descending(M), k)
  BY DEF ReadLedger
<1>3. ReadLedger(q).cursor =
        IF entries = << >> THEN Null
        ELSE CHOOSE i \in ToSet(entries) : \A j \in ToSet(entries) : j <= i
  BY DEF ReadLedger
<1>4. Got(q) = IF q.order = "oldest" THEN entries ELSE Reverse(entries)
  BY DEF Got, InOrder
<1> HIDE DEF M, k, entries
<1>5. /\ Got(q) \in Seq(M) /\ Rises(Got(q))
      /\ q.order = "oldest" => NoGapBelow(M, Got(q))
      /\ q.order # "oldest" => NoGapAbove(M, Got(q))
      /\ entries \in Seq(M) /\ Len(Got(q)) = Len(entries)
      /\ \A i \in 1 .. Len(entries) : \E j \in 1 .. Len(entries) : Got(q)[j] = entries[i]
  <2>1. CASE q.order = "oldest"
    BY <1>1, <1>2, <1>4, <2>1, OldestPage
  <2>2. CASE q.order # "oldest"
    BY <1>1, <1>2, <1>4, <2>2, ReversedPage
  <2> QED
    BY <2>1, <2>2
<1>6. \A i \in 1 .. Len(entries) : \E j \in 1 .. Len(entries) : entries[j] = Got(q)[i]
  <2>1. CASE q.order = "oldest"
    BY <1>4, <2>1
  <2>2. CASE q.order # "oldest"
    <3>1. Got(q) = [i \in 1 .. Len(entries) |-> entries[(Len(entries) - i) + 1]]
      BY <1>4, <2>2 DEF Reverse
    <3> QED
      BY <1>5, <3>1
  <2> QED
    BY <2>1, <2>2
<1>7. Len(entries) \in Nat /\ (entries = << >> <=> Len(entries) = 0) /\ (Got(q) = << >> <=> Len(Got(q)) = 0)
  BY <1>5
<1>8. CASE Got(q) = << >>
  BY <1>3, <1>5, <1>7, <1>8 DEF M
<1>9. CASE Got(q) # << >>
  <2> DEFINE n == Len(entries)
             last == Got(q)[n]
  <2>1. n \in 1 .. n /\ n \in Nat
    BY <1>5, <1>7, <1>9
  <2> HIDE DEF n, last
  <2>2. \A i \in 1 .. n : Got(q)[i] \in Int
    <3>1. \A i \in 1 .. Len(Got(q)) : Got(q)[i] \in M
      BY <1>5, ElementOfSeq
    <3>2. n = Len(Got(q))
      BY <1>5 DEF n
    <3> QED
      BY <1>1, <3>1, <3>2
  <2>3. \A i \in 1 .. n : Got(q)[i] <= last
    <3> TAKE i \in 1 .. n
    <3>0. Got(q)[i] \in Int /\ last \in Int /\ n = Len(Got(q))
      BY <1>5, <2>1, <2>2 DEF last, n
    <3>1. CASE i = n
      BY <3>0, <3>1 DEF last
    <3>2. CASE i < n
      <4>1. Got(q)[i] < Got(q)[n]
        BY <1>5, <2>1, <3>0, <3>2 DEF Rises
      <4> QED
        BY <3>0, <4>1 DEF last
    <3> QED
      BY <2>1, <3>1, <3>2
  <2>4. ToSet(entries) = {entries[i] : i \in 1 .. n}
    <3>1. DOMAIN entries = 1 .. n
      BY <1>5 DEF n
    <3> QED
      BY <3>1 DEF ToSet
  <2>4a. \A i \in 1 .. n : \E j \in 1 .. n : Got(q)[j] = entries[i]
    BY <1>5 DEF n
  <2>4b. \E j \in 1 .. n : entries[j] = last
    BY <1>6, <2>1 DEF last, n
  <2>5. last \in ToSet(entries) /\ \A j \in ToSet(entries) : j <= last /\ j \in Int
    <3>1. last \in ToSet(entries)
      BY <2>4, <2>4b
    <3>2. \A j \in ToSet(entries) : j <= last /\ j \in Int
      BY <2>2, <2>3, <2>4, <2>4a
    <3> QED
      BY <3>1, <3>2
  <2>6. \A i \in ToSet(entries) : (\A j \in ToSet(entries) : j <= i) => i = last
    BY <2>5
  <2>7. (CHOOSE i \in ToSet(entries) : \A j \in ToSet(entries) : j <= i) = last
    BY <2>5, <2>6
  <2>8. entries # << >>
    BY <1>5, <1>7, <1>9
  <2>9. ReadLedger(q).cursor = last
    BY <1>3, <2>7, <2>8
  <2> QED
    BY <1>5, <1>9, <2>9 DEF last, n, M
<1> QED
  BY <1>5, <1>8, <1>9 DEF M

-----------------------------------------------------------------------------
(* What was printed, page after page.                                      *)

Elements(s) == {s[i] : i \in 1 .. Len(s)}

(* The ends of a rising sequence are its least and its greatest.           *)
LEMMA EndsOfRising ==
  ASSUME NEW s \in Seq(Int), Rises(s), NEW x \in Elements(s)
  PROVE  s[1] <= x /\ x <= s[Len(s)] /\ s[1] \in Elements(s) /\ s[Len(s)] \in Elements(s)
<1> DEFINE n == Len(s)
<1>1. PICK i \in 1 .. n : s[i] = x
  BY DEF Elements
<1>2. n \in Nat /\ 1 \in 1 .. n /\ n \in 1 .. n
  BY <1>1
<1>3. s[i] \in Int /\ s[1] \in Int /\ s[n] \in Int
  BY <1>1, <1>2, ElementOfSeq
<1>4. (1 < i => s[1] < s[i]) /\ (i < n => s[i] < s[n])
  BY <1>1, <1>2 DEF Rises
<1>5. s[1] <= x /\ x <= s[n]
  BY <1>1, <1>2, <1>3, <1>4
<1>6. s[1] \in Elements(s) /\ s[n] \in Elements(s)
  BY <1>2 DEF Elements
<1> QED
  BY <1>5, <1>6

(* Two rising sequences, one below the other, are one rising sequence.     *)
LEMMA Joined ==
  ASSUME NEW a \in Seq(Int), NEW b \in Seq(Int), Rises(a), Rises(b),
         \A x \in Elements(a), y \in Elements(b) : x < y
  PROVE  /\ a \o b \in Seq(Int) /\ Rises(a \o b)
         /\ Elements(a \o b) = Elements(a) \cup Elements(b)
         /\ a # << >> => (a \o b)[1] = a[1]
         /\ b # << >> => (a \o b)[Len(a \o b)] = b[Len(b)]
<1> DEFINE s == a \o b
           m == Len(a)
           n == Len(b)
<1>1. m \in Nat /\ n \in Nat /\ (a # << >> => m # 0) /\ (b # << >> => n # 0)
  BY EmptySeq
<1>2. /\ s \in Seq(Int) /\ Len(s) = m + n
      /\ \A i \in 1 .. m + n : s[i] = IF i <= m THEN a[i] ELSE b[i - m]
  BY ConcatProperties
<1> HIDE DEF s
<1>3. \A i \in 1 .. m : i \in 1 .. m + n /\ s[i] = a[i] /\ a[i] \in Elements(a)
  BY <1>1, <1>2 DEF Elements
<1>4. \A i \in 1 .. n : i + m \in 1 .. m + n /\ s[i + m] = b[i]
  <2> TAKE i \in 1 .. n
  <2>1. i + m \in 1 .. m + n /\ ~(i + m <= m) /\ (i + m) - m = i
    BY <1>1
  <2> QED
    BY <1>2, <2>1
<1>5. \A i \in 1 .. m + n : i \in 1 .. m \/ (i > m /\ i - m \in 1 .. n /\ s[i] = b[i - m] /\ b[i - m] \in Elements(b))
  <2> TAKE i \in 1 .. m + n
  <2>1. i <= m \/ (i > m /\ i - m \in 1 .. n)
    BY <1>1
  <2> QED
    BY <1>1, <1>2, <2>1 DEF Elements
<1>6. ASSUME NEW i \in 1 .. m + n, NEW j \in 1 .. m + n, i < j PROVE s[i] < s[j]
  <2>1. CASE i \in 1 .. m /\ j \in 1 .. m
    BY <1>3, <1>6, <2>1 DEF Rises
  <2>2. CASE i \in 1 .. m /\ j \notin 1 .. m
    BY <1>3, <1>5, <2>2
  <2>3. CASE i \notin 1 .. m
    <3>1. i - m \in 1 .. n /\ j - m \in 1 .. n /\ i - m < j - m
      BY <1>1, <1>5, <1>6, <2>3
    <3>2. s[i] = b[i - m] /\ s[j] = b[j - m]
      BY <1>1, <1>5, <1>6, <2>3
    <3>3. b[i - m] < b[j - m]
      BY <3>1 DEF Rises
    <3> QED
      BY <3>2, <3>3
  <2> QED
    BY <2>1, <2>2, <2>3
<1>7. Rises(s)
  BY <1>2, <1>6 DEF Rises
<1>8. Elements(s) = Elements(a) \cup Elements(b)
  <2>1. ASSUME NEW x \in Elements(s) PROVE x \in Elements(a) \cup Elements(b)
    <3>1. PICK i \in 1 .. m + n : s[i] = x
      BY <1>2 DEF Elements
    <3> QED
      BY <1>3, <1>5, <3>1
  <2>2. ASSUME NEW x \in Elements(a) PROVE x \in Elements(s)
    <3>1. PICK i \in 1 .. m : a[i] = x
      BY DEF Elements
    <3> QED
      BY <1>2, <1>3, <3>1 DEF Elements
  <2>3. ASSUME NEW x \in Elements(b) PROVE x \in Elements(s)
    <3>1. PICK i \in 1 .. n : b[i] = x
      BY DEF Elements
    <3> QED
      BY <1>2, <1>4, <3>1 DEF Elements
  <2> QED
    BY <2>1, <2>2, <2>3
<1>9. a # << >> => s[1] = a[1]
  <2>1. a # << >> => 1 \in 1 .. m
    BY <1>1
  <2> QED
    BY <1>3, <2>1
<1>10. b # << >> => s[Len(s)] = b[n]
  <2>1. b # << >> => n \in 1 .. n /\ n + m = Len(s)
    BY <1>1, <1>2
  <2> QED
    BY <1>4, <2>1
<1> QED
  BY <1>2, <1>7, <1>8, <1>9, <1>10 DEF s

(* What q asks for, from whatever row on.                                  *)
Wanted(q, i) ==
  /\ q.kinds # {} => events[i].kind \in q.kinds
  /\ IsOrAny(q.outcome, events[i].outcome)
  /\ IsOrAny(q.guard, events[i].guard)
  /\ IsOrAny(q.session, events[i].session)
  /\ IsOrAny(q.claim, events[i].claim)
  /\ q.before # Null => i < q.before

Between(q, first, last) == {i \in DOMAIN events : Wanted(q, i) /\ first <= i /\ i <= last}

(* The rows that were printed are those q wants between the first and the  *)
(* last of them; if they were asked for from a row on, none that matches   *)
(* was passed over before the first.                                       *)
Follows(q, seen) ==
  /\ seen \in Seq(Int) /\ seen # << >> /\ Rises(seen)
  /\ Elements(seen) = Between(q, seen[1], seen[Len(seen)])
  /\ q.order = "oldest" => \A i \in Matching(q) : seen[1] <= i

(* A row matches if it is wanted and comes after the point asked for.      *)
LEMMA MatchesIsWanted ==
  \A q, i : Matches(q, i) <=> Wanted(q, i) /\ (q.since # Null => i > q.since)
BY Zenon DEF Matches, Wanted

(* The numbers a line asks for are whole; only who asks for what came      *)
(* after a point reads from the oldest on.                                 *)
LEMMA QueryTyped ==
  ASSUME NEW line \in EventLines, ParseEvents(line) # Nothing
  PROVE  LET q == ParseEvents(line) IN
         /\ q.since \in WholeOrNull /\ q.before \in WholeOrNull /\ q.limit \in WholeOrNull
         /\ q.order # "oldest" => q.since = Null
<1> DEFINE given == ParseFlags(line)
           q == ParseEvents(line)
<1>1. /\ q.since = AsNumber(given, "since") /\ q.before = AsNumber(given, "before")
      /\ q.limit = AsNumber(given, "limit") /\ q.order = OrderAsked(given)
  BY EventsParsed
<1>2. \A name : AsNumber(given, name) \in WholeOrNull
  BY NumbersAreWhole
<1>3. OrderAsked(given) # "oldest" => AsNumber(given, "since") = Null
  BY DEF OrderAsked, AsNumber
<1> HIDE DEF q, given
<1>4. /\ q.since \in WholeOrNull /\ q.before \in WholeOrNull /\ q.limit \in WholeOrNull
      /\ q.order # "oldest" => q.since = Null
  BY <1>1, <1>2, <1>3
<1> QED
  BY <1>4 DEF q

(* What a page has of the rows that match, and which it leaves out.        *)
LEMMA OfPage ==
  ASSUME NEW S, events \in Seq(S), NEW q, q.limit \in WholeOrNull
  PROVE  /\ Got(q) \in Seq(Int) /\ Rises(Got(q)) /\ Elements(Got(q)) \subseteq Matching(q)
         /\ Matching(q) \in SUBSET Int /\ Matching(q) \subseteq DOMAIN events
         /\ q.order = "oldest" =>
              \A x \in Matching(q), y \in Elements(Got(q)) : x <= y => x \in Elements(Got(q))
         /\ q.order # "oldest" =>
              \A x \in Matching(q), y \in Elements(Got(q)) : x >= y => x \in Elements(Got(q))
<1> DEFINE M == Matching(q)
           got == Got(q)
<1>1. /\ got \in Seq(M) /\ Rises(got)
      /\ q.order = "oldest" => NoGapBelow(M, got)
      /\ q.order # "oldest" => NoGapAbove(M, got)
  BY PageOfLedger
<1>2. M \in SUBSET Int /\ M \subseteq DOMAIN events
  BY MatchingIsFinite
<1> HIDE DEF M, got
<1>3. got \in Seq(Int)
  BY <1>1, <1>2, SeqMonotonic
<1>4. Elements(got) \subseteq M
  BY <1>1, ElementOfSeq DEF Elements
<1>5. q.order = "oldest" => \A x \in M, y \in Elements(got) : x <= y => x \in Elements(got)
  BY <1>1 DEF NoGapBelow, Elements
<1>6. q.order # "oldest" => \A x \in M, y \in Elements(got) : x >= y => x \in Elements(got)
  BY <1>1 DEF NoGapAbove, Elements
<1> QED
  BY <1>1, <1>2, <1>3, <1>4, <1>5, <1>6 DEF M, got

(* A first page that is not empty has every row between its ends.          *)
LEMMA FirstPage ==
  ASSUME NEW S, events \in Seq(S), NEW line \in EventLines, ParseEvents(line) # Nothing,
         Got(ParseEvents(line)) # << >>
  PROVE  Follows(ParseEvents(line), Got(ParseEvents(line)))
<1> DEFINE q == ParseEvents(line)
           got == Got(q)
           first == got[1]
           last == got[Len(got)]
<1>1. /\ q.since \in WholeOrNull /\ q.limit \in WholeOrNull
      /\ q.order # "oldest" => q.since = Null
  BY QueryTyped
<1> HIDE DEF q
<1>2. /\ got \in Seq(Int) /\ Rises(got) /\ Elements(got) \subseteq Matching(q)
      /\ Matching(q) \in SUBSET Int /\ Matching(q) \subseteq DOMAIN events
      /\ q.order = "oldest" =>
           \A x \in Matching(q), y \in Elements(got) : x <= y => x \in Elements(got)
      /\ q.order # "oldest" =>
           \A x \in Matching(q), y \in Elements(got) : x >= y => x \in Elements(got)
  BY <1>1, OfPage
<1>3. got # << >>
  BY DEF q
<1> HIDE DEF got
<1>4. first \in Elements(got) /\ last \in Elements(got)
  <2>1. Len(got) \in Nat /\ Len(got) # 0
    BY <1>2, <1>3, EmptySeq
  <2>2. 1 \in 1 .. Len(got) /\ Len(got) \in 1 .. Len(got)
    BY <2>1
  <2> QED
    BY <2>2 DEF Elements
<1>5. \A x \in Elements(got) : first <= x /\ x <= last
  BY <1>2, EndsOfRising
<1> HIDE DEF first, last
<1>6. \A i : i \in Matching(q) <=> i \in DOMAIN events /\ Wanted(q, i) /\ (q.since # Null => i > q.since)
  BY MatchesIsWanted DEF Matching
<1>7. Elements(got) \subseteq Between(q, first, last)
  BY <1>2, <1>5, <1>6 DEF Between
<1>8. ASSUME NEW i \in Between(q, first, last) PROVE i \in Elements(got)
  <2>1. i \in DOMAIN events /\ Wanted(q, i) /\ first <= i /\ i <= last
    BY DEF Between
  <2>2. i \in Int /\ first \in Int /\ last \in Int
    <3>1. DOMAIN events \subseteq Int
      OBVIOUS
    <3> QED
      BY <1>2, <1>4, <2>1, <3>1
  <2>3. i \in Matching(q)
    <3>1. CASE q.since = Null
      BY <1>6, <2>1, <3>1
    <3>2. CASE q.since # Null
      <4>1. first > q.since /\ q.since \in Int
        BY <1>1, <1>2, <1>4, <1>6, <3>2 DEF WholeOrNull
      <4>2. i > q.since
        BY <2>1, <2>2, <4>1
      <4> QED
        BY <1>6, <2>1, <4>2
    <3> QED
      BY <3>1, <3>2
  <2> QED
    BY <1>2, <1>4, <2>1, <2>2, <2>3
<1>9. q.order = "oldest" => \A i \in Matching(q) : first <= i
  <2> SUFFICES ASSUME q.order = "oldest", NEW i \in Matching(q) PROVE first <= i
    OBVIOUS
  <2>1. i \in Int /\ first \in Int
    BY <1>2, <1>4
  <2>2. i <= first => i \in Elements(got)
    BY <1>2, <1>4
  <2> QED
    BY <1>5, <2>1, <2>2
<1>10. Elements(got) = Between(q, first, last)
  BY <1>7, <1>8
<1> QED
  BY <1>2, <1>3, <1>9, <1>10 DEF Follows, q, got, first, last

(* p asks for rows of the same kinds, outcome and so on as q.              *)
AsksAlike(p, q) ==
  /\ p.kinds = q.kinds /\ p.outcome = q.outcome /\ p.guard = q.guard
  /\ p.session = q.session /\ p.claim = q.claim

(* So has what was printed with the next page behind it.                   *)
LEMMA NextPage ==
  ASSUME NEW S, events \in Seq(S), NEW q, NEW p, NEW seen, Follows(q, seen),
         p.limit \in WholeOrNull, Null \notin Int,
         AsksAlike(p, q), p.before = q.before,
         p.since = seen[Len(seen)], p.order = "oldest"
  PROVE  /\ Follows(q, seen \o Got(p))
         /\ Got(p) = << >> => (seen \o Got(p))[Len(seen \o Got(p))] = seen[Len(seen)]
         /\ Got(p) # << >> => (seen \o Got(p))[Len(seen \o Got(p))] = Got(p)[Len(Got(p))]
<1> DEFINE got == Got(p)
           s == seen \o got
           c == seen[Len(seen)]
<1>1. /\ seen \in Seq(Int) /\ seen # << >> /\ Rises(seen)
      /\ Elements(seen) = Between(q, seen[1], c)
      /\ q.order = "oldest" => \A i \in Matching(q) : seen[1] <= i
  BY DEF Follows
<1>2. /\ got \in Seq(Int) /\ Rises(got) /\ Elements(got) \subseteq Matching(p)
      /\ Matching(p) \in SUBSET Int
      /\ \A x \in Matching(p), y \in Elements(got) : x <= y => x \in Elements(got)
  BY OfPage
<1>3. 1 \in 1 .. Len(seen) /\ Len(seen) \in 1 .. Len(seen)
  <2>1. Len(seen) \in Nat /\ Len(seen) # 0
    BY <1>1, EmptySeq
  <2> QED
    BY <2>1
<1>4. c \in Int /\ seen[1] \in Int /\ c \in Elements(seen) /\ seen[1] \in Elements(seen)
  BY <1>1, <1>3, ElementOfSeq DEF Elements
<1>5. \A i : i \in Matching(p) <=> i \in DOMAIN events /\ Wanted(q, i) /\ i > c
  <2>1. c # Null
    BY <1>4
  <2>2. \A i : Wanted(p, i) <=> Wanted(q, i)
    BY DEF Wanted, AsksAlike
  <2> QED
    BY <2>1, <2>2, MatchesIsWanted DEF Matching
<1> HIDE DEF c, got
<1>6. \A x \in Elements(seen) : x \in Int /\ seen[1] <= x /\ x <= c
  <2>1. \A x \in Elements(seen) : seen[1] <= x /\ x <= c
    BY <1>1, EndsOfRising DEF c
  <2>2. \A x \in Elements(seen) : x \in Int
    BY <1>1, ElementOfSeq DEF Elements
  <2> QED
    BY <2>1, <2>2
<1>7. \A x \in Elements(got) : x \in Int /\ x > c
  BY <1>2, <1>5
<1>8. /\ s \in Seq(Int) /\ Rises(s) /\ Elements(s) = Elements(seen) \cup Elements(got)
      /\ s[1] = seen[1]
      /\ got # << >> => s[Len(s)] = got[Len(got)]
  <2>1. \A x \in Elements(seen), y \in Elements(got) : x < y
    BY <1>4, <1>6, <1>7
  <2> QED
    BY <1>1, <1>2, <2>1, Joined
<1>9. got = << >> => s = seen
  BY <1>1
<1>10. s # << >>
  <2>1. Elements(s) # {}
    BY <1>4, <1>8
  <2> QED
    BY <2>1 DEF Elements
<1> HIDE DEF s
<1>11. CASE got = << >>
  BY <1>9, <1>11 DEF s, c, got
<1>12. CASE got # << >>
  <2> DEFINE last == got[Len(got)]
  <2>1. last \in Elements(got) /\ \A x \in Elements(got) : x <= last
    <3>1. Len(got) \in Nat /\ Len(got) # 0
      BY <1>2, <1>12, EmptySeq
    <3>2. got[Len(got)] \in Elements(got)
      BY <3>1 DEF Elements
    <3> QED
      BY <1>2, <3>2, EndsOfRising
  <2>2. last \in Int /\ last > c /\ s[Len(s)] = last
    BY <1>7, <1>8, <1>12, <2>1
  <2> HIDE DEF last
  <2>3. ASSUME NEW i \in Between(q, seen[1], last) PROVE i \in Elements(s)
    <3>1. i \in DOMAIN events /\ Wanted(q, i) /\ seen[1] <= i /\ i <= last
      BY DEF Between
    <3>2. i \in Int
      BY <3>1
    <3>3. CASE i <= c
      BY <1>1, <1>8, <3>1, <3>3 DEF Between, c
    <3>4. CASE i > c
      BY <1>2, <1>5, <1>8, <2>1, <3>1, <3>4
    <3> QED
      BY <1>4, <3>2, <3>3, <3>4
  <2>4. ASSUME NEW i \in Elements(s) PROVE i \in Between(q, seen[1], last)
    <3>1. CASE i \in Elements(seen)
      <4>1. i \in DOMAIN events /\ Wanted(q, i)
        BY <1>1, <3>1 DEF Between, c
      <4>2. seen[1] <= i /\ i <= last
        <5>1. i \in Int /\ seen[1] <= i /\ i <= c
          BY <1>6, <3>1
        <5>2. c \in Int /\ last \in Int /\ c < last
          BY <1>4, <2>2
        <5> QED
          BY <5>1, <5>2
      <4> QED
        BY <4>1, <4>2 DEF Between
    <3>2. CASE i \in Elements(got)
      <4>1. i \in DOMAIN events /\ Wanted(q, i)
        BY <1>2, <1>5, <3>2
      <4>2. seen[1] <= i /\ i <= last
        <5>1. i \in Int /\ i > c /\ seen[1] <= c
          BY <1>4, <1>6, <1>7, <3>2
        <5>2. i <= last
          BY <2>1, <3>2
        <5> QED
          BY <1>4, <5>1, <5>2
      <4> QED
        BY <4>1, <4>2 DEF Between
    <3> QED
      BY <1>8, <3>1, <3>2
  <2>5. Elements(s) = Between(q, s[1], s[Len(s)])
    BY <1>8, <2>2, <2>3, <2>4
  <2>6. Follows(q, s)
    BY <1>1, <1>8, <1>10, <2>5 DEF Follows
  <2> QED
    BY <1>8, <1>12, <2>6 DEF s, got
<1> QED
  BY <1>11, <1>12

(* p asks for what q does, before the first row of `seen`.                 *)
AsksBefore(p, q, seen) ==
  /\ AsksAlike(p, q) /\ p.since = q.since /\ p.order = q.order
  /\ p.limit \in WholeOrNull /\ q.since \in WholeOrNull /\ q.before \in WholeOrNull
  /\ q.order # "oldest" => q.since = Null
  /\ p.before = seen[1]

EndAlike(s, t) == s[Len(s)] = t[Len(t)]

(* And with the page before it in front.                                   *)
LEMMA EarlierPage ==
  ASSUME NEW S, events \in Seq(S), NEW q, NEW p, NEW seen, Follows(q, seen),
         AsksBefore(p, q, seen), Null \notin Int
  PROVE  Follows(q, Got(p) \o seen) /\ EndAlike(Got(p) \o seen, seen)
<1> DEFINE got == Got(p)
           s == got \o seen
           h == seen[1]
           c == seen[Len(seen)]
<1>0. /\ p.limit \in WholeOrNull /\ q.since \in WholeOrNull /\ q.before \in WholeOrNull
      /\ q.order # "oldest" => q.since = Null
      /\ AsksAlike(p, q) /\ p.since = q.since /\ p.order = q.order /\ p.before = h
  BY DEF AsksBefore
<1>1. /\ seen \in Seq(Int) /\ seen # << >> /\ Rises(seen)
      /\ Elements(seen) = Between(q, h, c)
      /\ q.order = "oldest" => \A i \in Matching(q) : h <= i
  BY DEF Follows
<1>2. /\ got \in Seq(Int) /\ Rises(got) /\ Elements(got) \subseteq Matching(p)
      /\ Matching(p) \in SUBSET Int
      /\ q.order # "oldest" =>
           \A x \in Matching(p), y \in Elements(got) : x >= y => x \in Elements(got)
  BY <1>0, OfPage
<1>3. 1 \in 1 .. Len(seen) /\ Len(seen) \in 1 .. Len(seen)
  <2>1. Len(seen) \in Nat /\ Len(seen) # 0
    BY <1>1, EmptySeq
  <2> QED
    BY <2>1
<1>4. c \in Int /\ h \in Int /\ c \in Elements(seen) /\ h \in Elements(seen)
  BY <1>1, <1>3, ElementOfSeq DEF Elements
<1>5. \A x \in Elements(seen) : x \in Int /\ h <= x /\ x <= c
  <2>1. \A x \in Elements(seen) : h <= x /\ x <= c
    BY <1>1, EndsOfRising
  <2>2. \A x \in Elements(seen) : x \in Int
    BY <1>1, ElementOfSeq DEF Elements
  <2> QED
    BY <2>1, <2>2
<1>6. ASSUME NEW i \in Int
      PROVE  i \in Matching(p) <=> i \in DOMAIN events /\ Wanted(q, i) /\ i < h /\ (q.since # Null => i > q.since)
  <2>1. h # Null
    BY <1>4
  <2>2. Wanted(p, i) <=> Wanted(q, i) /\ i < h
    <3>1. i < h => (q.before # Null => i < q.before)
      <4>1. q.before # Null => h < q.before /\ q.before \in Int
        BY <1>0, <1>1, <1>4 DEF Between, Wanted, WholeOrNull
      <4> QED
        BY <1>4, <4>1
    <3> QED
      BY <1>0, <2>1, <3>1 DEF Wanted, AsksAlike
  <2> QED
    BY <1>0, <2>2, MatchesIsWanted DEF Matching
<1>7. q.order = "oldest" => Elements(got) = {}
  <2> SUFFICES ASSUME q.order = "oldest", NEW i \in Elements(got) PROVE FALSE
    OBVIOUS
  <2>1. i \in Int /\ i \in DOMAIN events /\ Wanted(q, i) /\ i < h /\ (q.since # Null => i > q.since)
    BY <1>2, <1>6
  <2>2. i \in Matching(q)
    BY <2>1, MatchesIsWanted DEF Matching
  <2> QED
    BY <1>1, <1>4, <2>1, <2>2
<1> HIDE DEF c, h, got
<1>8. \A x \in Elements(got) : x \in Int /\ x < h
  BY <1>2, <1>6
<1>9. /\ s \in Seq(Int) /\ Rises(s) /\ Elements(s) = Elements(seen) \cup Elements(got)
      /\ s[Len(s)] = c
      /\ got # << >> => s[1] = got[1]
  <2>1. \A x \in Elements(got), y \in Elements(seen) : x < y
    BY <1>4, <1>5, <1>8
  <2> QED
    BY <1>1, <1>2, <2>1, Joined DEF c
<1>10. s # << >>
  <2>1. Elements(s) # {}
    BY <1>4, <1>9
  <2> QED
    BY <2>1 DEF Elements
<1>11. got = << >> => s = seen
  BY <1>1
<1> HIDE DEF s
<1>12. CASE got = << >>
  BY <1>11, <1>12 DEF s, got, EndAlike
<1>13. CASE got # << >>
  <2> DEFINE first == got[1]
  <2>1. first \in Elements(got) /\ \A x \in Elements(got) : first <= x
    <3>1. Len(got) \in Nat /\ Len(got) # 0
      BY <1>2, <1>13, EmptySeq
    <3>2. got[1] \in Elements(got)
      BY <3>1 DEF Elements
    <3> QED
      BY <1>2, <3>2, EndsOfRising
  <2>2. first \in Int /\ first < h /\ s[1] = first /\ q.order # "oldest"
    BY <1>7, <1>8, <1>9, <1>13, <2>1
  <2> HIDE DEF first
  <2>3. ASSUME NEW i \in Between(q, first, c) PROVE i \in Elements(s)
    <3>1. i \in DOMAIN events /\ Wanted(q, i) /\ first <= i /\ i <= c
      BY DEF Between
    <3>2. i \in Int
      BY <3>1
    <3>3. CASE i >= h
      BY <1>1, <1>9, <3>1, <3>3 DEF Between, c, h
    <3>4. CASE i < h
      <4>1. q.since # Null => i > q.since
        BY <1>0, <2>2
      <4>2. i \in Matching(p)
        BY <1>6, <3>1, <3>2, <3>4, <4>1
      <4>3. i \in Elements(got)
        BY <1>2, <2>1, <2>2, <3>1, <3>2, <4>2
      <4> QED
        BY <1>9, <4>3
    <3>5. i >= h \/ i < h
      BY <1>4, <3>2
    <3> QED
      BY <3>3, <3>4, <3>5
  <2>4. ASSUME NEW i \in Elements(s) PROVE i \in Between(q, first, c)
    <3>1. CASE i \in Elements(seen)
      <4>1. i \in DOMAIN events /\ Wanted(q, i)
        BY <1>1, <3>1 DEF Between, c, h
      <4>2. first <= i /\ i <= c
        <5>1. i \in Int /\ h <= i /\ i <= c
          BY <1>5, <3>1
        <5>2. h \in Int /\ first \in Int /\ first < h
          BY <1>4, <2>2
        <5> QED
          BY <5>1, <5>2
      <4> QED
        BY <4>1, <4>2 DEF Between
    <3>2. CASE i \in Elements(got)
      <4>1. i \in DOMAIN events /\ Wanted(q, i)
        BY <1>2, <1>6, <1>8, <3>2
      <4>2. first <= i /\ i <= c
        <5>1. i \in Int /\ i < h /\ h <= c
          BY <1>4, <1>5, <1>8, <3>2
        <5>2. first <= i
          BY <2>1, <3>2
        <5> QED
          BY <1>4, <5>1, <5>2
      <4> QED
        BY <4>1, <4>2 DEF Between
    <3> QED
      BY <1>9, <3>1, <3>2
  <2>5. Elements(s) = Between(q, s[1], s[Len(s)])
    BY <1>9, <2>2, <2>3, <2>4
  <2>6. Follows(q, s)
    BY <1>9, <1>10, <2>2, <2>5 DEF Follows
  <2> QED
    BY <1>9, <1>13, <2>6 DEF s, got, c, EndAlike
<1> QED
  BY <1>12, <1>13

(* A row that is written later lies behind whatever was printed.           *)
LEMMA RowAppended ==
  ASSUME NEW S, events \in Seq(S), NEW row, events' = Append(events, row),
         NEW q, NEW seen, Follows(q, seen)
  PROVE  Follows(q, seen)'
<1> DEFINE h == seen[1]
           c == seen[Len(seen)]
<1>1. /\ seen \in Seq(Int) /\ seen # << >> /\ Rises(seen)
      /\ Elements(seen) = Between(q, h, c)
      /\ q.order = "oldest" => \A i \in Matching(q) : h <= i
  BY DEF Follows
<1>2. /\ Len(events) \in Nat /\ DOMAIN events = 1 .. Len(events)
      /\ DOMAIN events' = DOMAIN events \cup {Len(events) + 1}
      /\ \A i \in DOMAIN events : events'[i] = events[i]
  <2>1. Len(events) \in Nat /\ DOMAIN events = 1 .. Len(events)
    OBVIOUS
  <2>2. events \in Seq(S \cup {row})
    BY SeqMonotonic
  <2>3. /\ Len(events') = Len(events) + 1 /\ events' \in Seq(S \cup {row})
        /\ \A i \in 1 .. Len(events) : events'[i] = events[i]
    BY <2>2, AppendProperties
  <2> QED
    BY <2>1, <2>3
<1>3. 1 \in 1 .. Len(seen) /\ Len(seen) \in 1 .. Len(seen)
  <2>1. Len(seen) \in Nat /\ Len(seen) # 0
    BY <1>1, EmptySeq
  <2> QED
    BY <2>1
<1>4. c \in Int /\ h \in Int /\ c \in DOMAIN events /\ h \in DOMAIN events
  BY <1>1, <1>3 DEF Elements, Between
<1> HIDE DEF h, c
<1>5. c < Len(events) + 1 /\ h < Len(events) + 1
  BY <1>2, <1>4
<1>6. \A i \in DOMAIN events : (Wanted(q, i)' <=> Wanted(q, i)) /\ (Matches(q, i)' <=> Matches(q, i))
  BY <1>2 DEF Wanted, Matches
<1>7. Between(q, h, c)' = Between(q, h, c)
  <2>1. Between(q, h, c)' = {j \in DOMAIN events' : Wanted(q, j)' /\ h <= j /\ j <= c}
    BY DEF Between, h, c
  <2>2. ~(Len(events) + 1 <= c)
    BY <1>2, <1>4, <1>5
  <2> QED
    BY <1>2, <1>6, <2>1, <2>2 DEF Between
<1>8. q.order = "oldest" => \A i \in Matching(q)' : h <= i
  <2> SUFFICES ASSUME q.order = "oldest", NEW i \in Matching(q)' PROVE h <= i
    OBVIOUS
  <2>1. i \in DOMAIN events' /\ Matches(q, i)'
    BY DEF Matching
  <2>2. CASE i \in DOMAIN events
    BY <1>1, <1>6, <2>1, <2>2 DEF Matching
  <2>3. CASE i = Len(events) + 1
    BY <1>2, <1>4, <1>5, <2>3
  <2> QED
    BY <1>2, <2>1, <2>2, <2>3
<1> QED
  BY <1>1, <1>7, <1>8 DEF Follows, h, c

-----------------------------------------------------------------------------
(* The rows that are written, and what a claim was answered.               *)

Rules == {"key.valid", "claim.live", Null}

Entry == [kind : {"navigate", "claim_renewed"}, outcome : {"allow", "deny"},
          guard : Rules, claim : Claim \cup {Null}, session : Session \cup {Null}]

FeedbackRow == [rating : Int, category : STRING, noteLength : Int, session : Session \cup {Null},
                claim : Claim \cup {Null}, lastEvent : Int \cup {Null}, lastGuard : Rules]

ShotRow == [id : Int, takenAt : Int, claim : Claim, picture : Pictures]

ComparisonRow == [id : Int, at : Int, source : Int, target : Int, claim : Claim,
                  settings : Settings, changed : BOOLEAN]

CallerStates ==
  {Idle} \cup [at : {"refused"}, claim : Claim \cup {Null}]
         \cup [at : {"answering"}, claim : Claim \cup {Null}, row : Int, rule : Rules]
         \cup [at : {"taken"}, claim : Claim, picture : Pictures, takenAt : Int]

Answered == [row : Int, rule : Rules \cup {ArgumentRule}, left : BOOLEAN]

RowsTyped ==
  /\ about \in {"ledger", "feedback", "captures"} /\ now \in Int
  /\ events \in Seq(Entry) /\ feedback \in Seq(FeedbackRow)
  /\ shots \in SUBSET ShotRow /\ IsFiniteSet(shots)
  /\ comparisons \in SUBSET ComparisonRow /\ IsFiniteSet(comparisons)
  /\ caller \in [Caller -> CallerStates]
  /\ heard \in [Claim -> Answered]

(* A row of the ledger, of a claim and with a rule.                        *)
IsRowOf(row, c, rule) ==
  row \in DOMAIN events /\ events[row].claim = c /\ events[row].guard = rule

(* The last row a claim was answered with is in the ledger, and so is that *)
(* of a call that is about to be answered, with the rule it is refused     *)
(* for.                                                                    *)
HeardIsWritten ==
  /\ \A c \in Claim :
       /\ heard[c].row # 0 => heard[c].row \in DOMAIN events /\ events[heard[c].row].claim = c
       /\ heard[c].left => heard[c].row # 0 /\ IsRowOf(heard[c].row, c, heard[c].rule)
  /\ \A p \in Caller :
       caller[p].at = "answering" => IsRowOf(caller[p].row, caller[p].claim, caller[p].rule)

(* No row names a rule about arguments.                                    *)
LEMMA NoRowForArguments == ArgumentRule \notin Rules
BY ReadersAssumption DEF Rules, ArgumentRule

(* A set of places that is not empty has a greatest one.                   *)
LEMMA Greatest ==
  ASSUME NEW n \in Nat, NEW T \in SUBSET (1 .. n), T # {}
  PROVE  LET m == CHOOSE i \in T : \A j \in T : j <= i IN m \in T /\ \A j \in T : j <= m
<1> DEFINE U == {k \in Nat : n - k \in T}
<1>1. PICK i \in T : TRUE
  OBVIOUS
<1>2. n - i \in U
  BY <1>1
<1>3. PICK k \in U : \A l \in U : k <= l
  <2>1. U \in SUBSET Nat /\ U # {}
    BY <1>2
  <2> HIDE DEF U
  <2> QED
    BY <2>1, Least
<1>4. ASSUME NEW j \in T PROVE j <= n - k
  <2>1. n - j \in U /\ j \in Int /\ k \in Nat
    OBVIOUS
  <2>2. k <= n - j
    BY <1>3, <2>1
  <2> QED
    BY <2>1, <2>2
<1>5. n - k \in T
  BY <1>3
<1> HIDE DEF U
<1> QED
  BY <1>4, <1>5

(* A row of the ledger that is written is of the kind the table keeps.     *)
LEMMA RowIsTyped ==
  ASSUME NEW c \in Claim \cup {Null}, NEW kind \in {"navigate", "claim_renewed"},
         NEW outcome \in {"allow", "deny"},
         NEW guard \in Rules
  PROVE  Event(kind, outcome, guard, c) \in Entry /\ Event(kind, outcome, guard, c).claim = c
<1> DEFINE s == IF c = Null THEN Null ELSE SessionOf[c]
<1>1. s \in Session \cup {Null}
  BY DEF Session
<1> HIDE DEF s
<1>2. Event(kind, outcome, guard, c) =
        [kind |-> kind, outcome |-> outcome, guard |-> guard, claim |-> c, session |-> s]
  BY DEF Event, s
<1>4. [kind |-> kind, outcome |-> outcome, guard |-> guard, claim |-> c, session |-> s] \in Entry
  BY <1>1 DEF Entry
<1> QED
  BY <1>2, <1>4

(* A row is added behind those there are.                                  *)
LEMMA RowBehind ==
  ASSUME NEW S, NEW seq \in Seq(S), NEW row \in S
  PROVE  /\ Append(seq, row) \in Seq(S) /\ Len(seq) \in Nat
         /\ Len(Append(seq, row)) = Len(seq) + 1
         /\ DOMAIN Append(seq, row) = DOMAIN seq \cup {Len(seq) + 1}
         /\ \A i \in DOMAIN seq : Append(seq, row)[i] = seq[i]
         /\ Append(seq, row)[Len(seq) + 1] = row
<1>1. /\ Append(seq, row) \in Seq(S) /\ Len(Append(seq, row)) = Len(seq) + 1
      /\ \A i \in 1 .. Len(seq) : Append(seq, row)[i] = seq[i]
      /\ Append(seq, row)[Len(seq) + 1] = row
  BY AppendProperties
<1> QED
  BY <1>1

(* The last row of a claim, and the rule it names.                         *)
LEMMA ContextOf ==
  ASSUME events \in Seq(Entry), NEW c \in Claim \cup {Null}, NEW s
  PROVE  LET x == CaptureContext(c, s) IN
         /\ x.claim = c
         /\ x.lastEvent \in DOMAIN events \cup {Null}
         /\ x.lastGuard = IF x.lastEvent = Null THEN Null ELSE events[x.lastEvent].guard
         /\ c # Null /\ x.lastEvent # Null => events[x.lastEvent].claim = c
         /\ c # Null => \A i \in DOMAIN events : events[i].claim = c =>
              /\ x.lastEvent \in DOMAIN events
              /\ i <= x.lastEvent
<1> DEFINE OfClaim == {i \in DOMAIN events : events[i].claim = c}
           OfSession == {i \in DOMAIN events : events[i].session = s}
           m == CHOOSE i \in OfClaim : \A j \in OfClaim : j <= i
           n == CHOOSE i \in OfSession : \A j \in OfSession : j <= i
           x == CaptureContext(c, s)
<1>1. Len(events) \in Nat /\ OfClaim \in SUBSET (1 .. Len(events)) /\ OfSession \in SUBSET (1 .. Len(events))
      /\ DOMAIN events = 1 .. Len(events)
  OBVIOUS
<1>2. /\ x.claim = c
      /\ x.lastEvent = IF c # Null THEN (IF OfClaim = {} THEN Null ELSE m)
                       ELSE IF s # Null THEN (IF OfSession = {} THEN Null ELSE n) ELSE Null
      /\ x.lastGuard = IF x.lastEvent = Null THEN Null ELSE events[x.lastEvent].guard
  BY DEF CaptureContext, Latest
<1>3. \A i \in OfClaim : events[i].claim = c
  OBVIOUS
<1>4. \A i \in DOMAIN events : events[i].claim = c => i \in OfClaim
  OBVIOUS
<1> HIDE DEF OfClaim, OfSession
<1>5. OfClaim # {} => m \in OfClaim /\ \A j \in OfClaim : j <= m
  BY <1>1, Greatest
<1>6. OfSession # {} => n \in OfSession
  BY <1>1, Greatest
<1> HIDE DEF m, n, x
<1>7. x.lastEvent \in DOMAIN events \cup {Null}
  BY <1>1, <1>2, <1>5, <1>6
<1>8. ASSUME c # Null, NEW i \in DOMAIN events, events[i].claim = c
      PROVE  x.lastEvent \in DOMAIN events /\ i <= x.lastEvent
  <2>1. i \in OfClaim
    BY <1>4, <1>8
  <2>2. x.lastEvent = m /\ m \in OfClaim /\ i <= m
    BY <1>2, <1>5, <1>8, <2>1
  <2> QED
    BY <1>1, <2>2
<1>9. ASSUME c # Null, x.lastEvent # Null PROVE events[x.lastEvent].claim = c
  BY <1>2, <1>3, <1>5, <1>9
<1> QED
  BY <1>2, <1>7, <1>8, <1>9 DEF x

(* At the start every table is empty, and no claim was answered.           *)
LEMMA RowsTypedInit == ReadersInit => RowsTyped /\ HeardIsWritten
<1> SUFFICES ASSUME ReadersInit PROVE RowsTyped /\ HeardIsWritten
  OBVIOUS
<1>1. IsFiniteSet({})
  BY FS_EmptySet
<1>2. events \in Seq(Entry) /\ feedback \in Seq(FeedbackRow)
  BY DEF ReadersInit
<1>3. caller \in [Caller -> CallerStates] /\ heard \in [Claim -> Answered]
  <2>1. [row |-> 0, rule |-> Null, left |-> FALSE] \in Answered
    BY DEF Answered, Rules
  <2> QED
    BY <2>1 DEF ReadersInit, CallerStates
<1>4. RowsTyped
  <2>1. about \in {"ledger", "feedback", "captures"} /\ now \in Int /\ shots = {} /\ comparisons = {}
    BY DEF ReadersInit
  <2> QED
    BY <1>1, <1>2, <1>3, <2>1 DEF RowsTyped
<1>5. HeardIsWritten
  BY DEF ReadersInit, HeardIsWritten, Idle
<1> QED
  BY <1>4, <1>5

(* A caller goes from one state to another.                                *)
LEMMA CallerGoes ==
  ASSUME RowsTyped, NEW p \in Caller, NEW to \in CallerStates, Goes(p, to)
  PROVE  /\ caller' \in [Caller -> CallerStates] /\ caller'[p] = to
         /\ \A q \in Caller : q # p => caller'[q] = caller[q]
BY DEF RowsTyped, Goes

(* A row of the ledger is written, and its caller is about to be answered. *)
LEMMA EntryStep ==
  ASSUME RowsTyped, HeardIsWritten, NEW p \in Caller, NEW row \in Entry, LeavesRow(p, row),
         UNCHANGED about
  PROVE  RowsTyped' /\ HeardIsWritten'
<1> DEFINE last == Len(events) + 1
           to == [at |-> "answering", claim |-> row.claim, row |-> last, rule |-> row.guard]
<1>1. /\ events' \in Seq(Entry) /\ Len(events) \in Nat /\ Len(events') = last
      /\ DOMAIN events' = DOMAIN events \cup {last}
      /\ \A i \in DOMAIN events : events'[i] = events[i]
      /\ events'[last] = row
  <2>1. events' = Append(events, row)
    BY DEF LeavesRow, Ledger
  <2> QED
    BY <2>1, RowBehind DEF RowsTyped
<1>2. last \in Int
  BY <1>1
<1> HIDE DEF last
<1>3. to \in CallerStates
  BY <1>2 DEF CallerStates, Entry
<1>4. Goes(p, to)
  BY <1>1 DEF LeavesRow
<1>5. to.at = "answering" /\ to.row = last /\ to.claim = row.claim /\ to.rule = row.guard
  OBVIOUS
<1> HIDE DEF to
<1>6. /\ caller' \in [Caller -> CallerStates] /\ caller'[p] = to
      /\ \A q \in Caller : q # p => caller'[q] = caller[q]
  BY <1>3, <1>4, CallerGoes
<1>7. RowsTyped'
  BY <1>1, <1>6 DEF LeavesRow, RowsTyped
<1>8. ASSUME NEW c \in Claim
      PROVE  /\ heard'[c].row # 0 => heard'[c].row \in DOMAIN events' /\ events'[heard'[c].row].claim = c
             /\ heard'[c].left => heard'[c].row # 0 /\ IsRowOf(heard[c].row, c, heard[c].rule)'
  <2>1. heard' = heard
    BY DEF LeavesRow
  <2> QED
    BY <1>1, <2>1 DEF HeardIsWritten, IsRowOf
<1>9. ASSUME NEW q \in Caller, caller'[q].at = "answering"
      PROVE  IsRowOf(caller[q].row, caller[q].claim, caller[q].rule)'
  <2>1. CASE q = p
    BY <1>1, <1>5, <1>6, <2>1 DEF IsRowOf
  <2>2. CASE q # p
    BY <1>1, <1>6, <1>9, <2>2 DEF HeardIsWritten, IsRowOf
  <2> QED
    BY <2>1, <2>2
<1> QED
  BY <1>7, <1>8, <1>9 DEF HeardIsWritten

(* A caller is answered, with a row or without; nobody else is.            *)
LEMMA AnswerStep ==
  ASSUME RowsTyped, HeardIsWritten, UNCHANGED <<about, now, tables>>,
         caller' \in [Caller -> CallerStates],
         \A q \in Caller : caller'[q].at = "answering" => caller'[q] = caller[q],
         NEW c \in Claim \cup {Null}, NEW x \in Answered,
         c # Null =>
           /\ x.row # 0 => x.row \in DOMAIN events /\ events[x.row].claim = c
           /\ x.left => x.row # 0 /\ IsRowOf(x.row, c, x.rule),
         heard' = IF c = Null THEN heard ELSE [heard EXCEPT ![c] = x]
  PROVE  RowsTyped' /\ HeardIsWritten'
<1>1. heard' \in [Claim -> Answered]
  BY DEF RowsTyped
<1>2. RowsTyped'
  BY <1>1 DEF RowsTyped, tables
<1>3. ASSUME NEW d \in Claim
      PROVE  /\ heard'[d].row # 0 => heard'[d].row \in DOMAIN events /\ events[heard'[d].row].claim = d
             /\ heard'[d].left => heard'[d].row # 0 /\ IsRowOf(heard'[d].row, d, heard'[d].rule)
  <2>1. CASE heard'[d] = heard[d]
    BY <2>1 DEF HeardIsWritten
  <2>2. CASE c = d /\ c # Null
    <3>1. heard'[d] = x
      BY <2>2 DEF RowsTyped
    <3> QED
      BY <2>2, <3>1
  <2>3. CASE c # d
    BY <2>1, <2>3 DEF RowsTyped
  <2> QED
    BY <2>1, <2>2, <2>3
<1>4. ASSUME NEW q \in Caller, caller'[q].at = "answering"
      PROVE  IsRowOf(caller'[q].row, caller'[q].claim, caller'[q].rule)
  <2>1. caller'[q] = caller[q]
    BY <1>4
  <2> QED
    BY <1>4, <2>1 DEF HeardIsWritten
<1>5. events' = events
  BY DEF tables
<1> QED
  BY <1>2, <1>3, <1>4, <1>5 DEF HeardIsWritten, IsRowOf

(* So it is when the call has left nothing.                                *)
LEMMA AnsweredWithout ==
  ASSUME RowsTyped, HeardIsWritten, UNCHANGED <<about, now, tables>>,
         caller' \in [Caller -> CallerStates],
         \A q \in Caller : caller'[q].at = "answering" => caller'[q] = caller[q],
         NEW c \in Claim \cup {Null}, NEW rule \in Rules \cup {ArgumentRule}, HearsOnly(c, rule)
  PROVE  RowsTyped' /\ HeardIsWritten'
<1>1. CASE c = Null
  <2>1. heard' = heard
    BY <1>1 DEF HearsOnly
  <2> QED
    BY <2>1 DEF RowsTyped, HeardIsWritten, IsRowOf, tables
<1>2. CASE c # Null
  <2> DEFINE x == [row |-> heard[c].row, rule |-> rule, left |-> FALSE]
  <2>1. c \in Claim /\ heard[c] \in Answered
    BY <1>2 DEF RowsTyped
  <2>2. x \in Answered
    BY <2>1 DEF Answered
  <2>3. x.row = heard[c].row /\ ~x.left
    OBVIOUS
  <2>4. heard' = IF c = Null THEN heard ELSE [heard EXCEPT ![c] = x]
    BY DEF HearsOnly
  <2> HIDE DEF x
  <2>5. /\ x.row # 0 => x.row \in DOMAIN events /\ events[x.row].claim = c
        /\ x.left => x.row # 0 /\ IsRowOf(x.row, c, x.rule)
    BY <2>1, <2>3 DEF HeardIsWritten
  <2> QED
    BY <2>2, <2>4, <2>5, AnswerStep
<1> QED
  BY <1>1, <1>2

(* Every step keeps the rows of the kind their table keeps, and writes the *)
(* row of a call before its caller hears of it.                            *)
LEMMA RowsTypedStep == RowsTyped /\ HeardIsWritten /\ [ReadersNext]_readersVars => RowsTyped' /\ HeardIsWritten'
<1> SUFFICES ASSUME RowsTyped, HeardIsWritten, [ReadersNext]_readersVars
             PROVE  RowsTyped' /\ HeardIsWritten'
  OBVIOUS
<1>1. CASE UNCHANGED readersVars
  BY <1>1 DEF readersVars, RowsTyped, HeardIsWritten, IsRowOf
<1>2. ASSUME NEW p \in Caller, NEW c \in Claim, Call(p, c), UNCHANGED about
      PROVE  RowsTyped' /\ HeardIsWritten'
  <2>1. Event("navigate", "allow", Null, c) \in Entry
    <3>1. Null \in Rules
      BY DEF Rules
    <3> QED
      BY <3>1, RowIsTyped
  <2> QED
    BY <1>2, <2>1, EntryStep DEF Call
<1>4. Idle \in CallerStates
  BY DEF CallerStates
<1>5. ASSUME NEW p \in Caller, NEW c \in Claim \cup {Null}, RefuseCall(p, c), UNCHANGED about
      PROVE  RowsTyped' /\ HeardIsWritten'
  <2> DEFINE to == [at |-> "refused", claim |-> c]
  <2>1. to \in CallerStates /\ to.at # "answering" /\ Goes(p, to)
    BY <1>5 DEF CallerStates, RefuseCall
  <2> HIDE DEF to
  <2>2. /\ caller' \in [Caller -> CallerStates]
        /\ \A q \in Caller : caller'[q].at = "answering" => caller'[q] = caller[q]
    BY <2>1, CallerGoes
  <2> QED
    BY <1>5, <2>2 DEF RefuseCall, RowsTyped, HeardIsWritten, IsRowOf, tables
<1>6. ASSUME NEW p \in Caller, WriteRefusal(p), UNCHANGED about PROVE RowsTyped' /\ HeardIsWritten'
  <2> DEFINE c == caller[p].claim
  <2>1. c \in Claim \cup {Null}
    BY <1>6 DEF WriteRefusal, RowsTyped, CallerStates, Idle
  <2>2. LeavesRow(p, Event("claim_renewed", "deny", GuardOf(c), c))
    BY <1>6 DEF WriteRefusal
  <2> HIDE DEF c
  <2>3. Event("claim_renewed", "deny", GuardOf(c), c) \in Entry
    <3>1. GuardOf(c) \in Rules
      BY DEF GuardOf, Rules
    <3> QED
      BY <2>1, <3>1, RowIsTyped
  <2> QED
    BY <1>6, <2>2, <2>3, EntryStep
<1>7. ASSUME NEW p \in Caller, Goes(p, Idle)
      PROVE  /\ caller' \in [Caller -> CallerStates]
             /\ \A q \in Caller : caller'[q].at = "answering" => caller'[q] = caller[q]
  <2>1. Idle.at # "answering"
    BY DEF Idle
  <2> QED
    BY <1>4, <1>7, <2>1, CallerGoes
<1>15. ASSUME NEW p \in Caller, LoseRefusal(p), UNCHANGED about PROVE RowsTyped' /\ HeardIsWritten'
  <2> DEFINE c == caller[p].claim
  <2>1. c \in Claim \cup {Null}
    BY <1>15 DEF LoseRefusal, RowsTyped, CallerStates, Idle
  <2>2. /\ caller' \in [Caller -> CallerStates]
        /\ \A q \in Caller : caller'[q].at = "answering" => caller'[q] = caller[q]
        /\ UNCHANGED <<about, now, tables>>
        /\ HearsOnly(c, GuardOf(c)) \/ heard' = heard
    BY <1>7, <1>15 DEF LoseRefusal
  <2> HIDE DEF c
  <2>3. CASE heard' = heard
    BY <2>2, <2>3 DEF RowsTyped, HeardIsWritten, IsRowOf, tables
  <2>4. CASE HearsOnly(c, GuardOf(c))
    <3>1. GuardOf(c) \in Rules \cup {ArgumentRule}
      BY DEF GuardOf, Rules
    <3> QED
      BY <2>1, <2>2, <2>4, <3>1, AnsweredWithout
  <2> QED
    BY <2>2, <2>3, <2>4
<1>16. ASSUME NEW c \in Claim, RefuseArguments(c), UNCHANGED about PROVE RowsTyped' /\ HeardIsWritten'
  <2>1. /\ caller' \in [Caller -> CallerStates] /\ caller' = caller
        /\ UNCHANGED <<about, now, tables>> /\ HearsOnly(c, ArgumentRule)
    BY <1>16 DEF RefuseArguments, RowsTyped
  <2> QED
    BY <2>1, AnsweredWithout
<1>17. ASSUME NEW p \in Caller, Answer(p), UNCHANGED about PROVE RowsTyped' /\ HeardIsWritten'
  <2> DEFINE c == caller[p].claim
             x == [row |-> caller[p].row, rule |-> caller[p].rule, left |-> TRUE]
  <2>1. /\ caller[p].at = "answering" /\ Hears(c, caller[p].row, caller[p].rule)
        /\ UNCHANGED <<about, now, tables>>
        /\ caller' \in [Caller -> CallerStates]
        /\ \A q \in Caller : caller'[q].at = "answering" => caller'[q] = caller[q]
    BY <1>7, <1>17 DEF Answer
  <2>2. c \in Claim \cup {Null} /\ caller[p].row \in Int /\ caller[p].rule \in Rules
    BY <2>1 DEF RowsTyped, CallerStates, Idle
  <2>3. IsRowOf(caller[p].row, c, caller[p].rule)
    BY <2>1 DEF HeardIsWritten
  <2>4. caller[p].row # 0
    BY <2>3 DEF IsRowOf, RowsTyped
  <2>5. x \in Answered /\ x.row = caller[p].row /\ x.rule = caller[p].rule
    BY <2>2 DEF Answered
  <2>6. heard' = IF c = Null THEN heard ELSE [heard EXCEPT ![c] = x]
    BY <2>1 DEF Hears
  <2> HIDE DEF c, x
  <2>7. /\ x.row # 0 => x.row \in DOMAIN events /\ events[x.row].claim = c
        /\ x.left => x.row # 0 /\ IsRowOf(x.row, c, x.rule)
    BY <2>3, <2>4, <2>5 DEF IsRowOf
  <2> QED
    BY <2>1, <2>2, <2>5, <2>6, <2>7, AnswerStep
<1>18. ASSUME NEW p \in Caller, LoseShot(p), UNCHANGED about
       PROVE  RowsTyped' /\ HeardIsWritten'
  BY <1>7, <1>18 DEF LoseShot, RowsTyped, HeardIsWritten, IsRowOf, tables
<1>8. ASSUME NEW c \in Claim \cup {Null}, NEW s \in Session \cup {Null}, NEW asked \in Submissions,
             Submit(c, s, asked), UNCHANGED about
      PROVE  RowsTyped' /\ HeardIsWritten'
  <2> DEFINE x == CaptureContext(c, s)
             row == [rating |-> asked.rating, category |-> asked.category,
                     noteLength |-> asked.noteLength, session |-> s, claim |-> x.claim,
                     lastEvent |-> x.lastEvent, lastGuard |-> x.lastGuard]
  <2>1. x.claim \in Claim \cup {Null} /\ x.lastEvent \in DOMAIN events \cup {Null}
        /\ x.lastGuard = IF x.lastEvent = Null THEN Null ELSE events[x.lastEvent].guard
    BY ContextOf DEF RowsTyped
  <2>2. feedback' = Append(feedback, row)
    BY <1>8 DEF Submit
  <2> HIDE DEF x
  <2>3. x.lastEvent \in Int \cup {Null}
    BY <2>1 DEF RowsTyped
  <2>4. x.lastGuard \in Rules
    <3>1. CASE x.lastEvent = Null
      BY <2>1, <3>1 DEF Rules
    <3>2. CASE x.lastEvent # Null
      <4>1. events[x.lastEvent] \in Entry
        BY <2>1, <3>2 DEF RowsTyped
      <4> QED
        BY <2>1, <3>2, <4>1 DEF Entry
    <3> QED
      BY <3>1, <3>2
  <2>5. row \in FeedbackRow
    <3>1. asked.rating \in Int /\ asked.category \in STRING /\ asked.noteLength \in Int
      BY ReadersAssumption
    <3> QED
      BY <2>1, <2>3, <2>4, <3>1 DEF FeedbackRow
  <2> HIDE DEF row
  <2>6. feedback' \in Seq(FeedbackRow)
    BY <2>2, <2>5, RowBehind DEF RowsTyped
  <2> QED
    BY <1>8, <2>6 DEF Submit, RowsTyped, HeardIsWritten, IsRowOf
<1>9. CASE (Untouched \/ Tick) /\ UNCHANGED <<about, shots, comparisons, events, feedback, caller, heard>>
  <2>1. now' \in Int
    BY <1>9 DEF Untouched, Tick, RowsTyped
  <2> QED
    BY <1>9, <2>1 DEF RowsTyped, HeardIsWritten, IsRowOf
<1>10. ASSUME NEW p \in Caller, NEW c \in Claim, NEW picture \in Pictures, TakePicture(p, c, picture),
              UNCHANGED about
       PROVE  RowsTyped' /\ HeardIsWritten'
  <2> DEFINE to == [at |-> "taken", claim |-> c, picture |-> picture, takenAt |-> now]
  <2>1. to \in CallerStates /\ to.at # "answering" /\ Goes(p, to)
    BY <1>10 DEF CallerStates, RowsTyped, TakePicture
  <2> HIDE DEF to
  <2>2. /\ caller' \in [Caller -> CallerStates]
        /\ \A q \in Caller : caller'[q].at = "answering" => caller'[q] = caller[q]
    BY <2>1, CallerGoes
  <2> QED
    BY <1>10, <2>2 DEF TakePicture, RowsTyped, HeardIsWritten, IsRowOf, tables
<1>11. ASSUME NEW p \in Caller, NEW id \in Ids, RecordShot(p, id), UNCHANGED about
       PROVE  RowsTyped' /\ HeardIsWritten'
  <2> DEFINE row == [id |-> id, takenAt |-> caller[p].takenAt, claim |-> caller[p].claim,
                     picture |-> caller[p].picture]
  <2>1. caller[p].takenAt \in Int /\ caller[p].claim \in Claim /\ caller[p].picture \in Pictures
    BY <1>11 DEF RecordShot, RowsTyped, CallerStates, Idle
  <2>2. row \in ShotRow
    BY <2>1, ReadersAssumption DEF ShotRow
  <2>3. shots' = shots \cup {row}
    BY <1>11 DEF RecordShot
  <2> HIDE DEF row
  <2>4. shots' \in SUBSET ShotRow /\ IsFiniteSet(shots')
    BY <2>2, <2>3, FS_AddElement DEF RowsTyped
  <2>5. /\ caller' \in [Caller -> CallerStates]
        /\ \A q \in Caller : caller'[q].at = "answering" => caller'[q] = caller[q]
    BY <1>7, <1>11 DEF RecordShot
  <2> QED
    BY <1>11, <2>4, <2>5 DEF RecordShot, RowsTyped, HeardIsWritten, IsRowOf
<1>12. ASSUME NEW id \in Ids, NEW source \in shots, NEW target \in shots, NEW settings \in Settings,
              NEW changed \in BOOLEAN, Compare(id, source, target, settings, changed), UNCHANGED about
       PROVE  RowsTyped' /\ HeardIsWritten'
  <2> DEFINE row == [id |-> id, at |-> now, source |-> source.id, target |-> target.id,
                     claim |-> source.claim, settings |-> settings, changed |-> changed]
  <2>1. source.id \in Int /\ target.id \in Int /\ source.claim \in Claim
    BY DEF RowsTyped, ShotRow
  <2>2. row \in ComparisonRow
    BY <2>1, ReadersAssumption DEF ComparisonRow, RowsTyped
  <2>3. comparisons' = comparisons \cup {row}
    BY <1>12 DEF Compare
  <2> HIDE DEF row
  <2>4. comparisons' \in SUBSET ComparisonRow /\ IsFiniteSet(comparisons')
    BY <2>2, <2>3, FS_AddElement DEF RowsTyped
  <2> QED
    BY <1>12, <2>4 DEF Compare, RowsTyped, HeardIsWritten, IsRowOf
<1>13. ASSUME ReadersNext PROVE UNCHANGED about
  BY <1>13 DEF ReadersNext, LedgerStep, CaptureStep
<1>14. CASE ReadersNext
  <2>1. CASE LedgerStep
    <3>1. ASSUME \E line \in EventLines : OpenLedger(line) PROVE Untouched
      BY <3>1 DEF OpenLedger
    <3>2. ReadOn \/ ReadBack \/ Leave => Untouched
      BY DEF ReadOn, ReadBack, Leave
    <3>3. Untouched => RowsTyped' /\ HeardIsWritten'
      BY <1>9, <1>13, <1>14 DEF Untouched, tables
    <3> QED
      BY <1>2, <1>5, <1>6, <1>8, <1>13, <1>14, <1>15, <1>16, <1>17, <2>1, <3>1, <3>2, <3>3 DEF LedgerStep
  <2>2. CASE CaptureStep
    <3>1. ASSUME \E q \in CaptureQuery : OpenCaptures(q) PROVE Untouched
      BY <3>1 DEF OpenCaptures
    <3>2. SelectPart \/ Leave => Untouched
      BY DEF SelectPart, Leave
    <3>3. Untouched \/ Tick => RowsTyped' /\ HeardIsWritten'
      BY <1>9, <1>13, <1>14 DEF Untouched, Tick, tables
    <3> QED
      BY <1>10, <1>11, <1>12, <1>13, <1>14, <1>18, <2>2, <3>1, <3>2, <3>3 DEF CaptureStep
  <2> QED
    BY <1>14, <2>1, <2>2 DEF ReadersNext
<1> QED
  BY <1>1, <1>14

-----------------------------------------------------------------------------
(* Who reads the ledger.                                                   *)

Windows == {q \in CaptureQuery : q.mode = "rollup" /\ q.since = Null /\ q.until # Null /\ Since(q) \in CaptureQuery}

ReaderTyped ==
  \/ reader = Away
  \/ DOMAIN reader = {"job", "line", "seen", "cursor"} /\ reader.job = "ledger"
  \/ /\ DOMAIN reader = {"job", "window", "parts", "known"} /\ reader.job = "captures"
     /\ reader.window \in Windows /\ reader.known \in SUBSET shots
     /\ \E S : reader.parts \in Seq(S)
     /\ Len(reader.parts) <= 8

Following(line, seen, cursor) ==
  /\ line \in EventLines /\ ParseEvents(line) # Nothing
  /\ seen = << >> => cursor = Null
  /\ seen # << >> => Follows(ParseEvents(line), seen) /\ cursor = seen[Len(seen)]

ReaderFollows == reader.job = "ledger" => Following(reader.line, reader.seen, reader.cursor)

(* Reading on keeps what was printed without a gap.                        *)
LEMMA ReadOnFollows ==
  ASSUME RowsTyped, ReaderTyped, ReaderFollows, ReadOn
  PROVE  ReaderTyped' /\ ReaderFollows'
<1> DEFINE line == reader.line
           seen == reader.seen
           cursor == reader.cursor
           q == ParseEvents(line)
           p == ParseEvents(IF cursor = Null THEN line ELSE line \o <<Flag("since"), Number(cursor)>>)
           next == ReadLedger(p).cursor
           turned == seen \o Got(p)
           after == IF next = Null THEN cursor ELSE next
<1>1. DOMAIN reader = {"job", "line", "seen", "cursor"} /\ reader.job = "ledger"
  BY DEF ReadOn, ReaderTyped, Away
<1>2. Following(line, seen, cursor)
  BY <1>1 DEF ReaderFollows
<1>3. reader' = [reader EXCEPT !.seen = turned, !.cursor = after]
  BY DEF ReadOn, Got
<1> HIDE DEF line, seen, cursor, turned, after
<1>4. /\ DOMAIN reader' = {"job", "line", "seen", "cursor"} /\ reader'.job = "ledger"
      /\ reader'.line = line /\ reader'.seen = turned /\ reader'.cursor = after
  BY <1>1, <1>3 DEF line
<1>5. events \in Seq(Entry) /\ Null \notin Int
  BY ReadersAssumption DEF RowsTyped
<1>6. line \in EventLines /\ ParseEvents(line) # Nothing /\ q.limit \in WholeOrNull
  BY <1>2, QueryTyped DEF Following
<1>7. Following(line, turned, after)
  <2>1. CASE seen = << >>
    <3>1. cursor = Null /\ p = q
      BY <1>2, <2>1 DEF Following
    <3>2. turned = Got(q)
      <4>1. Got(q) \in Seq(Int)
        BY <1>5, <1>6, OfPage
      <4> QED
        BY <2>1, <3>1, <4>1 DEF turned
    <3>3. next = IF Got(q) = << >> THEN Null ELSE Got(q)[Len(Got(q))]
      <4> HIDE DEF q
      <4>1. ReadLedger(q).cursor = IF Got(q) = << >> THEN Null ELSE Got(q)[Len(Got(q))]
        BY <1>5, <1>6, PageOfLedger
      <4> QED
        BY <3>1, <4>1
    <3>4. CASE Got(q) = << >>
      BY <1>6, <3>1, <3>2, <3>3, <3>4 DEF Following, after
    <3>5. CASE Got(q) # << >>
      <4>1. Follows(q, Got(q))
        BY <1>5, <1>6, <3>5, FirstPage
      <4>2. next \in Int
        <5> HIDE DEF q
        <5>1. Got(q) \in Seq(Int) /\ Len(Got(q)) \in Nat /\ Len(Got(q)) # 0
          BY <3>5, <4>1, EmptySeq DEF Follows
        <5>2. Got(q)[Len(Got(q))] \in Int
          BY <5>1, ElementOfSeq
        <5> QED
          BY <3>3, <3>5, <5>2
      <4> HIDE DEF next
      <4>3. after = Got(q)[Len(Got(q))]
        BY <1>5, <3>3, <3>5, <4>2 DEF after
      <4> QED
        BY <1>6, <3>2, <3>5, <4>1, <4>3 DEF Following
    <3> QED
      BY <3>4, <3>5
  <2>2. CASE seen # << >>
    <3>1. Follows(q, seen) /\ cursor = seen[Len(seen)]
      BY <1>2, <2>2 DEF Following
    <3>2. cursor \in Int
      <4>1. seen \in Seq(Int) /\ Len(seen) \in Nat /\ Len(seen) # 0
        BY <2>2, <3>1, EmptySeq DEF Follows
      <4> QED
        BY <3>1, <4>1, ElementOfSeq
    <3>3. p = ParseEvents(line \o <<Flag("since"), Number(cursor)>>)
      BY <1>5, <3>2
    <3> HIDE DEF p
    <3>4. /\ p.kinds = q.kinds /\ p.outcome = q.outcome /\ p.guard = q.guard
          /\ p.session = q.session /\ p.claim = q.claim
          /\ p.since = cursor /\ p.before = q.before /\ p.limit = q.limit /\ p.order = "oldest"
      BY <1>6, <3>2, <3>3, ReadOnParsed
    <3> HIDE DEF q, next
    <3>5. p.limit \in WholeOrNull
      BY <1>6, <3>4
    <3>6. /\ Follows(q, turned)
          /\ Got(p) = << >> => turned[Len(turned)] = seen[Len(seen)]
          /\ Got(p) # << >> => turned[Len(turned)] = Got(p)[Len(Got(p))]
      <4>1. p.since = seen[Len(seen)] /\ AsksAlike(p, q)
        BY <3>1, <3>4 DEF AsksAlike
      <4>2. /\ Follows(q, seen \o Got(p))
            /\ Got(p) = << >> => (seen \o Got(p))[Len(seen \o Got(p))] = seen[Len(seen)]
            /\ Got(p) # << >> => (seen \o Got(p))[Len(seen \o Got(p))] = Got(p)[Len(Got(p))]
        BY <1>5, <3>1, <3>4, <3>5, <4>1, NextPage, Zenon
      <4> QED
        BY <4>2 DEF turned
    <3>7. next = IF Got(p) = << >> THEN Null ELSE Got(p)[Len(Got(p))]
      BY <1>5, <3>5, PageOfLedger DEF next
    <3>8. after = turned[Len(turned)]
      <4>1. CASE Got(p) = << >>
        BY <3>1, <3>6, <3>7, <4>1 DEF after
      <4>2. CASE Got(p) # << >>
        <5>1. Got(p) \in Seq(Int)
          BY <1>5, <3>5, OfPage
        <5>2. Len(Got(p)) \in Nat /\ Len(Got(p)) # 0
          BY <4>2, <5>1, EmptySeq
        <5>3. Got(p)[Len(Got(p))] \in Int
          BY <5>1, <5>2, ElementOfSeq
        <5> QED
          BY <1>5, <3>6, <3>7, <4>2, <5>3 DEF after
      <4> QED
        BY <4>1, <4>2
    <3>9. turned # << >>
      BY <3>6 DEF Follows
    <3> QED
      BY <1>6, <3>6, <3>8, <3>9 DEF Following, q
  <2> QED
    BY <2>1, <2>2
<1> QED
  BY <1>4, <1>7 DEF ReaderTyped, ReaderFollows, Following, Follows, Between, Wanted, Matching, Matches, ReadOn, Untouched, tables

(* So does reading back.                                                   *)
LEMMA ReadBackFollows ==
  ASSUME RowsTyped, ReaderTyped, ReaderFollows, ReadBack
  PROVE  ReaderTyped' /\ ReaderFollows'
<1> DEFINE line == reader.line
           seen == reader.seen
           cursor == reader.cursor
           q == ParseEvents(line)
           p == ParseEvents(line \o <<Flag("before"), Number(seen[1])>>)
           turned == Got(p) \o seen
<1>1. DOMAIN reader = {"job", "line", "seen", "cursor"} /\ reader.job = "ledger" /\ seen # << >>
  BY DEF ReadBack, ReaderTyped, Away
<1>2. Following(line, seen, cursor)
  BY <1>1 DEF ReaderFollows
<1>3. reader' = [reader EXCEPT !.seen = turned]
  <2>1. Head(seen) = seen[1]
    OBVIOUS
  <2> QED
    BY <2>1 DEF ReadBack, Got
<1> HIDE DEF line, seen, cursor, turned
<1>4. /\ DOMAIN reader' = {"job", "line", "seen", "cursor"} /\ reader'.job = "ledger"
      /\ reader'.line = line /\ reader'.seen = turned /\ reader'.cursor = cursor
  BY <1>1, <1>3 DEF line, cursor
<1>5. events \in Seq(Entry) /\ Null \notin Int
  BY ReadersAssumption DEF RowsTyped
<1>6. /\ line \in EventLines /\ ParseEvents(line) # Nothing
      /\ q.limit \in WholeOrNull /\ q.since \in WholeOrNull /\ q.before \in WholeOrNull
      /\ q.order # "oldest" => q.since = Null
  <2>1. line \in EventLines /\ ParseEvents(line) # Nothing
    BY <1>2 DEF Following
  <2> QED
    BY <2>1, QueryTyped
<1>7. Follows(q, seen) /\ cursor = seen[Len(seen)]
  BY <1>1, <1>2 DEF Following
<1>8. seen[1] \in Int
  <2>1. seen \in Seq(Int) /\ Len(seen) \in Nat /\ Len(seen) # 0
    BY <1>1, <1>7, EmptySeq DEF Follows
  <2> QED
    BY <2>1, ElementOfSeq
<1>9. /\ p.kinds = q.kinds /\ p.outcome = q.outcome /\ p.guard = q.guard
      /\ p.session = q.session /\ p.claim = q.claim
      /\ p.since = q.since /\ p.before = seen[1] /\ p.limit = q.limit /\ p.order = q.order
  BY <1>6, <1>8, ReadBackParsed
<1> HIDE DEF p, q
<1>10. p.limit \in WholeOrNull
  BY <1>6, <1>9
<1>11. Follows(q, turned) /\ turned[Len(turned)] = seen[Len(seen)]
  <2>1. AsksBefore(p, q, seen)
    BY <1>6, <1>9, <1>10 DEF AsksBefore, AsksAlike
  <2>2. Follows(q, Got(p) \o seen) /\ EndAlike(Got(p) \o seen, seen)
    BY <1>5, <1>7, <2>1, EarlierPage
  <2> QED
    BY <2>2 DEF turned, EndAlike
<1>12. turned # << >>
  BY <1>11 DEF Follows
<1>13. Following(line, turned, cursor)
  BY <1>6, <1>7, <1>11, <1>12 DEF Following, q
<1> QED
  BY <1>4, <1>13 DEF ReaderTyped, ReaderFollows, Following, Follows, Between, Wanted, Matching, Matches, ReadBack, Untouched, tables

(* Nothing but a new row of the ledger bears on what was printed.          *)
LEMMA LedgerUntouched ==
  ASSUME events' = events, NEW line, NEW seen, NEW cursor, Following(line, seen, cursor)
  PROVE  Following(line, seen, cursor)'
BY DEF Following, Follows, Between, Wanted, Matching, Matches

(* And a row that is written while somebody reads.                         *)
LEMMA EntryUnderReader ==
  ASSUME RowsTyped, ReaderFollows, NEW row, events' = Append(events, row), reader' = reader
  PROVE  ReaderFollows'
<1>1. events \in Seq(Entry)
  BY DEF RowsTyped
<1>2. \A q, seen : Follows(q, seen) => Follows(q, seen)'
  BY <1>1, RowAppended
<1>3. \A line, seen, cursor : Following(line, seen, cursor) => Following(line, seen, cursor)'
  BY <1>2 DEF Following
<1> QED
  BY <1>3 DEF ReaderFollows

(* A step that leaves the ledger and the reader alone leaves what was      *)
(* printed without a gap.                                                  *)
LEMMA OtherStep ==
  ASSUME ReaderTyped, ReaderFollows, reader' = reader, events' = events, shots \subseteq shots'
  PROVE  ReaderTyped' /\ ReaderFollows'
<1>1. ReaderTyped'
  BY DEF ReaderTyped
<1>2. \A line, seen, cursor : Following(line, seen, cursor) => Following(line, seen, cursor)'
  BY LedgerUntouched
<1> QED
  BY <1>1, <1>2 DEF ReaderFollows

(* A reader that goes has printed nothing.                                 *)
LEMMA LeaveStep ==
  ASSUME reader' = Away
  PROVE  ReaderTyped' /\ ReaderFollows'
BY DEF ReaderTyped, ReaderFollows, Away

(* Nor has one that begins on the ledger.                                  *)
LEMMA OpenLedgerStep ==
  ASSUME NEW line \in EventLines, OpenLedger(line)
  PROVE  ReaderTyped' /\ ReaderFollows'
<1>1. /\ DOMAIN reader' = {"job", "line", "seen", "cursor"} /\ reader'.job = "ledger"
      /\ reader'.line = line /\ reader'.seen = << >> /\ reader'.cursor = Null
  BY DEF OpenLedger
<1>2. ParseEvents(line) # Nothing
  BY DEF OpenLedger
<1>3. Following(line, << >>, Null)'
  BY <1>2 DEF Following
<1> QED
  BY <1>1, <1>3 DEF ReaderTyped, ReaderFollows

(* Nor one that begins to add up captures.                                 *)
LEMMA OpenCapturesStep ==
  ASSUME NEW q \in CaptureQuery, OpenCaptures(q)
  PROVE  ReaderTyped' /\ ReaderFollows'
<1>1. /\ DOMAIN reader' = {"job", "window", "parts", "known"} /\ reader'.job = "captures"
      /\ reader'.window = q /\ reader'.parts = << >> /\ reader'.known = shots /\ shots' = shots
  BY DEF OpenCaptures, Untouched, tables
<1>2. q \in Windows
  BY DEF OpenCaptures, Windows
<1>3. reader'.parts \in Seq({}) /\ Len(reader'.parts) <= 8
  BY <1>1
<1> QED
  BY <1>1, <1>2, <1>3 DEF ReaderTyped, ReaderFollows

(* A SELECT of a window adds one part to at most eight.                    *)
LEMMA SelectPartStep ==
  ASSUME ReaderTyped, SelectPart
  PROVE  ReaderTyped' /\ ReaderFollows'
<1> DEFINE n == Len(reader.parts)
           part == IF n < 4 THEN RollupPart(n + 1, reader.window) ELSE RollupPart(n - 3, Since(reader.window))
<1>1. /\ DOMAIN reader = {"job", "window", "parts", "known"} /\ reader.job = "captures"
      /\ reader.window \in Windows /\ reader.known \in SUBSET shots
      /\ \E S : reader.parts \in Seq(S)
      /\ n < 8
  BY DEF ReaderTyped, SelectPart, Away
<1>2. reader' = [reader EXCEPT !.parts = Append(reader.parts, part)] /\ shots' = shots
  BY DEF SelectPart, Untouched, tables
<1> HIDE DEF part
<1>3. PICK S : reader.parts \in Seq(S)
  BY <1>1
<1>4. reader.parts \in Seq(S \cup {part})
  BY <1>3, SeqMonotonic
<1>5. Append(reader.parts, part) \in Seq(S \cup {part}) /\ Len(Append(reader.parts, part)) = n + 1 /\ n \in Nat
  BY <1>4, RowBehind
<1>6. /\ DOMAIN reader' = {"job", "window", "parts", "known"} /\ reader'.job = "captures"
      /\ reader'.window = reader.window /\ reader'.known = reader.known
      /\ reader'.parts = Append(reader.parts, part)
  BY <1>1, <1>2
<1> QED
  BY <1>1, <1>2, <1>5, <1>6 DEF ReaderTyped, ReaderFollows

(* No step of anybody leaves a gap in what was printed.                    *)
LEMMA ReaderStep ==
  RowsTyped /\ ReaderTyped /\ ReaderFollows /\ [ReadersNext]_readersVars => ReaderTyped' /\ ReaderFollows'
<1> SUFFICES ASSUME RowsTyped, ReaderTyped, ReaderFollows, [ReadersNext]_readersVars
             PROVE  ReaderTyped' /\ ReaderFollows'
  OBVIOUS
<1>1. CASE UNCHANGED <<reader, events, shots>>
  BY <1>1, OtherStep
<1>2. CASE LedgerStep
  <2>1. ASSUME NEW p \in Caller, NEW event, LeavesRow(p, event) PROVE ReaderTyped' /\ ReaderFollows'
    <3>1. events' = Append(events, event) /\ reader' = reader /\ shots' = shots
      BY <2>1 DEF LeavesRow, Ledger
    <3> QED
      BY <3>1, EntryUnderReader DEF ReaderTyped
  <2>2. CASE \/ \E p \in Caller, c \in Claim : Call(p, c)
             \/ \E p \in Caller : WriteRefusal(p)
    BY <2>1, <2>2 DEF Call, WriteRefusal
  <2>3. CASE \/ \E p \in Caller, c \in Claim \cup {Null} : RefuseCall(p, c)
             \/ \E c \in Claim : RefuseArguments(c)
             \/ \E p \in Caller : LoseRefusal(p) \/ Answer(p)
             \/ \E c \in Claim \cup {Null}, s \in Session \cup {Null}, asked \in Submissions :
                  Submit(c, s, asked)
    BY <1>1, <2>3 DEF RefuseCall, RefuseArguments, LoseRefusal, Answer, Submit, tables
  <2> QED
    BY <1>2, <2>2, <2>3, OpenLedgerStep, ReadOnFollows, ReadBackFollows, LeaveStep DEF LedgerStep, Leave
<1>3. CASE CaptureStep
  <2>1. CASE \/ \E p \in Caller, c \in Claim, picture \in Pictures : TakePicture(p, c, picture)
             \/ \E p \in Caller : LoseShot(p)
             \/ \E id \in Ids, source, target \in shots, settings \in Settings, changed \in BOOLEAN :
                  Compare(id, source, target, settings, changed)
             \/ Tick
    BY <1>1, <2>1 DEF TakePicture, LoseShot, Compare, Tick, tables
  <2>2. ASSUME NEW p \in Caller, NEW id \in Ids, RecordShot(p, id) PROVE ReaderTyped' /\ ReaderFollows'
    BY <2>2, OtherStep DEF RecordShot
  <2> QED
    BY <1>3, <2>1, <2>2, OpenCapturesStep, SelectPartStep, LeaveStep DEF CaptureStep, Leave
<1> QED
  BY <1>1, <1>2, <1>3 DEF ReadersNext, readersVars

(* What was printed without a gap is the listing of the rows that match    *)
(* between its ends.                                                       *)
LEMMA FollowedIsListed ==
  ASSUME RowsTyped, ReaderFollows
  PROVE  FollowerMissesNothing
<1> SUFFICES ASSUME reader.job = "ledger", reader.seen # << >>
             PROVE  reader.seen = Ascending({i \in Matching([ParseEvents(reader.line) EXCEPT
                                                !.since = Head(reader.seen) - 1]) : i <= Last(reader.seen)})
  BY DEF FollowerMissesNothing
<1> DEFINE seen == reader.seen
           asked == ParseEvents(reader.line)
           q == [asked EXCEPT !.since = Head(seen) - 1]
           S == {i \in Matching(q) : i <= Last(seen)}
           first == seen[1]
           last == seen[Len(seen)]
<1>1. Follows(asked, seen) /\ reader.line \in EventLines /\ asked # Nothing
  BY DEF ReaderFollows, Following
<1>2. Len(seen) \in Nat /\ Len(seen) # 0 /\ seen \in Seq(Int)
  BY <1>1, EmptySeq DEF Follows
<1>3. Head(seen) = first /\ Last(seen) = last /\ first \in Int /\ last \in Int
  BY <1>2, ElementOfSeq DEF Last
<1>4. /\ q.kinds = asked.kinds /\ q.outcome = asked.outcome /\ q.guard = asked.guard
      /\ q.session = asked.session /\ q.claim = asked.claim /\ q.before = asked.before
      /\ q.since = first - 1
  <2> DEFINE given == ParseFlags(reader.line)
  <2>1. asked = [ok |-> TRUE, kinds |-> KindsAsked(given),
                 outcome |-> AsString(given, "outcome"), guard |-> AsString(given, "guard"),
                 session |-> AsString(given, "session-id"), claim |-> AsString(given, "claim-id"),
                 since |-> AsNumber(given, "since"), before |-> AsNumber(given, "before"),
                 limit |-> AsNumber(given, "limit"), order |-> OrderAsked(given)]
    BY <1>1, EventsParsed
  <2>2. DOMAIN asked = {"ok", "kinds", "outcome", "guard", "session", "claim", "since", "before",
                        "limit", "order"}
    BY <2>1
  <2> HIDE DEF given, asked
  <2> QED
    BY <1>3, <2>2
<1> HIDE DEF asked, q, first, last
<1>5. events \in Seq(Entry) /\ Null \notin Int
  BY ReadersAssumption DEF RowsTyped
<1>6. \A i : Wanted(q, i) <=> Wanted(asked, i)
  BY <1>4 DEF Wanted
<1>7. \A i \in DOMAIN events : i \in Int
  BY <1>5
<1>8. \A i \in DOMAIN events : Matches(q, i) <=> Wanted(asked, i) /\ first <= i
  <2>1. q.since # Null /\ \A i \in Int : i > q.since <=> first <= i
    BY <1>3, <1>4, <1>5
  <2> QED
    BY <1>6, <1>7, <2>1, MatchesIsWanted
<1>9. S = Elements(seen)
  BY <1>1, <1>3, <1>8 DEF Follows, Between, Matching, first, last
<1> HIDE DEF S
<1>10. S \in SUBSET Int /\ IsFiniteSet(S)
  <2>1. S \subseteq Matching(q)
    BY DEF S
  <2>2. Matching(q) \in SUBSET Int /\ IsFiniteSet(Matching(q))
    BY <1>5, MatchingIsFinite
  <2> QED
    BY <2>1, <2>2, FS_Subset
<1>11. Names(seen, S) /\ Rises(seen)
  <2>1. \A i \in 1 .. Len(seen) : seen[i] \in S
    BY <1>9 DEF Elements
  <2>2. seen \in Seq(S)
    BY <1>2, <2>1, SeqDef
  <2> QED
    BY <1>1, <1>9, <2>2 DEF Names, Elements, Follows
<1>12. seen = Ascending(S)
  BY <1>10, <1>11, AscendingListing, AscendingIsUnique
<1> QED
  BY <1>12 DEF S, q, asked

ReadersInv == RowsTyped /\ HeardIsWritten /\ ReaderTyped /\ ReaderFollows

(* The invariant of the records and their readers.                         *)
LEMMA ReadersInvariant == ReadersSpec => []ReadersInv
<1>1. ReadersInit => ReadersInv
  <2>1. ReadersInit => ReaderTyped /\ ReaderFollows
    BY DEF ReadersInit, ReaderTyped, ReaderFollows, Away
  <2> QED
    BY <2>1, RowsTypedInit DEF ReadersInv
<1>2. ReadersInv /\ [ReadersNext]_readersVars => ReadersInv'
  BY RowsTypedStep, ReaderStep DEF ReadersInv
<1> QED
  BY <1>1, <1>2, PTL DEF ReadersSpec

(* Whoever reads the ledger page by page, on from the cursor that was      *)
(* printed or back from the first row, while calls and late refusals are   *)
(* written, prints every row that matches between the first and the last   *)
(* one once, and in order (operations/ledger.ts: readLedger,               *)
(* runEventsCommand), whatever the line asks for and however many rows a   *)
(* page may have.                                                          *)
THEOREM FollowersMissNothing == ReadersSpec => []FollowerMissesNothing
<1>1. ReadersInv => FollowerMissesNothing
  BY FollowedIsListed DEF ReadersInv
<1> QED
  BY <1>1, ReadersInvariant, PTL

-----------------------------------------------------------------------------
(* Feedback.                                                               *)

(* What is submitted last is shown first to who asks for its category.     *)
LEMMA ShownFirst ==
  ASSUME NEW S, feedback' \in Seq(S), Len(feedback') # 0,
         NEW category, category = feedback'[Len(feedback')].category
  PROVE  ReadFeedback(category, 1)' = <<Len(feedback')>>
<1> DEFINE n == Len(feedback')
           T == {i \in DOMAIN feedback' : category = Null \/ category = feedback'[i].category}
           all == Descending(T)
<1>1. n \in Nat /\ DOMAIN feedback' = 1 .. n
  OBVIOUS
<1>2. T \in SUBSET (1 .. n) /\ n \in T
  BY <1>1
<1>3. T \in SUBSET Int /\ IsFiniteSet(T)
  <2>1. IsFiniteSet(1 .. n)
    BY <1>1, FS_Interval
  <2> QED
    BY <1>2, <2>1, FS_Subset
<1>4. ReadFeedback(category, 1)' = First(all, 1)
  BY DEF ReadFeedback, IsOrAny, First, Descending, Sorted
<1> HIDE DEF T
<1>5. Names(all, T) /\ Falls(all)
  BY <1>3, DescendingListing
<1> HIDE DEF all
<1>6. PICK k \in 1 .. Len(all) : all[k] = n
  BY <1>2, <1>5 DEF Names
<1>7. all \in Seq(T) /\ all # << >> /\ Len(all) \in Nat
  BY <1>5, <1>6 DEF Names
<1>8. 1 \in 1 .. Len(all) /\ all[1] \in T
  BY <1>6, <1>7, ElementOfSeq
<1>9. all[1] = n
  <2>1. 1 < k => all[1] > n
    BY <1>5, <1>6, <1>8 DEF Falls
  <2>2. all[1] \in 1 .. n
    BY <1>2, <1>8
  <2> QED
    BY <1>1, <1>6, <1>7, <2>1, <2>2
<1>10. First(all, 1) = <<all[1]>>
  BY <1>7, FirstOfSequence
<1> QED
  BY <1>4, <1>9, <1>10

(* What FeedbackNamesTheCall says of a row of feedback.                    *)
Named(n) ==
  LET f == feedback'[n] IN
  /\ f.lastEvent # Null => f.lastGuard = events[f.lastEvent].guard
  /\ f.claim # Null =>
       LET last == heard[f.claim] IN
       /\ f.lastEvent # Null => events[f.lastEvent].claim = f.claim
       /\ last.row # 0 => f.lastEvent # Null /\ f.lastEvent >= last.row
       /\ last.left /\ f.lastEvent = last.row => f.lastGuard = last.rule
       /\ last.rule = ArgumentRule => ~last.left /\ f.lastGuard # last.rule
  /\ LegalFeedback(f)
  /\ \A k \in {f.category} : ReadFeedback(k, 1)' = <<n>>

(* What is submitted names the last row of its claim.                      *)
LEMMA SubmissionIsNamed ==
  ASSUME ReadersInv, NEW c \in Claim \cup {Null}, NEW s \in Session \cup {Null},
         NEW asked \in Submissions, Submit(c, s, asked)
  PROVE  \A n \in DOMAIN feedback' \ DOMAIN feedback : Named(n)
<1> DEFINE x == CaptureContext(c, s)
           row == [rating |-> asked.rating, category |-> asked.category,
                   noteLength |-> asked.noteLength, session |-> s, claim |-> x.claim,
                   lastEvent |-> x.lastEvent, lastGuard |-> x.lastGuard]
           n == Len(feedback) + 1
<1>1. events \in Seq(Entry) /\ feedback \in Seq(FeedbackRow) /\ heard \in [Claim -> Answered] /\ Null \notin Int
      /\ HeardIsWritten
  BY ReadersAssumption DEF ReadersInv, RowsTyped
<1>2. /\ x.claim = c
      /\ x.lastEvent \in DOMAIN events \cup {Null}
      /\ x.lastGuard = IF x.lastEvent = Null THEN Null ELSE events[x.lastEvent].guard
      /\ c # Null /\ x.lastEvent # Null => events[x.lastEvent].claim = c
      /\ c # Null => \A i \in DOMAIN events : events[i].claim = c =>
           /\ x.lastEvent \in DOMAIN events
           /\ i <= x.lastEvent
  BY <1>1, ContextOf
<1>3. feedback' = Append(feedback, row) /\ ~RefuseSubmission(asked)
  BY DEF Submit
<1> HIDE DEF x
<1>4. /\ row.rating = asked.rating /\ row.category = asked.category /\ row.noteLength = asked.noteLength
      /\ row.claim = c /\ row.lastEvent = x.lastEvent /\ row.lastGuard = x.lastGuard
  BY <1>2
<1> HIDE DEF row
<1>5. /\ feedback' \in Seq(FeedbackRow \cup {row}) /\ Len(feedback') = n /\ n \in Nat
      /\ DOMAIN feedback' \ DOMAIN feedback = {n} /\ feedback'[n] = row
  <2>1. feedback \in Seq(FeedbackRow \cup {row}) /\ Len(feedback) \in Nat /\ DOMAIN feedback = 1 .. Len(feedback)
    BY <1>1, SeqMonotonic
  <2>2. /\ Append(feedback, row) \in Seq(FeedbackRow \cup {row})
        /\ Len(Append(feedback, row)) = Len(feedback) + 1
        /\ DOMAIN Append(feedback, row) = DOMAIN feedback \cup {Len(feedback) + 1}
        /\ Append(feedback, row)[Len(feedback) + 1] = row
    BY <2>1, RowBehind
  <2>3. n \notin DOMAIN feedback
    BY <2>1
  <2> QED
    BY <1>3, <2>1, <2>2, <2>3
<1> DEFINE last == heard[c]
<1>13. /\ \A i \in DOMAIN events : events[i].guard \in Rules
       /\ DOMAIN events \in SUBSET Int
  <2>1. \A i \in DOMAIN events : events[i] \in Entry
    BY <1>1
  <2>2. \A e \in Entry : e.guard \in Rules
    BY DEF Entry
  <2> QED
    BY <1>1, <2>1, <2>2
<1>11. x.lastGuard \in Rules
  <2>1. Null \in Rules
    BY DEF Rules
  <2> QED
    BY <1>2, <1>13, <2>1
<1>6. ASSUME c # Null
      PROVE  /\ x.lastEvent # Null => events[x.lastEvent].claim = c
             /\ last.row # 0 => x.lastEvent # Null /\ x.lastEvent >= last.row
             /\ last.left /\ x.lastEvent = last.row => x.lastGuard = last.rule
             /\ last.rule = ArgumentRule => ~last.left /\ x.lastGuard # last.rule
  <2>1. /\ c \in Claim /\ last \in Answered
        /\ last.row # 0 => last.row \in DOMAIN events /\ events[last.row].claim = c
        /\ last.left => last.row # 0 /\ last.row \in DOMAIN events /\ events[last.row].guard = last.rule
    BY <1>1, <1>6 DEF HeardIsWritten, IsRowOf
  <2> HIDE DEF last
  <2>2. last.row # 0 => x.lastEvent \in DOMAIN events /\ last.row <= x.lastEvent
    BY <1>2, <1>6, <2>1
  <2>3. last.row \in Int
    BY <2>1 DEF Answered
  <2>4. last.row # 0 => x.lastEvent # Null /\ x.lastEvent >= last.row
    <3> SUFFICES ASSUME last.row # 0 PROVE x.lastEvent # Null /\ x.lastEvent >= last.row
      OBVIOUS
    <3>1. x.lastEvent \in Int /\ last.row <= x.lastEvent
      BY <1>13, <2>2
    <3>2. \A a, b \in Int : a <= b => b >= a
      OBVIOUS
    <3> QED
      BY <1>1, <2>3, <3>1, <3>2
  <2>5. last.left => last.rule \in Rules
    BY <1>13, <2>1
  <2>6. last.left /\ x.lastEvent = last.row => x.lastGuard = last.rule
    BY <1>1, <1>2, <2>1, <2>4
  <2> QED
    BY <1>2, <1>6, <1>11, <2>4, <2>5, <2>6, NoRowForArguments
<1>7. LegalFeedback(row)
  <2>1. asked.noteLength \in Int
    BY ReadersAssumption
  <2> QED
    BY <1>3, <1>4, <2>1 DEF RefuseSubmission, LegalFeedback
<1>8. \A k \in {row.category} : ReadFeedback(k, 1)' = <<n>>
  <2>1. \A k : k = feedback'[Len(feedback')].category =>
          ReadFeedback(k, 1)' = <<Len(feedback')>>
    BY <1>5, ShownFirst
  <2> QED
    BY <1>5, <2>1
<1>9. row.lastEvent # Null => row.lastGuard = events[row.lastEvent].guard
  BY <1>2, <1>4
<1>10. Named(n)
  <2> HIDE DEF n
  <2>1. row.claim # Null =>
          /\ row.lastEvent # Null => events[row.lastEvent].claim = row.claim
          /\ heard[row.claim].row # 0 => row.lastEvent # Null /\ row.lastEvent >= heard[row.claim].row
          /\ heard[row.claim].left /\ row.lastEvent = heard[row.claim].row =>
               row.lastGuard = heard[row.claim].rule
          /\ heard[row.claim].rule = ArgumentRule =>
               ~heard[row.claim].left /\ row.lastGuard # heard[row.claim].rule
    BY <1>4, <1>6
  <2> QED
    BY <1>5, <1>7, <1>8, <1>9, <2>1 DEF Named
<1> QED
  BY <1>5, <1>10

(* Feedback that is given with a key names a row of that claim, which is   *)
(* no older than the last call that was answered and left one, with the    *)
(* rule of that very row; and when the last call answered was refused for  *)
(* its arguments, which leaves none, it never names the rule of that call. *)
(* The table takes it, and who reads the feedback of that category is      *)
(* shown it first (feedback/: captureContext, recordFeedback,              *)
(* readFeedback).                                                          *)
THEOREM FeedbackIsNamed == ReadersSpec => FeedbackNamesTheCall
<1>1. ASSUME ReadersInv, [ReadersNext]_readersVars
      PROVE  \A n \in DOMAIN feedback' \ DOMAIN feedback : Named(n)
  <2>1. CASE feedback' = feedback
    BY <2>1
  <2>2. CASE LedgerStep
    <3>1. CASE \E c \in Claim \cup {Null}, s \in Session \cup {Null}, asked \in Submissions :
                 Submit(c, s, asked)
      BY <1>1, <3>1, SubmissionIsNamed
    <3>2. CASE ~\E c \in Claim \cup {Null}, s \in Session \cup {Null}, asked \in Submissions :
                 Submit(c, s, asked)
      BY <2>1, <2>2, <3>2 DEF LedgerStep, Call, RefuseCall, RefuseArguments, WriteRefusal, LoseRefusal, Answer,
           LeavesRow, OpenLedger,
           ReadOn, ReadBack, Leave, Untouched, tables
    <3> QED
      BY <3>1, <3>2
  <2>3. CASE CaptureStep
    BY <2>1, <2>3 DEF CaptureStep, TakePicture, RecordShot, LoseShot, Compare, OpenCaptures, SelectPart,
         Leave, Tick, Untouched, tables
  <2> QED
    BY <1>1, <2>1, <2>2, <2>3 DEF ReadersNext, readersVars
<1>2. ReadersInv /\ [ReadersNext]_readersVars =>
        [\A n \in DOMAIN feedback' \ DOMAIN feedback : Named(n)]_readersVars
  BY <1>1
<1> QED
  BY <1>2, ReadersInvariant, PTL DEF ReadersSpec, FeedbackNamesTheCall, Named

-----------------------------------------------------------------------------
(* What is added up.                                                       *)

(* The refusals counted for a rule are the rows found for it.              *)
LEMMA RefusalsAreCounted == RefusalsAddUp
<1> SUFFICES ASSUME NEW line \in EventLines, ParseEvents(line) # Nothing,
                    NEW g \in DOMAIN CountByGuard(ParseEvents(line))
             PROVE  CountByGuard(ParseEvents(line))[g] = ReadLedger([ParseEvents(line) EXCEPT !.guard = g]).total
  BY DEF RefusalsAddUp, EventQuery
<1> DEFINE q == ParseEvents(line)
           any == [q EXCEPT !.guard = Null]
           of == [q EXCEPT !.guard = g]
           refusals == {i \in Matching(any) : events[i].guard # Null}
<1>1. DOMAIN q = {"ok", "kinds", "outcome", "guard", "session", "claim", "since", "before", "limit", "order"}
  BY EventsParsed
<1> HIDE DEF q
<1>2. /\ any.kinds = of.kinds /\ any.outcome = of.outcome /\ any.session = of.session
      /\ any.claim = of.claim /\ any.since = of.since /\ any.before = of.before
      /\ any.guard = Null /\ of.guard = g
  BY <1>1
<1> HIDE DEF any, of
<1>3. g \in {events[i].guard : i \in refusals}
  BY DEF CountByGuard, q, any
<1>4. g # Null
  BY <1>3
<1>5. \A i : Matches(of, i) <=> Matches(any, i) /\ events[i].guard = g
  BY <1>2, <1>4 DEF Matches, IsOrAny
<1>6. {i \in refusals : events[i].guard = g} = Matching(of)
  BY <1>4, <1>5 DEF Matching
<1>7. CountByGuard(q)[g] = Cardinality({i \in refusals : events[i].guard = g})
  BY <1>3 DEF CountByGuard, any
<1>8. ReadLedger(of).total = Cardinality(Matching(of))
  BY DEF ReadLedger
<1> QED
  BY <1>6, <1>7, <1>8 DEF of, q

-----------------------------------------------------------------------------
(* The words of `broker captures`, one by one.                             *)

Valued == {"since", "until", "lease", "capture", "limit"}
Alone  == {"json", "targets"}
Start  == [ok |-> TRUE, after |-> Null, given |-> << >>]

TakeNext(line, word) == TakeWord(Valued, Alone, CapturesFits, line, word)

(* f is what was made of the words, from none to all of the first n.       *)
Takes(f, argv, n) ==
  /\ f = [i \in 0 .. n |-> f[i]]
  /\ f[0] = Start
  /\ \A i \in 1 .. n : f[i] = TakeNext(f[i - 1], argv[i])

(* The words of a line can be taken one by one, however many they are.     *)
LEMMA TakingExists ==
  ASSUME NEW argv, NEW n \in Nat
  PROVE  \E f : Takes(f, argv, n)
<1> DEFINE Bad == {m \in Nat : ~\E f : Takes(f, argv, m)}
<1>1. SUFFICES ASSUME Bad # {} PROVE FALSE
  OBVIOUS
<1>2. PICK m \in Bad : \A k \in Bad : m <= k
  <2>1. Bad \in SUBSET Nat
    OBVIOUS
  <2> HIDE DEF Bad
  <2> QED
    BY <1>1, <2>1, Least
<1>3. m # 0
  <2> DEFINE f == [i \in 0 .. 0 |-> Start]
  <2>1. Takes(f, argv, 0)
    BY DEF Takes
  <2> QED
    BY <2>1
<1>4. m - 1 \in Nat /\ m - 1 \notin Bad
  BY <1>2, <1>3
<1>5. PICK f : Takes(f, argv, m - 1)
  BY <1>4
<1> DEFINE more == [i \in 0 .. m |-> IF i = m THEN TakeNext(f[m - 1], argv[m]) ELSE f[i]]
<1>6. more = [i \in 0 .. m |-> more[i]]
  OBVIOUS
<1>7. more[0] = Start
  BY <1>3, <1>5 DEF Takes
<1>8. ASSUME NEW i \in 1 .. m PROVE more[i] = TakeNext(more[i - 1], argv[i])
  <2>1. i \in 0 .. m /\ i - 1 \in 0 .. m /\ i - 1 # m /\ m \in Nat
    OBVIOUS
  <2>2. more[i - 1] = f[i - 1]
    BY <2>1
  <2>3. CASE i = m
    BY <2>1, <2>2, <2>3
  <2>4. CASE i # m
    <3>1. i \in 1 .. m - 1
      BY <2>1, <2>4
    <3>2. f[i] = TakeNext(f[i - 1], argv[i])
      BY <1>5, <3>1 DEF Takes
    <3> QED
      BY <2>1, <2>2, <2>4, <3>2
  <2> QED
    BY <2>3, <2>4
<1> HIDE DEF more
<1>9. Takes(more, argv, m)
  BY <1>6, <1>7, <1>8 DEF Takes
<1> QED
  BY <1>2, <1>9

(* What a line is taken for is what its last word makes of those before.   *)
LEMMA TakenStepwise ==
  ASSUME NEW argv, Len(argv) \in Nat
  PROVE  \E f : Takes(f, argv, Len(argv)) /\ Take(argv, Valued, Alone, CapturesFits) = f[Len(argv)]
<1> DEFINE n == Len(argv)
           Is(f) == f = [i \in 0 .. n |->
                          IF i = 0 THEN Start
                          ELSE TakeWord(Valued, Alone, CapturesFits, f[i - 1], argv[i])]
           line == CHOOSE f : Is(f)
<1>1. PICK f : Takes(f, argv, n)
  BY TakingExists
<1>2. Is(f)
  BY <1>1 DEF Takes, TakeNext
<1>3. Is(line)
  BY <1>2
<1>4. Take(argv, Valued, Alone, CapturesFits) = line[n]
  BY DEF Take, Start
<1> HIDE DEF line
<1>5. Takes(line, argv, n)
  <2>1. line = [i \in 0 .. n |-> line[i]]
    BY <1>3
  <2>2. line[0] = Start
    BY <1>3
  <2>3. \A i \in 1 .. n : line[i] = TakeNext(line[i - 1], argv[i])
    BY <1>3 DEF TakeNext
  <2> QED
    BY <2>1, <2>2, <2>3 DEF Takes
<1> QED
  BY <1>4, <1>5

(* Of what the words gave, only --json and --targets have no word of their *)
(* own.                                                                    *)
WellTaken(line) ==
  /\ DOMAIN line = {"ok", "after", "given"}
  /\ \A name \in DOMAIN line.given \ Alone : WellSpelt(line.given[name])

(* A word that is well spelt leaves the line well taken.                   *)
LEMMA WordTaken ==
  ASSUME NEW line, WellTaken(line), NEW word, WellSpelt(word)
  PROVE  WellTaken(TakeNext(line, word))
<1> DEFINE next == TakeNext(line, word)
           name == IF IsFlag(word) /\ ~IsJoined(word) THEN word.flag ELSE Null
<1>1. \/ next = Give(line, line.after, word)
      \/ next = [line EXCEPT !.ok = FALSE, !.after = Null]
      \/ name \in Alone /\ next = Give(line, name, Bare)
      \/ next = [line EXCEPT !.after = name]
      \/ next = [line EXCEPT !.ok = FALSE]
  BY DEF TakeNext, TakeWord
<1> SUFFICES WellTaken(next)
  OBVIOUS
<1> HIDE DEF next, name
<1>2. ASSUME NEW n, NEW v, n \in Alone \/ WellSpelt(v) PROVE WellTaken(Give(line, n, v))
  <2> DEFINE g == Give(line, n, v)
  <2>1. /\ DOMAIN g = {"ok", "after", "given"}
        /\ g.given = [m \in DOMAIN line.given \cup {n} |-> IF m = n THEN v ELSE line.given[m]]
    BY DEF Give
  <2> HIDE DEF g
  <2>2. ASSUME NEW m \in DOMAIN g.given \ Alone PROVE WellSpelt(g.given[m])
    <3>1. CASE m = n
      BY <1>2, <2>1, <3>1
    <3>2. CASE m # n
      <4>1. m \in DOMAIN line.given \ Alone /\ g.given[m] = line.given[m]
        BY <2>1, <3>2
      <4> QED
        BY <4>1 DEF WellTaken
    <3> QED
      BY <3>1, <3>2
  <2> QED
    BY <2>1, <2>2 DEF WellTaken, g
<1>3. CASE next = Give(line, line.after, word)
  BY <1>2, <1>3
<1>4. CASE name \in Alone /\ next = Give(line, name, Bare)
  BY <1>2, <1>4
<1>5. CASE \/ next = [line EXCEPT !.ok = FALSE, !.after = Null]
           \/ next = [line EXCEPT !.after = name]
           \/ next = [line EXCEPT !.ok = FALSE]
  <2>1. DOMAIN next = DOMAIN line /\ next.given = line.given
    BY <1>5 DEF WellTaken
  <2> QED
    BY <2>1 DEF WellTaken
<1> QED
  BY <1>1, <1>3, <1>4, <1>5

(* So do all of them.                                                      *)
LEMMA LineTaken ==
  ASSUME NEW argv \in CaptureLines
  PROVE  WellTaken(Take(argv, Valued, Alone, CapturesFits))
<1> DEFINE n == Len(argv)
<1>1. n \in Nat /\ \A i \in 1 .. n : WellSpelt(argv[i])
  <2>1. argv \in Seq(ToSet(argv)) /\ \A word \in ToSet(argv) : WellSpelt(word)
    BY ReadersAssumption
  <2> QED
    BY <2>1 DEF ToSet
<1>2. PICK f : Takes(f, argv, n) /\ Take(argv, Valued, Alone, CapturesFits) = f[n]
  BY <1>1, TakenStepwise
<1> DEFINE Bad == {i \in Nat : i <= n /\ ~WellTaken(f[i])}
<1>3. ASSUME Bad # {} PROVE FALSE
  <2>1. PICK i \in Bad : \A j \in Bad : i <= j
    <3>1. Bad \in SUBSET Nat
      OBVIOUS
    <3> HIDE DEF Bad
    <3> QED
      BY <1>3, <3>1, Least
  <2>2. i # 0
    <3>1. f[0] = Start
      BY <1>2 DEF Takes
    <3>2. WellTaken(Start)
      BY DEF WellTaken, Start
    <3> QED
      BY <2>1, <3>1, <3>2
  <2>3. i - 1 \in Nat /\ i - 1 \notin Bad /\ i - 1 <= n /\ i \in 1 .. n
    BY <1>1, <2>1, <2>2
  <2>4. WellTaken(f[i - 1])
    BY <2>3
  <2>5. f[i] = TakeNext(f[i - 1], argv[i])
    BY <1>2, <2>3 DEF Takes
  <2>6. WellTaken(f[i])
    BY <1>1, <2>3, <2>4, <2>5, WordTaken
  <2> QED
    BY <2>1, <2>6
<1>4. WellTaken(f[n])
  BY <1>1, <1>3
<1> QED
  BY <1>2, <1>4

(* What a line of `broker captures` asks for: numbers that are whole, and, *)
(* if it is about one capture, which one.                                  *)
LEMMA CaptureQueryTyped ==
  ASSUME NEW q \in CaptureQuery
  PROVE  /\ q.limit \in WholeOrNull /\ q.since \in WholeOrNull /\ q.until \in WholeOrNull
         /\ DOMAIN q = {"ok", "mode", "capture", "limit", "since", "until", "claim"}
         /\ q.mode = "capture" => q.capture # Null
<1>1. PICK argv \in CaptureLines : q = ParseCaptures(argv) /\ ParseCaptures(argv) # Nothing
  BY DEF CaptureQuery
<1> DEFINE line == Take(argv, Valued, Alone, CapturesFits)
           given == line.given
           modes == {f \in {"capture", "targets"} : f \in DOMAIN given}
<1>2. WellTaken(line)
  BY LineTaken
<1>3. q = [ok |-> TRUE,
           mode |-> IF modes = {} THEN "rollup" ELSE CHOOSE f \in modes : TRUE,
           capture |-> AsString(given, "capture"), limit |-> AsNumber(given, "limit"),
           since |-> AsNumber(given, "since"), until |-> AsNumber(given, "until"),
           claim |-> AsString(given, "lease")]
  BY <1>1 DEF ParseCaptures, Valued, Alone
<1> HIDE DEF line
<1>4. \A name \in {"limit", "since", "until"} : AsNumber(given, name) \in WholeOrNull
  BY <1>2 DEF WellTaken, WellSpelt, AsNumber, WholeOrNull, Alone
<1>5. q.mode = "capture" => "capture" \in DOMAIN given
  BY <1>3
<1>6. "capture" \in DOMAIN given => AsString(given, "capture") # Null
  <2> SUFFICES ASSUME "capture" \in DOMAIN given PROVE AsString(given, "capture") # Null
    OBVIOUS
  <2>1. WellSpelt(given["capture"])
    BY <1>2 DEF WellTaken, Alone
  <2> HIDE DEF given
  <2> QED
    BY <2>1 DEF WellSpelt, AsString
<1> HIDE DEF given, modes
<1>7. q.limit = AsNumber(given, "limit") /\ q.since = AsNumber(given, "since")
      /\ q.until = AsNumber(given, "until") /\ q.capture = AsString(given, "capture")
      /\ DOMAIN q = {"ok", "mode", "capture", "limit", "since", "until", "claim"}
  BY <1>3
<1> QED
  BY <1>4, <1>5, <1>6, <1>7

-----------------------------------------------------------------------------
(* Comparisons.                                                            *)

DistinctIds == \A r, s \in comparisons : r.id = s.id => r = s

(* Finite sets of rows with a moment and an identifier have one order from *)
(* the newest back.                                                        *)
LEMMA NewestListing ==
  ASSUME NEW S, IsFiniteSet(S), \A x \in S : x.at \in Int /\ x.id \in Int,
         \A x, y \in S : x.id = y.id => x = y
  PROVE  /\ Newest(S) \in [1 .. Cardinality(S) -> S] /\ Cardinality(S) \in Nat
         /\ \A i, j \in 1 .. Cardinality(S) : i # j => Newest(S)[i] # Newest(S)[j]
         /\ \A x \in S : \E i \in 1 .. Cardinality(S) : Newest(S)[i] = x
         /\ \A i, j \in 1 .. Cardinality(S) : i < j => Later(Newest(S)[i], Newest(S)[j])
<1> DEFINE n == Cardinality(S)
           R == {p \in S \X S : Later(p[1], p[2])}
           all == Newest(S)
<1>1. n \in Nat
  BY FS_CardinalityType
<1>2. Orders(R, S)
  <2>1. \A x, y \in S : <<x, y>> \in R <=> Later(x, y)
    OBVIOUS
  <2>2. \A x \in S : ~Later(x, x)
    BY DEF Later
  <2>3. \A x, y, z \in S : Later(x, y) /\ Later(y, z) => Later(x, z)
    BY DEF Later
  <2>4. \A x, y \in S : x # y => Later(x, y) \/ Later(y, x)
    BY DEF Later
  <2> HIDE DEF R
  <2> QED
    BY <2>1, <2>2, <2>3, <2>4 DEF Orders
<1>3. \E seq \in [1 .. n -> S] : Lists(seq, S, R)
  <2> HIDE DEF R
  <2> QED
    BY <1>2, ListingExists
<1>4. \E seq \in [1 .. n -> S] : \A i, j \in DOMAIN seq : i < j => Later(seq[i], seq[j])
  BY <1>3 DEF Lists
<1>5. /\ all \in [1 .. n -> S]
      /\ \A i, j \in DOMAIN all : i < j => Later(all[i], all[j])
  BY <1>4 DEF Newest, Sorted
<1> HIDE DEF all
<1>6. \A i, j \in 1 .. n : i < j => all[i] # all[j]
  <2> SUFFICES ASSUME NEW i \in 1 .. n, NEW j \in 1 .. n, i < j PROVE all[i] # all[j]
    OBVIOUS
  <2>1. Later(all[i], all[j]) /\ all[i] \in S /\ all[j] \in S
    BY <1>5
  <2>2. ~Later(all[i], all[i])
    BY <2>1 DEF Later
  <2> QED
    BY <2>1, <2>2
<1>7. \A x \in S : \E i \in 1 .. n : all[i] = x
  BY <1>5, <1>6, ListingIsOnto
<1>8. \A i, j \in 1 .. n : i # j => all[i] # all[j]
  BY <1>1, <1>6
<1> QED
  BY <1>1, <1>5, <1>7, <1>8 DEF all

(* There is no comparison at the start.                                    *)
LEMMA DistinctInit == ReadersInit => DistinctIds
BY DEF ReadersInit, DistinctIds

(* A comparison draws an identifier that no other has.                     *)
LEMMA DistinctStep == DistinctIds /\ [ReadersNext]_readersVars => DistinctIds'
<1> SUFFICES ASSUME DistinctIds, [ReadersNext]_readersVars PROVE DistinctIds'
  OBVIOUS
<1>1. CASE comparisons' = comparisons
  BY <1>1 DEF DistinctIds
<1>2. ASSUME NEW id \in Ids, NEW source \in shots, NEW target \in shots, NEW settings \in Settings,
             NEW changed \in BOOLEAN, Compare(id, source, target, settings, changed)
      PROVE  DistinctIds'
  <2> DEFINE row == [id |-> id, at |-> now, source |-> source.id, target |-> target.id,
                     claim |-> source.claim, settings |-> settings, changed |-> changed]
  <2>1. comparisons' = comparisons \cup {row} /\ \A r \in comparisons : r.id # row.id
    BY <1>2 DEF Compare
  <2> HIDE DEF row
  <2> QED
    BY <2>1 DEF DistinctIds
<1>3. CASE LedgerStep
  BY <1>1, <1>3 DEF LedgerStep, Call, RefuseCall, RefuseArguments, WriteRefusal, LoseRefusal, Answer, LeavesRow,
       Submit, OpenLedger,
       ReadOn, ReadBack, Leave, Untouched, tables
<1>4. CASE CaptureStep
  <2>1. CASE \E id \in Ids, source, target \in shots, settings \in Settings, changed \in BOOLEAN :
               Compare(id, source, target, settings, changed)
    BY <1>2, <2>1
  <2>2. CASE ~\E id \in Ids, source, target \in shots, settings \in Settings, changed \in BOOLEAN :
               Compare(id, source, target, settings, changed)
    BY <1>1, <1>4, <2>2 DEF CaptureStep, TakePicture, RecordShot, LoseShot, OpenCaptures, SelectPart,
         Leave, Tick, Untouched, tables
  <2> QED
    BY <2>1, <2>2
<1> QED
  BY <1>1, <1>3, <1>4 DEF ReadersNext, readersVars

(* What is paired off one to one is as many.                               *)
LEMMA OneToOne ==
  ASSUME NEW S, IsFiniteSet(S), NEW T, NEW f \in [S -> T],
         \A x, y \in S : x # y => f[x] # f[y],
         \A z \in T : \E x \in S : f[x] = z
  PROVE  IsFiniteSet(T) /\ Cardinality(T) = Cardinality(S)
<1>1. f \in Bijection(S, T)
  BY DEF Bijection, Injection, Surjection, IsInjective
<1>2. ExistsBijection(S, T)
  BY <1>1 DEF ExistsBijection
<1> QED
  BY <1>2, FS_Bijection

(* What is counted of a listing is there in what was listed.               *)
LEMMA ListedCounts ==
  ASSUME RowsTyped, DistinctIds, NEW S \in SUBSET comparisons
  PROVE  /\ IsFiniteSet(S)
         /\ ToOutcomes(Newest(S)).comparisons = Cardinality(S)
         /\ ToOutcomes(Newest(S)).changed = Cardinality({r \in S : r.changed})
<1> DEFINE n == Cardinality(S)
           all == Newest(S)
           I == {i \in 1 .. n : all[i].changed}
           T == {r \in S : r.changed}
           f == [i \in I |-> all[i]]
<1>1. IsFiniteSet(S) /\ \A r \in S : r.at \in Int /\ r.id \in Int
  <2>1. IsFiniteSet(S)
    BY FS_Subset DEF RowsTyped
  <2> QED
    BY <2>1 DEF RowsTyped, ComparisonRow
<1>2. /\ all \in [1 .. n -> S] /\ n \in Nat
      /\ \A i, j \in 1 .. n : i # j => all[i] # all[j]
      /\ \A x \in S : \E i \in 1 .. n : all[i] = x
  <2>1. \A x, y \in S : x.id = y.id => x = y
    BY DEF DistinctIds
  <2> QED
    BY <1>1, <2>1, NewestListing
<1> HIDE DEF all, n
<1>3. DOMAIN all = 1 .. n /\ Len(all) = n
  BY <1>2
<1>4. IsFiniteSet(I)
  <2>1. IsFiniteSet(1 .. n) /\ I \in SUBSET (1 .. n)
    BY <1>2, FS_Interval
  <2> QED
    BY <2>1, FS_Subset
<1>5. f \in [I -> T]
  BY <1>2
<1>6. \A i, j \in I : i # j => f[i] # f[j]
  BY <1>2
<1>7. \A r \in T : \E i \in I : f[i] = r
  BY <1>2
<1> HIDE DEF f
<1>8. Cardinality(T) = Cardinality(I)
  <2> HIDE DEF I, T
  <2> QED
    BY <1>4, <1>5, <1>6, <1>7, OneToOne
<1>9. ToOutcomes(all).comparisons = n /\ ToOutcomes(all).changed = Cardinality(I)
  BY <1>3 DEF ToOutcomes, HowMany
<1> QED
  BY <1>1, <1>8, <1>9 DEF all, n

(* The comparisons of a capture are those listed for it.                   *)
LEMMA ActivityIsListed ==
  ASSUME NEW q \in CaptureQuery, NEW d \in DiffQuery,
         q.mode = "capture", d.claim = Null, d.limit = ClampLimit(q.limit)
  PROVE  LET activity == CaptureDiffActivity(q.capture, q.limit)
             listed   == ToOutcomes(ListComparisons(d))
         IN /\ d.source = q.capture /\ d.target = Null => activity.asSource = listed
            /\ d.source = Null /\ d.target = q.capture => activity.asTarget = listed
<1> DEFINE k == ClampLimit(q.limit)
           found == {r \in comparisons : /\ IsOrAny(d.source, r.source)
                                         /\ IsOrAny(d.target, r.target)
                                         /\ IsOrAny(d.claim, r.claim)}
           sources == {r \in comparisons : r.source = q.capture}
           targets == {r \in comparisons : r.target = q.capture}
           activity == CaptureDiffActivity(q.capture, q.limit)
<1>1. q.limit \in WholeOrNull /\ q.capture # Null
  BY CaptureQueryTyped
<1>2. k # Null
  BY <1>1, LimitIsWhole
<1>3. /\ activity.asSource = ToOutcomes(First(Newest(sources), k))
      /\ activity.asTarget = ToOutcomes(First(Newest(targets), k))
  BY DEF CaptureDiffActivity
<1>4. ListComparisons(d) = First(Newest(found), k)
  BY <1>2 DEF ListComparisons
<1>5. d.source = q.capture /\ d.target = Null => found = sources
  BY <1>1 DEF IsOrAny
<1>6. d.source = Null /\ d.target = q.capture => found = targets
  BY <1>1 DEF IsOrAny
<1> HIDE DEF found, sources, targets, k, activity
<1>7. /\ d.source = q.capture /\ d.target = Null => activity.asSource = ToOutcomes(ListComparisons(d))
      /\ d.source = Null /\ d.target = q.capture => activity.asTarget = ToOutcomes(ListComparisons(d))
  BY <1>3, <1>4, <1>5, <1>6
<1> QED
  BY <1>7 DEF activity

(* What is most compared against, and how often.                           *)
Against(t) == {r \in comparisons : r.target = t}
Summary(t) == [target |-> t, comparisons |-> Cardinality(Against(t)),
               changed |-> Cardinality({r \in Against(t) : r.changed})]
Summaries  == {Summary(t) : t \in {r.target : r \in comparisons}}
Ahead(x, y) == \/ x.comparisons > y.comparisons
               \/ x.comparisons = y.comparisons /\ x.target < y.target

(* What is shown as most compared against is summed up from its            *)
(* comparisons.                                                            *)
LEMMA TargetsAreSummaries ==
  ASSUME RowsTyped, NEW limit \in WholeOrNull
  PROVE  ToSet(MostDiffedTargets(limit)) \subseteq Summaries
<1> DEFINE found == Summaries
           n == Cardinality(found)
           all == Sorted(found, Ahead)
           R == {p \in found \X found : Ahead(p[1], p[2])}
           k == ClampLimit(limit)
<1>1. IsFiniteSet(found)
  <2> DEFINE f == [r \in comparisons |-> Summary(r.target)]
  <2>1. f \in Surjection(comparisons, found)
    BY DEF Surjection, Summaries
  <2>2. IsFiniteSet(comparisons)
    BY DEF RowsTyped
  <2> HIDE DEF f, found
  <2> QED
    BY <2>1, <2>2, FS_Surjection
<1>2. \A x \in found : x.comparisons \in Nat /\ x.target \in Int /\ x = Summary(x.target)
  <2> TAKE x \in found
  <2>1. PICK r \in comparisons : x = Summary(r.target)
    BY DEF Summaries
  <2>2. Against(r.target) \in SUBSET comparisons /\ IsFiniteSet(comparisons) /\ r.target \in Int
    BY DEF Against, RowsTyped, ComparisonRow
  <2>3. Cardinality(Against(r.target)) \in Nat
    BY <2>2, FS_Subset, FS_CardinalityType
  <2>4. x.target = r.target /\ x.comparisons = Cardinality(Against(r.target))
    BY <2>1 DEF Summary
  <2> QED
    BY <2>1, <2>2, <2>3, <2>4
<1> HIDE DEF found
<1>3. Orders(R, found)
  <2>1. \A x, y \in found : <<x, y>> \in R <=> Ahead(x, y)
    OBVIOUS
  <2>2. \A x \in found : ~Ahead(x, x)
    BY <1>2 DEF Ahead
  <2>3. \A x, y, z \in found : Ahead(x, y) /\ Ahead(y, z) => Ahead(x, z)
    BY <1>2 DEF Ahead
  <2>4. \A x, y \in found : x # y => Ahead(x, y) \/ Ahead(y, x)
    <3> SUFFICES ASSUME NEW x \in found, NEW y \in found, x # y PROVE Ahead(x, y) \/ Ahead(y, x)
      OBVIOUS
    <3>1. x.target # y.target
      BY <1>2
    <3>2. x.comparisons \in Nat /\ y.comparisons \in Nat /\ x.target \in Int /\ y.target \in Int
      BY <1>2
    <3> QED
      BY <3>1, <3>2 DEF Ahead
  <2> HIDE DEF R
  <2> QED
    BY <2>1, <2>2, <2>3, <2>4 DEF Orders
<1>4. \E seq \in [1 .. n -> found] : Lists(seq, found, R)
  <2> HIDE DEF R
  <2> QED
    BY <1>1, <1>3, ListingExists
<1>5. \E seq \in [1 .. n -> found] : \A i, j \in DOMAIN seq : i < j => Ahead(seq[i], seq[j])
  BY <1>4 DEF Lists
<1>6. all \in [1 .. n -> found] /\ n \in Nat
  BY <1>1, <1>5, FS_CardinalityType DEF Sorted
<1>7. MostDiffedTargets(limit) = First(all, k)
  BY DEF MostDiffedTargets, CountIf, Sorted, Ahead, Against, Summary, Summaries, found
<1>8. k \in Int
  BY LimitIsWhole
<1> HIDE DEF all, k, n
<1>9. First(all, k) \in Seq(found)
  <2>1. all \in Seq(found)
    BY <1>6, SeqDef
  <2> QED
    BY <1>8, <2>1, FirstOfSequence
<1>10. ToSet(First(all, k)) \subseteq found
  BY <1>9 DEF ToSet
<1> QED
  BY <1>7, <1>10 DEF found

(* What is added up of comparisons is what is listed of them.              *)
LEMMA DiffsAreListed ==
  ASSUME RowsTyped, DistinctIds
  PROVE  DiffsAddUp
<1>1. ASSUME NEW q \in CaptureQuery, NEW d \in DiffQuery, NEW t \in ToSet(MostDiffedTargets(q.limit)),
             d = [ok |-> TRUE, source |-> Null, target |-> t.target, claim |-> Null, limit |-> Null]
      PROVE  LET listed == ToOutcomes(ListComparisons(d))
             IN t.comparisons = listed.comparisons /\ t.changed = listed.changed
  <2>1. q.limit \in WholeOrNull
    BY CaptureQueryTyped
  <2>2. PICK r \in comparisons : t = Summary(r.target)
    BY <2>1, TargetsAreSummaries DEF Summaries
  <2>3. r.target \in Int /\ Null \notin Int
    BY ReadersAssumption DEF RowsTyped, ComparisonRow
  <2>4. /\ t.target = r.target /\ t.comparisons = Cardinality(Against(r.target))
        /\ t.changed = Cardinality({s \in Against(r.target) : s.changed})
    BY <2>2 DEF Summary
  <2>5. d.source = Null /\ d.target = r.target /\ d.claim = Null /\ d.limit = Null
    BY <1>1, <2>4
  <2>6. ListComparisons(d) = Newest({s \in comparisons : /\ IsOrAny(d.source, s.source)
                                                         /\ IsOrAny(d.target, s.target)
                                                         /\ IsOrAny(d.claim, s.claim)})
    BY <2>5 DEF ListComparisons
  <2>7. {s \in comparisons : /\ IsOrAny(d.source, s.source)
                             /\ IsOrAny(d.target, s.target)
                             /\ IsOrAny(d.claim, s.claim)} = Against(r.target)
    BY <2>3, <2>5 DEF IsOrAny, Against
  <2>8. Against(r.target) \in SUBSET comparisons
    BY DEF Against
  <2>9. /\ ToOutcomes(Newest(Against(r.target))).comparisons = Cardinality(Against(r.target))
        /\ ToOutcomes(Newest(Against(r.target))).changed = Cardinality({s \in Against(r.target) : s.changed})
    BY <2>8, ListedCounts
  <2> QED
    BY <2>4, <2>6, <2>7, <2>9
<1> QED
  BY <1>1, ActivityIsListed DEF DiffsAddUp

-----------------------------------------------------------------------------
(* What the captures of a window cost.                                     *)

Fields == {"captures", "downscaled", "warned"}

\* The rows that a field counts.
Counted(field, S) ==
  IF field = "captures" THEN S
  ELSE IF field = "downscaled" THEN {x \in S : x.picture.downscaled}
  ELSE {x \in S : x.picture.warned}

HowManyOf(field, S) == Cardinality(Counted(field, S))

(* Counting by a field goes over parts and unions.                         *)
LEMMA CountedParts ==
  ASSUME NEW field, NEW S, NEW T
  PROVE  /\ Counted(field, S) \subseteq S
         /\ S \subseteq T => Counted(field, S) \subseteq Counted(field, T)
         /\ Counted(field, S \cup T) = Counted(field, S) \cup Counted(field, T)
BY DEF Counted

(* More rows count for no less.                                            *)
LEMMA CountGrows ==
  ASSUME NEW field, NEW T, IsFiniteSet(T), NEW S \in SUBSET T
  PROVE  /\ HowManyOf(field, S) \in Nat /\ HowManyOf(field, T) \in Nat
         /\ HowManyOf(field, S) <= HowManyOf(field, T)
<1>1. Counted(field, T) \in SUBSET T /\ Counted(field, S) \in SUBSET Counted(field, T)
  BY CountedParts
<1>2. IsFiniteSet(Counted(field, T))
  BY <1>1, FS_Subset
<1>3. IsFiniteSet(Counted(field, S)) /\ Cardinality(Counted(field, S)) <= Cardinality(Counted(field, T))
  BY <1>1, <1>2, FS_Subset
<1> QED
  BY <1>2, <1>3, FS_CardinalityType DEF HowManyOf

(* Each row of C falls in the group of D that G names, and of each group   *)
(* the pairs have a number for every row.                                  *)
PairedOff(Pairs, C, G, D) ==
  /\ \A x \in C : G[x] \in D
  /\ \A p : p \in Pairs <=> \E g \in D : p \in {g} \X (1 .. Cardinality({x \in C : G[x] = g}))

(* Rows that are numbered group by group are as many as the numbers.       *)
LEMMA CountedByGroups ==
  ASSUME NEW C, IsFiniteSet(C), NEW G, NEW D, NEW Pairs, PairedOff(Pairs, C, G, D)
  PROVE  Cardinality(Pairs) = Cardinality(C)
<1> DEFINE Of(g) == {x \in C : G[x] = g}
           n(g) == Cardinality(Of(g))
           number == [g \in D |-> CHOOSE e : e \in Bijection(1 .. n(g), Of(g))]
           place == [x \in C |-> <<G[x], CHOOSE i \in 1 .. n(G[x]) : number[G[x]][i] = x>>]
<1>0. /\ \A p : p \in Pairs <=> \E g \in D : p \in {g} \X (1 .. n(g))
      /\ \A x \in C : G[x] \in D
  BY DEF PairedOff
<1>1. ASSUME NEW g \in D PROVE number[g] \in Bijection(1 .. n(g), Of(g))
  <2>1. Of(g) \in SUBSET C
    OBVIOUS
  <2> HIDE DEF Of
  <2>2. IsFiniteSet(Of(g))
    BY <2>1, FS_Subset
  <2>3. ExistsBijection(1 .. n(g), Of(g))
    BY <2>2, FS_CardinalityType
  <2>4. \E e : e \in Bijection(1 .. n(g), Of(g))
    BY <2>3 DEF ExistsBijection
  <2> HIDE DEF n
  <2> QED
    BY <2>4
<1> HIDE DEF number, n
<1>2. ASSUME NEW g \in D, NEW x \in Of(g) PROVE \E i \in 1 .. n(g) : number[g][i] = x
  BY <1>1, <1>2 DEF Bijection, Surjection
<1>3. ASSUME NEW g \in D
      PROVE  /\ \A i \in 1 .. n(g) : number[g][i] \in Of(g)
             /\ \A i, j \in 1 .. n(g) : i # j => number[g][i] # number[g][j]
  BY <1>1 DEF Bijection, Injection, IsInjective
<1>4. ASSUME NEW x \in C
      PROVE  place[x][1] = G[x] /\ place[x][2] \in 1 .. n(G[x]) /\ number[G[x]][place[x][2]] = x
  <2>1. \E i \in 1 .. n(G[x]) : number[G[x]][i] = x
    BY <1>0, <1>2
  <2> QED
    BY <2>1
<1>5. \A x \in C : place[x] = <<place[x][1], place[x][2]>>
  OBVIOUS
<1> HIDE DEF place
<1>6. place \in [C -> Pairs]
  <2>1. DOMAIN place = C /\ place = [x \in C |-> place[x]]
    BY DEF place
  <2>2. ASSUME NEW x \in C PROVE place[x] \in Pairs
    <3>1. G[x] \in D /\ place[x][1] = G[x] /\ place[x][2] \in 1 .. n(G[x])
      BY <1>0, <1>4
    <3>2. place[x] = <<G[x], place[x][2]>>
      BY <1>5, <3>1
    <3>3. place[x] \in {G[x]} \X (1 .. n(G[x]))
      BY <3>1, <3>2
    <3> QED
      BY <1>0, <3>1, <3>3
  <2> QED
    BY <2>1, <2>2
<1>7. \A x, y \in C : x # y => place[x] # place[y]
  BY <1>4
<1>8. ASSUME NEW p \in Pairs PROVE \E x \in C : place[x] = p
  <2>1. PICK g \in D : p \in {g} \X (1 .. n(g))
    BY <1>0
  <2>2. p = <<g, p[2]>> /\ p[2] \in 1 .. n(g)
    BY <2>1
  <2> DEFINE x == number[g][p[2]]
  <2>3. x \in C /\ G[x] = g
    BY <1>3, <2>2
  <2> HIDE DEF x
  <2>4. place[x][1] = g /\ place[x][2] \in 1 .. n(g) /\ number[g][place[x][2]] = x
    BY <1>4, <2>3
  <2>5. place[x][2] = p[2]
    BY <1>3, <2>2, <2>4 DEF x
  <2>6. place[x] = <<g, p[2]>>
    BY <1>5, <2>3, <2>4, <2>5
  <2> QED
    BY <2>2, <2>3, <2>6
<1> QED
  BY <1>6, <1>7, <1>8, OneToOne

(* However rows are grouped, the groups have of a field together what the  *)
(* rows have.                                                              *)
LEMMA GroupsAddUp ==
  ASSUME NEW S, IsFiniteSet(S), NEW G, NEW field \in Fields
  PROVE  Total(field, [g \in {G[x] : x \in S} |-> ToCost({x \in S : G[x] = g})]) = HowManyOf(field, S)
<1> DEFINE D == {G[x] : x \in S}
           groups == [g \in D |-> ToCost({x \in S : G[x] = g})]
           C == Counted(field, S)
<1>1. C \subseteq S /\ IsFiniteSet(C)
  <2>1. C \in SUBSET S
    BY CountedParts
  <2> HIDE DEF C
  <2> QED
    BY <2>1, FS_Subset
<1>2. ASSUME NEW g \in D PROVE groups[g][field] = Cardinality({x \in C : G[x] = g})
  <2> DEFINE Of == {x \in S : G[x] = g}
  <2>1. groups[g] = ToCost(Of)
    OBVIOUS
  <2> HIDE DEF Of, groups
  <2>2. /\ ToCost(Of).captures = Cardinality(Of)
        /\ ToCost(Of).downscaled = Cardinality({x \in Of : x.picture.downscaled})
        /\ ToCost(Of).warned = Cardinality({x \in Of : x.picture.warned})
    BY DEF ToCost, CountIf
  <2>3. ToCost(Of)[field] = Cardinality(Counted(field, Of))
    <3>1. CASE field = "captures"
      BY <2>2, <3>1 DEF Counted
    <3>2. CASE field = "downscaled"
      BY <2>2, <3>2 DEF Counted
    <3>3. CASE field = "warned"
      BY <2>2, <3>3 DEF Counted
    <3> QED
      BY <3>1, <3>2, <3>3 DEF Fields
  <2>4. Counted(field, Of) = {x \in C : G[x] = g}
    BY DEF Counted, Of
  <2> QED
    BY <2>1, <2>3, <2>4
<1>3. \A x \in C : G[x] \in D
  BY <1>1
<1>4. Total(field, groups) = Cardinality(UNION {{g} \X (1 .. groups[g][field]) : g \in D})
  BY DEF Total
<1> HIDE DEF groups, C
<1> DEFINE Pairs == UNION {{g} \X (1 .. groups[g][field]) : g \in D}
<1>5. \A p : p \in Pairs <=> \E g \in D : p \in {g} \X (1 .. Cardinality({x \in C : G[x] = g}))
  <2>1. \A p : p \in Pairs <=> \E g \in D : p \in {g} \X (1 .. groups[g][field])
    OBVIOUS
  <2> HIDE DEF Pairs, D
  <2>2. \A g \in D : {g} \X (1 .. groups[g][field]) = {g} \X (1 .. Cardinality({x \in C : G[x] = g}))
    BY <1>2
  <2> QED
    BY <2>1, <2>2
<1> HIDE DEF D, Pairs
<1>6. PairedOff(Pairs, C, G, D)
  BY <1>3, <1>5 DEF PairedOff
<1>7. Cardinality(Pairs) = Cardinality(C)
  BY <1>1, <1>6, CountedByGroups
<1> QED
  BY <1>4, <1>7 DEF HowManyOf, groups, C, D, Pairs

\* By nothing, by tier and by kind.
GroupOf(k, shot) ==
  IF k = 1 THEN "" ELSE IF k = 2 THEN shot.picture.tier ELSE shot.picture.kind

(* Rows in one group have of a field what the rows have.                   *)
LEMMA TotalOfWhole ==
  ASSUME NEW S, IsFiniteSet(S), NEW field \in Fields
  PROVE  Total(field, ToGroups(S, LAMBDA shot : "")) = HowManyOf(field, S)
<1> DEFINE G == [x \in S |-> ""]
<1>1. ToGroups(S, LAMBDA shot : "") = [g \in {G[x] : x \in S} |-> ToCost({x \in S : G[x] = g})]
  <2>1. {G[x] : x \in S} = {"" : x \in S}
    OBVIOUS
  <2>2. \A g : {x \in S : G[x] = g} = {x \in S : "" = g}
    OBVIOUS
  <2> HIDE DEF G
  <2> QED
    BY <2>1, <2>2 DEF ToGroups
<1>2. Total(field, [g \in {G[x] : x \in S} |-> ToCost({x \in S : G[x] = g})]) = HowManyOf(field, S)
  <2> HIDE DEF G
  <2> QED
    BY GroupsAddUp
<1> QED
  BY <1>1, <1>2

\* The rows of a window.
Within(w, S) == {shot \in S : InWindow(w, shot)}

(* So has each SELECT of a rollup, whether by nothing, by tier or by kind. *)
LEMMA TotalOfPart ==
  ASSUME IsFiniteSet(shots), NEW w, NEW k \in 1 .. 3, NEW field \in Fields
  PROVE  Total(field, RollupPart(k, w)) = HowManyOf(field, Within(w, shots))
<1> DEFINE S == Within(w, shots)
           G == [x \in S |-> GroupOf(k, x)]
           groups == [g \in {G[x] : x \in S} |-> ToCost({x \in S : G[x] = g})]
<1>1. IsFiniteSet(S)
  <2>1. S \in SUBSET shots
    BY DEF Within
  <2> QED
    BY <2>1, FS_Subset
<1>2. {G[x] : x \in S} = {GroupOf(k, x) : x \in S}
  OBVIOUS
<1>3. \A g : {x \in S : G[x] = g} = {x \in S : GroupOf(k, x) = g}
  OBVIOUS
<1> HIDE DEF S, G
<1>4. groups = [g \in {GroupOf(k, x) : x \in S} |-> ToCost({x \in S : GroupOf(k, x) = g})]
  BY <1>2, <1>3
<1>5. RollupPart(k, w) = groups
  <2>1. CASE k = 1
    <3>1. RollupPart(k, w) = [g \in {"" : shot \in S} |-> ToCost({shot \in S : "" = g})]
      BY <2>1 DEF RollupPart, ToGroups, S, Within
    <3>2. \A x : GroupOf(k, x) = ""
      BY <2>1 DEF GroupOf
    <3>3. {GroupOf(k, x) : x \in S} = {"" : x \in S}
      <4> DEFINE e(x) == GroupOf(k, x)
      <4>1. \A x : e(x) = ""
        BY <3>2
      <4> HIDE DEF e
      <4>2. {e(x) : x \in S} = {"" : x \in S}
        BY <4>1
      <4> QED
        BY <4>2 DEF e
    <3>4. \A g : {x \in S : GroupOf(k, x) = g} = {x \in S : "" = g}
      BY <3>2
    <3> QED
      BY <1>4, <3>1, <3>3, <3>4
  <2>2. CASE k = 2
    <3>1. RollupPart(k, w) = [g \in {shot.picture.tier : shot \in S} |-> ToCost({shot \in S : shot.picture.tier = g})]
      BY <2>2 DEF RollupPart, ToGroups, S, Within
    <3>2. \A x : GroupOf(k, x) = x.picture.tier
      BY <2>2 DEF GroupOf
    <3>3. {GroupOf(k, x) : x \in S} = {x.picture.tier : x \in S}
      BY <3>2
    <3>4. \A g : {x \in S : GroupOf(k, x) = g} = {x \in S : x.picture.tier = g}
      BY <3>2
    <3> QED
      BY <1>4, <3>1, <3>3, <3>4
  <2>3. CASE k = 3
    <3>1. RollupPart(k, w) = [g \in {shot.picture.kind : shot \in S} |-> ToCost({shot \in S : shot.picture.kind = g})]
      BY <2>3 DEF RollupPart, ToGroups, S, Within
    <3>2. \A x : GroupOf(k, x) = x.picture.kind
      BY <2>3 DEF GroupOf
    <3>3. {GroupOf(k, x) : x \in S} = {x.picture.kind : x \in S}
      BY <3>2
    <3>4. \A g : {x \in S : GroupOf(k, x) = g} = {x \in S : x.picture.kind = g}
      BY <3>2
    <3> QED
      BY <1>4, <3>1, <3>3, <3>4
  <2> QED
    BY <2>1, <2>2, <2>3
<1>6. Total(field, groups) = HowManyOf(field, S)
  BY <1>1, GroupsAddUp
<1> QED
  BY <1>5, <1>6 DEF S

(* What was selected lies between the rows there were when the reader      *)
(* began and those there are, and no SELECT of a window finds less than    *)
(* the one before it.                                                      *)
WellSummed(parts, window, known, S) ==
  \A field \in Fields, n \in {1, 2, 3, 5, 6, 7} \cap DOMAIN parts :
    /\ Total(field, parts[n]) \in Nat
    /\ HowManyOf(field, Within(WindowAt(window, n), known)) <= Total(field, parts[n])
    /\ Total(field, parts[n]) <= HowManyOf(field, Within(WindowAt(window, n), S))
    /\ n \notin {1, 5} => Total(field, parts[n - 1]) <= Total(field, parts[n])

ReaderSums ==
  reader.job = "captures" => WellSummed(reader.parts, reader.window, reader.known, shots)

(* Of more rows a window finds no less.                                    *)
LEMMA FoundGrows ==
  ASSUME NEW field, NEW T, IsFiniteSet(T), NEW S \in SUBSET T, NEW w
  PROVE  /\ HowManyOf(field, Within(w, S)) \in Nat /\ HowManyOf(field, Within(w, T)) \in Nat
         /\ HowManyOf(field, Within(w, S)) <= HowManyOf(field, Within(w, T))
<1>1. Within(w, S) \in SUBSET Within(w, T) /\ Within(w, T) \in SUBSET T
  BY DEF Within
<1>2. IsFiniteSet(Within(w, T))
  BY <1>1, FS_Subset
<1> QED
  BY <1>1, <1>2, CountGrows

(* A row that is written while somebody adds up only widens the room for   *)
(* what comes.                                                             *)
LEMMA SumsUnderReader ==
  ASSUME NEW parts, NEW window, NEW known, NEW T, IsFiniteSet(T), NEW S \in SUBSET T,
         WellSummed(parts, window, known, S)
  PROVE  WellSummed(parts, window, known, T)
<1> SUFFICES ASSUME NEW field \in Fields, NEW n \in {1, 2, 3, 5, 6, 7} \cap DOMAIN parts
             PROVE  /\ Total(field, parts[n]) \in Nat
                    /\ HowManyOf(field, Within(WindowAt(window, n), known)) <= Total(field, parts[n])
                    /\ Total(field, parts[n]) <= HowManyOf(field, Within(WindowAt(window, n), T))
                    /\ n \notin {1, 5} => Total(field, parts[n - 1]) <= Total(field, parts[n])
  BY DEF WellSummed
<1> DEFINE w == WindowAt(window, n)
           sum == Total(field, parts[n])
<1>1. /\ sum \in Nat
      /\ HowManyOf(field, Within(w, known)) <= sum
      /\ sum <= HowManyOf(field, Within(w, S))
      /\ n \notin {1, 5} => Total(field, parts[n - 1]) <= sum
  BY DEF WellSummed
<1> HIDE DEF w, sum
<1>2. /\ HowManyOf(field, Within(w, S)) \in Nat /\ HowManyOf(field, Within(w, T)) \in Nat
      /\ HowManyOf(field, Within(w, S)) <= HowManyOf(field, Within(w, T))
  BY FoundGrows
<1>3. sum <= HowManyOf(field, Within(w, T))
  BY <1>1, <1>2
<1> QED
  BY <1>1, <1>3 DEF w, sum

(* Each SELECT finds what there is when it is made.                        *)
LEMMA PartSelected ==
  ASSUME IsFiniteSet(shots), NEW S, NEW parts \in Seq(S), Len(parts) < 8, NEW window,
         NEW known \in SUBSET shots, WellSummed(parts, window, known, shots), NEW part,
         part = IF Len(parts) < 4 THEN RollupPart(Len(parts) + 1, window)
                ELSE RollupPart(Len(parts) - 3, Since(window))
  PROVE  WellSummed(Append(parts, part), window, known, shots)
<1> DEFINE more == Append(parts, part)
           last == Len(parts) + 1
<1>1. /\ Len(parts) \in Nat /\ DOMAIN more = DOMAIN parts \cup {last}
      /\ \A i \in DOMAIN parts : more[i] = parts[i]
      /\ more[last] = part /\ DOMAIN parts = 1 .. Len(parts)
  <2>1. parts \in Seq(S \cup {part}) /\ part \in S \cup {part}
    BY SeqMonotonic
  <2> QED
    BY <2>1, RowBehind
<1> HIDE DEF more
<1>2. SUFFICES ASSUME NEW field \in Fields, NEW n \in {1, 2, 3, 5, 6, 7} \cap DOMAIN more
               PROVE  /\ Total(field, more[n]) \in Nat
                      /\ HowManyOf(field, Within(WindowAt(window, n), known)) <= Total(field, more[n])
                      /\ Total(field, more[n]) <= HowManyOf(field, Within(WindowAt(window, n), shots))
                      /\ n \notin {1, 5} => Total(field, more[n - 1]) <= Total(field, more[n])
  BY DEF WellSummed, more
<1>3. CASE n \in DOMAIN parts
  <2>1. more[n] = parts[n] /\ (n # 1 => more[n - 1] = parts[n - 1])
    BY <1>1, <1>3
  <2>2. /\ Total(field, parts[n]) \in Nat
        /\ HowManyOf(field, Within(WindowAt(window, n), known)) <= Total(field, parts[n])
        /\ Total(field, parts[n]) <= HowManyOf(field, Within(WindowAt(window, n), shots))
        /\ n \notin {1, 5} => Total(field, parts[n - 1]) <= Total(field, parts[n])
    BY <1>3 DEF WellSummed
  <2> QED
    BY <2>1, <2>2
<1>4. CASE n \notin DOMAIN parts
  <2> DEFINE w == WindowAt(window, n)
             k == IF n < 5 THEN n ELSE n - 4
  <2>1. n = last /\ k \in 1 .. 3 /\ more[n] = part
    BY <1>1, <1>4
  <2>2. part = RollupPart(k, w)
    <3>1. CASE n < 5
      BY <1>1, <2>1, <3>1 DEF WindowAt
    <3>2. CASE ~(n < 5)
      <4>1. k = Len(parts) - 3 /\ w = Since(window) /\ ~(Len(parts) < 4)
        BY <1>1, <2>1, <3>2 DEF WindowAt
      <4> HIDE DEF k, w
      <4> QED
        BY <4>1
    <3> QED
      BY <3>1, <3>2
  <2> HIDE DEF k
  <2>3. Total(field, part) = HowManyOf(field, Within(w, shots))
    <3> HIDE DEF w
    <3> QED
      BY <2>1, <2>2, TotalOfPart
  <2>4. /\ HowManyOf(field, Within(w, shots)) \in Nat
        /\ HowManyOf(field, Within(w, known)) <= HowManyOf(field, Within(w, shots))
    <3> HIDE DEF w
    <3> QED
      BY FoundGrows
  <2>5. n \notin {1, 5} => Total(field, more[n - 1]) <= HowManyOf(field, Within(w, shots))
    <3> SUFFICES ASSUME n \notin {1, 5} PROVE Total(field, more[n - 1]) <= HowManyOf(field, Within(w, shots))
      OBVIOUS
    <3>1. n - 1 \in {1, 2, 3, 5, 6, 7} \cap DOMAIN parts
      <4>1. n \in {2, 3, 6, 7}
        OBVIOUS
      <4>2. n - 1 \in {1, 2, 5, 6}
        BY <4>1
      <4>3. n - 1 \in 1 .. Len(parts)
        BY <1>1, <2>1, <4>1
      <4> QED
        BY <1>1, <4>2, <4>3
    <3>2. more[n - 1] = parts[n - 1] /\ WindowAt(window, n - 1) = w
      BY <1>1, <3>1 DEF WindowAt
    <3>3. Total(field, parts[n - 1]) <= HowManyOf(field, Within(WindowAt(window, n - 1), shots))
      BY <3>1 DEF WellSummed
    <3> QED
      BY <3>2, <3>3
  <2> HIDE DEF w
  <2>6. Total(field, more[n]) = HowManyOf(field, Within(w, shots))
    BY <2>1, <2>3
  <2>7. /\ Total(field, more[n]) \in Nat
        /\ HowManyOf(field, Within(w, known)) <= Total(field, more[n])
        /\ Total(field, more[n]) <= HowManyOf(field, Within(w, shots))
        /\ n \notin {1, 5} => Total(field, more[n - 1]) <= Total(field, more[n])
    BY <2>4, <2>5, <2>6
  <2> QED
    BY <2>7 DEF w
<1> QED
  BY <1>3, <1>4

(* What may become of one who adds up: others write, it goes away, it      *)
(* begins or it makes its next SELECT.                                     *)
LEMMA ReaderMoves ==
  ASSUME ReaderTyped, [ReadersNext]_readersVars
  PROVE  \/ reader' = reader /\ shots \subseteq shots'
         \/ reader'.job # "captures"
         \/ reader'.parts = << >>
         \/ SelectPart
<1>1. CASE Leave
  BY <1>1 DEF Leave, Away
<1>2. CASE \E line \in EventLines : OpenLedger(line)
  BY <1>2 DEF OpenLedger
<1>3. CASE ReadOn \/ ReadBack
  <2>1. DOMAIN reader = {"job", "line", "seen", "cursor"} /\ reader.job = "ledger"
    <3>1. reader.job = "ledger"
      BY <1>3 DEF ReadOn, ReadBack
    <3> QED
      BY <3>1 DEF ReaderTyped, Away
  <2>2. reader'.job = "ledger"
    <3>1. CASE ReadOn
      <4>1. \E a, b : reader' = [reader EXCEPT !.seen = a, !.cursor = b]
        BY <3>1 DEF ReadOn
      <4> QED
        BY <2>1, <4>1
    <3>2. CASE ReadBack
      <4>1. \E a : reader' = [reader EXCEPT !.seen = a]
        BY <3>2 DEF ReadBack
      <4> QED
        BY <2>1, <4>1
    <3> QED
      BY <1>3, <3>1, <3>2
  <2> QED
    BY <2>2
<1>4. CASE \E q \in CaptureQuery : OpenCaptures(q)
  BY <1>4 DEF OpenCaptures
<1>5. CASE \E p \in Caller, id \in Ids : RecordShot(p, id)
  BY <1>5 DEF RecordShot
<1>6. CASE LedgerStep
  BY <1>1, <1>2, <1>3, <1>6 DEF LedgerStep, Call, RefuseCall, RefuseArguments, WriteRefusal,
       LoseRefusal, Answer, LeavesRow, Submit, tables
<1>7. CASE CaptureStep
  BY <1>1, <1>4, <1>5, <1>7 DEF CaptureStep, TakePicture, LoseShot, Compare, Tick, tables
<1>8. CASE UNCHANGED readersVars
  BY <1>8 DEF readersVars
<1> QED
  BY <1>6, <1>7, <1>8 DEF ReadersNext

(* The SELECT that is made next.                                           *)
PartOf(parts, window) ==
  IF Len(parts) < 4 THEN RollupPart(Len(parts) + 1, window)
  ELSE RollupPart(Len(parts) - 3, Since(window))

LEMMA NextPart ==
  ASSUME ReaderTyped, SelectPart
  PROVE  /\ reader.job = "captures" /\ reader.known \in SUBSET shots
         /\ Len(reader.parts) < 8 /\ \E S : reader.parts \in Seq(S)
         /\ reader'.parts = Append(reader.parts, PartOf(reader.parts, reader.window))
         /\ reader'.window = reader.window /\ reader'.known = reader.known /\ shots' = shots
<1>1. /\ DOMAIN reader = {"job", "window", "parts", "known"} /\ reader.job = "captures"
      /\ reader.known \in SUBSET shots /\ \E S : reader.parts \in Seq(S)
  BY DEF SelectPart, ReaderTyped, Away
<1> DEFINE part == PartOf(reader.parts, reader.window)
<1>2. Len(reader.parts) < 8 /\ reader' = [reader EXCEPT !.parts = Append(reader.parts, part)] /\ shots' = shots
  BY DEF SelectPart, Untouched, tables, PartOf
<1> HIDE DEF part
<1>3. reader'.parts = Append(reader.parts, part)
      /\ reader'.window = reader.window /\ reader'.known = reader.known
  BY <1>1, <1>2
<1> QED
  BY <1>1, <1>2, <1>3 DEF part

(* No step of anybody takes from what was added up.                        *)
LEMMA ReaderSumsStep ==
  ASSUME RowsTyped, RowsTyped', ReaderTyped, ReaderSums, [ReadersNext]_readersVars
  PROVE  ReaderSums'
<1>1. IsFiniteSet(shots) /\ IsFiniteSet(shots')
  BY DEF RowsTyped
<1>2. CASE reader' = reader /\ shots \subseteq shots'
  <2> SUFFICES ASSUME reader.job = "captures"
               PROVE  WellSummed(reader.parts, reader.window, reader.known, shots')
    BY <1>2 DEF ReaderSums, WellSummed
  <2>1. WellSummed(reader.parts, reader.window, reader.known, shots)
    BY DEF ReaderSums
  <2>2. shots \in SUBSET shots'
    BY <1>2
  <2> QED
    BY <1>1, <2>1, <2>2, SumsUnderReader
<1>3. CASE reader'.job # "captures"
  BY <1>3 DEF ReaderSums
<1>4. CASE reader'.parts = << >>
  <2>1. DOMAIN reader'.parts = {}
    BY <1>4
  <2> QED
    BY <2>1 DEF ReaderSums, WellSummed
<1>5. CASE SelectPart
  <2> DEFINE parts == reader.parts
             window == reader.window
             known == reader.known
  <2>1. /\ known \in SUBSET shots /\ Len(parts) < 8 /\ \E S : parts \in Seq(S)
        /\ reader.job = "captures"
        /\ reader'.parts = Append(parts, PartOf(parts, window))
        /\ reader'.window = window /\ reader'.known = known /\ shots' = shots
    BY <1>5, NextPart
  <2>2. WellSummed(parts, window, known, shots)
    BY <2>1 DEF ReaderSums
  <2> HIDE DEF parts, window, known
  <2>3. WellSummed(Append(parts, PartOf(parts, window)), window, known, shots)
    BY <1>1, <2>1, <2>2, PartSelected DEF PartOf
  <2> QED
    BY <2>1, <2>3 DEF ReaderSums, WellSummed
<1> QED
  BY <1>2, <1>3, <1>4, <1>5, ReaderMoves

-----------------------------------------------------------------------------
(* The reasons.                                                            *)

DistinctShots == \A x, y \in shots : x.id = y.id => x = y

(* A capture draws an identifier that no other has.                        *)
LEMMA DistinctShotsStep == DistinctShots /\ [ReadersNext]_readersVars => DistinctShots'
<1> SUFFICES ASSUME DistinctShots, [ReadersNext]_readersVars PROVE DistinctShots'
  OBVIOUS
<1>1. CASE shots' = shots
  BY <1>1 DEF DistinctShots
<1>2. ASSUME NEW p \in Caller, NEW id \in Ids, RecordShot(p, id) PROVE DistinctShots'
  <2> DEFINE row == [id |-> id, takenAt |-> caller[p].takenAt, claim |-> caller[p].claim,
                     picture |-> caller[p].picture]
  <2>1. row.id = id /\ shots' = shots \cup {row} /\ \A x \in shots : x.id # id
    BY <1>2 DEF RecordShot
  <2> HIDE DEF row
  <2> QED
    BY <2>1 DEF DistinctShots
<1>3. CASE LedgerStep
  BY <1>1, <1>3 DEF LedgerStep, Call, RefuseCall, RefuseArguments, WriteRefusal, LoseRefusal, Answer,
       LeavesRow, Submit, OpenLedger, ReadOn, ReadBack, Leave, Untouched, tables
<1>4. CASE CaptureStep
  <2>1. CASE \E p \in Caller, id \in Ids : RecordShot(p, id)
    BY <1>2, <2>1
  <2>2. CASE ~\E p \in Caller, id \in Ids : RecordShot(p, id)
    BY <1>1, <1>4, <2>2 DEF CaptureStep, TakePicture, LoseShot, Compare, OpenCaptures, SelectPart,
         Leave, Tick, Untouched, tables
  <2> QED
    BY <2>1, <2>2
<1> QED
  BY <1>1, <1>3, <1>4 DEF ReadersNext, readersVars

(* What is listed are the newest of the reasons in a window, and of those  *)
(* there were when the reader began only older ones are left out.          *)
ListsReasons(listed, w, known, S) ==
  /\ Len(listed) <= MaximumReasons
  /\ ToSet(listed) \subseteq ReasonsIn(w, S)
  /\ \A i, j \in DOMAIN listed : i < j => Later(listed[i], listed[j])
  /\ \A x \in ReasonsIn(w, known) \ ToSet(listed) :
       Len(listed) = MaximumReasons /\ \A i \in DOMAIN listed : Later(listed[i], x)

(* The reasons of a window are finitely many, and no two of them have one  *)
(* identifier.                                                             *)
LEMMA ReasonsAreRows ==
  ASSUME NEW S \in SUBSET ShotRow, IsFiniteSet(S), \A x, y \in S : x.id = y.id => x = y, NEW w
  PROVE  LET R == ReasonsIn(w, S) IN
         /\ IsFiniteSet(R)
         /\ \A r \in R : r.at \in Int /\ r.id \in Int
         /\ \A r, t \in R : r.id = t.id => r = t
<1> DEFINE T == {y \in S : InWindow(w, y) /\ y.picture.reason}
           f == [x \in T |-> [id |-> x.id, at |-> x.takenAt]]
           R == ReasonsIn(w, S)
<1>1. T \in SUBSET S
  OBVIOUS
<1>2. R = {f[x] : x \in T}
  BY DEF ReasonsIn
<1>3. \A x \in T : f[x].id = x.id /\ f[x].at = x.takenAt
  OBVIOUS
<1>4. DOMAIN f = T /\ f = [x \in T |-> f[x]]
  OBVIOUS
<1> HIDE DEF T, f, R
<1>5. IsFiniteSet(T)
  BY <1>1, FS_Subset
<1>6. f \in Surjection(T, R)
  BY <1>2, <1>4 DEF Surjection
<1>7. IsFiniteSet(R)
  BY <1>5, <1>6, FS_Surjection
<1>8. \A r \in R : r.at \in Int /\ r.id \in Int
  BY <1>1, <1>2, <1>3 DEF ShotRow
<1>9. ASSUME NEW r \in R, NEW t \in R, r.id = t.id PROVE r = t
  <2>1. PICK x \in T : r = f[x]
    BY <1>2
  <2>2. PICK y \in T : t = f[y]
    BY <1>2
  <2>3. x = y
    BY <1>1, <1>3, <1>9, <2>1, <2>2
  <2> QED
    BY <2>1, <2>2, <2>3
<1> QED
  BY <1>7, <1>8, <1>9 DEF R

(* So many of the rows of a listing as are asked for, and what is left     *)
(* out of it then.                                                         *)
LEMMA ReasonsListed ==
  ASSUME NEW S \in SUBSET ShotRow, IsFiniteSet(S), \A x, y \in S : x.id = y.id => x = y,
         NEW known \in SUBSET S, NEW w
  PROVE  ListsReasons(First(Newest(ReasonsIn(w, S)), MaximumReasons), w, known, S)
<1> DEFINE R == ReasonsIn(w, S)
           all == Newest(R)
           n == Cardinality(R)
           k == MaximumReasons
           listed == First(all, k)
           m == IF k < n THEN k ELSE n
<1>1. /\ all \in [1 .. n -> R] /\ n \in Nat
      /\ \A x \in R : \E i \in 1 .. n : all[i] = x
      /\ \A i, j \in 1 .. n : i < j => Later(all[i], all[j])
  <2>1. /\ IsFiniteSet(R)
        /\ \A r \in R : r.at \in Int /\ r.id \in Int
        /\ \A r, t \in R : r.id = t.id => r = t
    BY ReasonsAreRows
  <2> HIDE DEF R
  <2> QED
    BY <2>1, NewestListing
<1>2. ReasonsIn(w, known) \subseteq R
  BY DEF ReasonsIn
<1>3. k \in Nat \ {0}
  BY ReadersAssumption
<1> HIDE DEF R, all, k
<1>4. all \in Seq(R) /\ Len(all) = n /\ DOMAIN all = 1 .. n
  BY <1>1 DEF n
<1> HIDE DEF n
<1>5. m \in Nat /\ m <= n /\ m <= k /\ (m < n => m = k)
  BY <1>1, <1>3
<1>6. listed = SubSeq(all, 1, m)
  BY <1>4 DEF First
<1> HIDE DEF m
<1>7. /\ Len(listed) = m /\ DOMAIN listed = 1 .. m /\ \A i \in 1 .. m : listed[i] = all[i]
  BY <1>1, <1>4, <1>5, <1>6
<1> HIDE DEF listed
<1>8. ToSet(listed) = {all[i] : i \in 1 .. m}
  BY <1>7 DEF ToSet
<1>9. \A i \in 1 .. m : i \in 1 .. n
  BY <1>1, <1>5
<1>10. ToSet(listed) \subseteq R
  BY <1>1, <1>8, <1>9
<1>11. \A i, j \in DOMAIN listed : i < j => Later(listed[i], listed[j])
  BY <1>1, <1>7, <1>9
<1>12. ASSUME NEW x \in ReasonsIn(w, known) \ ToSet(listed)
       PROVE  Len(listed) = k /\ \A i \in DOMAIN listed : Later(listed[i], x)
  <2>1. PICK j \in 1 .. n : all[j] = x
    BY <1>1, <1>2
  <2>2. j \notin 1 .. m
    BY <1>8, <1>12, <2>1
  <2>3. m < j /\ m < n
    BY <1>1, <1>5, <2>1, <2>2
  <2>4. \A i \in 1 .. m : i < j
    BY <1>5, <2>1, <2>3
  <2> QED
    BY <1>1, <1>5, <1>7, <1>9, <2>1, <2>3, <2>4
<1>13. Len(listed) <= k
  BY <1>5, <1>7
<1> QED
  BY <1>10, <1>11, <1>12, <1>13 DEF ListsReasons, R, listed, all, k

(* The fourth SELECT of a rollup lists them so.                            *)
LEMMA FourthPart ==
  ASSUME NEW w
  PROVE  RollupPart(4, w) = First(Newest(ReasonsIn(w, shots)), MaximumReasons)
<1> DEFINE within == {shot \in shots : InWindow(w, shot)}
           rows == {[id |-> shot.id, at |-> shot.takenAt] : shot \in {x \in within : x.picture.reason}}
<1>1. RollupPart(4, w) = First(Newest(rows), MaximumReasons)
  <2>1. RollupPart(4, w) = EscalationReasons(within)
    BY DEF RollupPart, ToGroups
  <2>2. EscalationReasons(within) = First(Newest(rows), MaximumReasons)
    BY DEF EscalationReasons
  <2> QED
    BY <2>1, <2>2
<1>2. {x \in within : x.picture.reason} = {y \in shots : InWindow(w, y) /\ y.picture.reason}
  OBVIOUS
<1>3. rows = ReasonsIn(w, shots)
  BY <1>2 DEF ReasonsIn
<1> HIDE DEF rows
<1> QED
  BY <1>1, <1>3

WellReasoned(parts, window, known, S) ==
  \A n \in {4, 8} \cap DOMAIN parts : ListsReasons(parts[n], WindowAt(window, n), known, S)

ReaderReasons ==
  reader.job = "captures" => WellReasoned(reader.parts, reader.window, reader.known, shots)

(* Each SELECT lists what there is when it is made.                        *)
LEMMA ReasonsSelected ==
  ASSUME shots \in SUBSET ShotRow, IsFiniteSet(shots), DistinctShots, NEW S, NEW parts \in Seq(S),
         Len(parts) < 8, NEW window, NEW known \in SUBSET shots,
         WellReasoned(parts, window, known, shots), NEW part, part = PartOf(parts, window)
  PROVE  WellReasoned(Append(parts, part), window, known, shots)
<1> DEFINE more == Append(parts, part)
           last == Len(parts) + 1
<1>1. /\ Len(parts) \in Nat /\ DOMAIN more = DOMAIN parts \cup {last}
      /\ \A i \in DOMAIN parts : more[i] = parts[i]
      /\ more[last] = part /\ DOMAIN parts = 1 .. Len(parts)
  <2>1. parts \in Seq(S \cup {part}) /\ part \in S \cup {part}
    BY SeqMonotonic
  <2> QED
    BY <2>1, RowBehind
<1> HIDE DEF more
<1>2. SUFFICES ASSUME NEW n \in {4, 8} \cap DOMAIN more
               PROVE  ListsReasons(more[n], WindowAt(window, n), known, shots)
  BY DEF WellReasoned, more
<1>3. CASE n \in DOMAIN parts
  BY <1>1, <1>3 DEF WellReasoned
<1>4. CASE n \notin DOMAIN parts
  <2> DEFINE w == WindowAt(window, n)
  <2>1. n = last /\ more[n] = part
    BY <1>1, <1>4
  <2>2. part = RollupPart(4, w)
    <3>1. CASE n = 4
      <4>1. Len(parts) < 4 /\ Len(parts) + 1 = 4 /\ w = window
        BY <1>1, <2>1, <3>1 DEF WindowAt
      <4> HIDE DEF w
      <4> QED
        BY <4>1 DEF PartOf
    <3>2. CASE n = 8
      <4>1. ~(Len(parts) < 4) /\ Len(parts) - 3 = 4 /\ w = Since(window)
        BY <1>1, <2>1, <3>2 DEF WindowAt
      <4> HIDE DEF w
      <4> QED
        BY <4>1 DEF PartOf
    <3> QED
      BY <3>1, <3>2
  <2> HIDE DEF w
  <2>3. part = First(Newest(ReasonsIn(w, shots)), MaximumReasons)
    BY <2>2, FourthPart
  <2> QED
    BY <2>1, <2>3, ReasonsListed DEF w, DistinctShots
<1> QED
  BY <1>3, <1>4

(* No step of anybody undoes what was listed.                              *)
LEMMA ReaderReasonsStep ==
  ASSUME RowsTyped, ReaderTyped, ReaderReasons, DistinctShots, [ReadersNext]_readersVars
  PROVE  ReaderReasons'
<1>1. CASE reader' = reader /\ shots \subseteq shots'
  <2>1. \A w : ReasonsIn(w, shots) \subseteq ReasonsIn(w, shots')
    BY <1>1 DEF ReasonsIn
  <2>2. \A listed, w, known :
          ListsReasons(listed, w, known, shots) => ListsReasons(listed, w, known, shots')
    BY <2>1 DEF ListsReasons
  <2> QED
    BY <1>1, <2>2 DEF ReaderReasons, WellReasoned
<1>2. CASE reader'.job # "captures"
  BY <1>2 DEF ReaderReasons
<1>3. CASE reader'.parts = << >>
  <2>1. DOMAIN reader'.parts = {}
    BY <1>3
  <2> QED
    BY <2>1 DEF ReaderReasons, WellReasoned
<1>4. CASE SelectPart
  <2> DEFINE parts == reader.parts
             window == reader.window
             known == reader.known
  <2>1. /\ known \in SUBSET shots /\ Len(parts) < 8 /\ \E S : parts \in Seq(S)
        /\ reader.job = "captures"
        /\ reader'.parts = Append(parts, PartOf(parts, window))
        /\ reader'.window = window /\ reader'.known = known /\ shots' = shots
    BY <1>4, NextPart
  <2>2. WellReasoned(parts, window, known, shots)
    BY <2>1 DEF ReaderReasons
  <2>3. shots \in SUBSET ShotRow /\ IsFiniteSet(shots)
    BY DEF RowsTyped
  <2> HIDE DEF parts, window, known
  <2>4. WellReasoned(Append(parts, PartOf(parts, window)), window, known, shots)
    BY <2>1, <2>2, <2>3, ReasonsSelected
  <2> QED
    BY <2>1, <2>4 DEF ReaderReasons, WellReasoned
<1> QED
  BY <1>1, <1>2, <1>3, <1>4, ReaderMoves

-----------------------------------------------------------------------------
(* The rows until an instant and those since are all of them.              *)
LEMMA FoundSplits ==
  ASSUME NEW S \in SUBSET ShotRow, IsFiniteSet(S), NEW w \in Windows, NEW field \in Fields
  PROVE  /\ HowManyOf(field, {x \in S : IsOrAny(w.claim, x.claim)}) =
              HowManyOf(field, Within(w, S)) + HowManyOf(field, Within(Since(w), S))
         /\ HowManyOf(field, Within(w, S)) \in Nat /\ HowManyOf(field, Within(Since(w), S)) \in Nat
<1> DEFINE A == Within(w, S)
           B == Within(Since(w), S)
           All == {x \in S : IsOrAny(w.claim, x.claim)}
<1>1. w.since = Null /\ w.until # Null /\ w.until \in Int /\ Null \notin Int
  BY CaptureQueryTyped, ReadersAssumption DEF Windows, WholeOrNull
<1>2. Since(w).since = w.until /\ Since(w).until = Null /\ Since(w).claim = w.claim
  <2>1. DOMAIN w = {"ok", "mode", "capture", "limit", "since", "until", "claim"}
    BY CaptureQueryTyped DEF Windows
  <2> QED
    BY <2>1 DEF Since
<1>3. \A x \in S : x.takenAt \in Int
  BY DEF ShotRow
<1>4. A = {x \in S : x.takenAt < w.until /\ IsOrAny(w.claim, x.claim)}
  BY <1>1 DEF Within, InWindow
<1>5. B = {x \in S : x.takenAt >= w.until /\ IsOrAny(w.claim, x.claim)}
  BY <1>1, <1>2 DEF Within, InWindow
<1>6. All = A \cup B /\ A \cap B = {} /\ A \in SUBSET S /\ B \in SUBSET S
  BY <1>1, <1>3, <1>4, <1>5
<1> HIDE DEF A, B, All
<1>7. /\ Counted(field, A) \in SUBSET A /\ Counted(field, B) \in SUBSET B
      /\ Counted(field, All) = Counted(field, A) \cup Counted(field, B)
  BY <1>6, CountedParts
<1> DEFINE C == Counted(field, A)
           D == Counted(field, B)
<1>8. C \cap D = {} /\ C \in SUBSET S /\ D \in SUBSET S
  BY <1>6, <1>7
<1> HIDE DEF C, D
<1>9. IsFiniteSet(C) /\ IsFiniteSet(D)
  BY <1>8, FS_Subset
<1>10. Cardinality(C \cup D) = Cardinality(C) + Cardinality(D)
  <2>1. Cardinality(C \cup D) = Cardinality(C) + Cardinality(D) - Cardinality(C \cap D)
    BY <1>9, FS_Union
  <2>2. Cardinality(C) \in Nat /\ Cardinality(D) \in Nat
    BY <1>9, FS_CardinalityType
  <2>3. Cardinality(C \cap D) = 0
    BY <1>8, FS_EmptySet
  <2> QED
    BY <2>1, <2>2, <2>3
<1>11. Cardinality(C) \in Nat /\ Cardinality(D) \in Nat
  BY <1>9, FS_CardinalityType
<1>12. /\ HowManyOf(field, All) = HowManyOf(field, A) + HowManyOf(field, B)
       /\ HowManyOf(field, A) \in Nat /\ HowManyOf(field, B) \in Nat
  BY <1>7, <1>8, <1>10, <1>11 DEF HowManyOf, C, D
<1> QED
  BY <1>12 DEF A, B, All

(* What was added up of the windows is what there is of both together.     *)
LEMMA WindowsAddUp ==
  ASSUME RowsTyped, ReaderTyped, ReaderSums
  PROVE  WindowsCountOnce
<1> SUFFICES ASSUME reader.job = "captures" PROVE WindowsCountOnce
  BY DEF WindowsCountOnce
<1> DEFINE parts == reader.parts
           window == reader.window
           known == reader.known
           sum(field, n) == Total(field, parts[n])
           Whole(field, S) == Total(field, ToGroups({x \in S : IsOrAny(window.claim, x.claim)},
                                                    LAMBDA shot : ""))
<1>1. window \in Windows /\ known \in SUBSET shots
  BY DEF ReaderTyped, Away
<1>2. PICK S : parts \in Seq(S)
  BY DEF ReaderTyped, Away
<1>3. WellSummed(parts, window, known, shots)
  BY DEF ReaderSums
<1>4. shots \in SUBSET ShotRow /\ IsFiniteSet(shots)
  BY DEF RowsTyped
<1> HIDE DEF parts, window, known
<1>5. known \in SUBSET ShotRow /\ IsFiniteSet(known)
  BY <1>1, <1>4, FS_Subset
<1>6. ASSUME NEW field \in Fields, NEW T \in SUBSET ShotRow, IsFiniteSet(T)
      PROVE  /\ Whole(field, T) = HowManyOf(field, Within(window, T)) + HowManyOf(field, Within(Since(window), T))
             /\ HowManyOf(field, Within(window, T)) \in Nat
             /\ HowManyOf(field, Within(Since(window), T)) \in Nat
  <2> DEFINE U == {x \in T : IsOrAny(window.claim, x.claim)}
  <2>1. U \in SUBSET T
    OBVIOUS
  <2>2. HowManyOf(field, U) = HowManyOf(field, Within(window, T)) + HowManyOf(field, Within(Since(window), T))
    BY <1>1, <1>6, FoundSplits
  <2>3. Whole(field, T) = Total(field, ToGroups(U, LAMBDA shot : ""))
    OBVIOUS
  <2> HIDE DEF U
  <2>4. IsFiniteSet(U)
    BY <1>6, <2>1, FS_Subset
  <2>5. Total(field, ToGroups(U, LAMBDA shot : "")) = HowManyOf(field, U)
    BY <2>4, TotalOfWhole
  <2>6. /\ HowManyOf(field, Within(window, T)) \in Nat
        /\ HowManyOf(field, Within(Since(window), T)) \in Nat
    BY <1>1, <1>6, FoundSplits
  <2> HIDE DEF Whole
  <2> QED
    BY <2>2, <2>3, <2>5, <2>6
<1> HIDE DEF Whole
<1>7. ASSUME NEW field \in Fields, 5 \in DOMAIN parts
      PROVE  /\ Whole(field, known) <= sum(field, 1) + sum(field, 5)
             /\ sum(field, 1) + sum(field, 5) <= Whole(field, shots)
  <2>1. 1 \in DOMAIN parts
    BY <1>2, <1>7
  <2>2. /\ sum(field, 1) \in Nat
        /\ HowManyOf(field, Within(window, known)) <= sum(field, 1)
        /\ sum(field, 1) <= HowManyOf(field, Within(window, shots))
    BY <1>3, <2>1 DEF WellSummed, WindowAt
  <2>3. /\ sum(field, 5) \in Nat
        /\ HowManyOf(field, Within(Since(window), known)) <= sum(field, 5)
        /\ sum(field, 5) <= HowManyOf(field, Within(Since(window), shots))
    BY <1>3, <1>7 DEF WellSummed, WindowAt
  <2> HIDE DEF sum
  <2>4. /\ Whole(field, known) = HowManyOf(field, Within(window, known)) + HowManyOf(field, Within(Since(window), known))
        /\ HowManyOf(field, Within(window, known)) \in Nat
        /\ HowManyOf(field, Within(Since(window), known)) \in Nat
    BY <1>5, <1>6
  <2>5. /\ Whole(field, shots) = HowManyOf(field, Within(window, shots)) + HowManyOf(field, Within(Since(window), shots))
        /\ HowManyOf(field, Within(window, shots)) \in Nat
        /\ HowManyOf(field, Within(Since(window), shots)) \in Nat
    BY <1>4, <1>6
  <2> QED
    BY <2>2, <2>3, <2>4, <2>5
<1>8. ASSUME NEW field \in Fields, NEW n \in {2, 3, 6, 7} \cap DOMAIN parts
      PROVE  sum(field, n - 1) <= sum(field, n)
  BY <1>3 DEF WellSummed
<1> QED
  BY <1>7, <1>8 DEF WindowsCountOnce, Whole, Fields, parts, window, known

(* Whatever is added up of the records agrees with what is listed of them, *)
(* though each is read by code of its own and beside callers that write:   *)
(* the refusals by rule with the rows that name it (service/events.ts),    *)
(* the captures of two windows, one SELECT after another, with all there   *)
(* are (telemetry.ts), and the comparisons of a capture with those listed  *)
(* for it (service/comparison-store.ts), whatever the lines ask for.       *)
THEOREM ReadingsAddUp == ReadersSpec => []ReadingsAgree
<1> DEFINE Sums == DistinctIds /\ ReaderSums /\ DistinctShots /\ ReaderReasons
<1>1. ReadersInit => Sums
  BY DistinctInit DEF ReadersInit, ReaderSums, DistinctShots, ReaderReasons, Away
<1>2. ReadersInv /\ ReadersInv' /\ Sums /\ [ReadersNext]_readersVars => Sums'
  BY DistinctStep, ReaderSumsStep, DistinctShotsStep, ReaderReasonsStep DEF ReadersInv
<1>3. ReadersInv /\ Sums => ReadingsAgree
  <2>1. ReaderReasons => ReasonsAreTheNewest
    BY DEF ReaderReasons, WellReasoned, ListsReasons, ReasonsAreTheNewest
  <2> QED
    BY <2>1, WindowsAddUp, DiffsAreListed, RefusalsAreCounted DEF ReadersInv, ReadingsAgree
<1> QED
  BY <1>1, <1>2, <1>3, ReadersInvariant, PTL DEF ReadersSpec
=============================================================================
