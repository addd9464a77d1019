----------------------------- MODULE PagesProofs -----------------------------
(***************************************************************************)
(* Theorems about the pages of a browser and the rows that describe them,  *)
(* for any number of callers' processes and of reconcile runs, each of     *)
(* which may stop anywhere.                                                *)
(*                                                                         *)
(* Everything rests on what a process may still hold when others have gone *)
(* on: rows that can never be live again, the page of such a row, or a     *)
(* page that no row names and no other process knows of.                   *)
(***************************************************************************)
EXTENDS Pages, TLAPS

\* A row that no call will ever make live again.
GivenUpRow == {"closing", "closed"}

\* Tab rows are written in the order of their numbers, and first by a grant.
Written(state, rows) ==
  /\ state \in {"absent", "queued"} => \A n \in Lease!TabNo : rows[n] = "absent"
  /\ \A n \in Lease!TabNo :
       rows[n] \in Lease!LiveTab => \A m \in Lease!TabNo : m > n => rows[m] = "absent"

RowsWritten == \A c \in Claim : Written(claimState[c], tabState[c])

\* A row names a page only once it was written, one that was opened, and that
\* no other row names.
NamesAreOwn ==
  /\ \A row \in Row : RowState(row) = "absent" => driverTabId[row] = NoPage
  /\ \A row \in Row : driverTabId[row] # NoPage => driverTabId[row] \in minted
  /\ \A row, other \in Row :
       row # other /\ driverTabId[row] # NoPage => driverTabId[row] # driverTabId[other]

\* What a worker has still to close is given up for good.
ClosesAreDue ==
  /\ \A w \in Worker : \A row \in toClose[w] : RowState(row) \in GivenUpRow
  /\ \A w \in Worker : toShut[w] # NoPage =>
       /\ toShut[w] \in minted
       /\ \A row \in Row : driverTabId[row] = toShut[w] => RowState(row) \in GivenUpRow

\* A page whose name is not written down yet is known to one worker only.
NewPagesAreOwn ==
  \A w \in Worker :
    /\ news[w].kind = "closed" => news[w].row \in Row
    /\ news[w].kind = "opened" =>
         /\ news[w].row \in Row
         /\ \E p \in minted : news[w].pages = {p}
         /\ \A row \in Row : driverTabId[row] \notin news[w].pages
         /\ \A v \in Worker : toShut[v] \notin news[w].pages
         /\ \A v \in Worker \ {w} :
              news[v].kind = "opened" => news[v].pages \cap news[w].pages = {}

PInv ==
  /\ TypeOK
  /\ RowsWritten
  /\ NamesAreOwn
  /\ ClosesAreDue
  /\ NewPagesAreOwn

\* The ways a call changes the state of a tab row.
Moves(old, new) ==
  \/ new = old
  \/ old = "absent" /\ new = "opening"
  \/ old = "opening" /\ new = "closed"
  \/ old = "open" /\ new = "closing"

-----------------------------------------------------------------------------
(* The lease tables.                                                       *)

\* What the sweep leaves of each column it writes.
LEMMA SweepLeaves ==
  ASSUME Lease!TypeOK
  PROVE  /\ Lease!Swept \in [Claim -> Lease!ClaimState]
         /\ Lease!SweptTabs \in [Claim -> [Lease!TabNo -> Lease!TabState]]
         /\ \A c \in Claim : Lease!GiveUpTabs(tabState[c])
                               \in [Lease!TabNo -> Lease!TabState]
         /\ \A c \in Claim : ~Lease!Lapsed(c) =>
              Lease!Swept[c] = claimState[c] /\ Lease!SweptTabs[c] = tabState[c]
         /\ \A c \in Claim : Lease!Lapsed(c) =>
              /\ Lease!Swept[c] = "expired"
              /\ Lease!SweptTabs[c] = Lease!GiveUpTabs(tabState[c])
  BY DEF Lease!TypeOK, Lease!Swept, Lease!SweptTabs, Lease!GiveUpTabs, Lease!GivenUp,
         Lease!TabState, Lease!LiveTab, Lease!ClaimState, Lease!LiveClaim,
         Lease!FinalClaim, Lease!Lapsed

\* Giving the rows of a claim up moves each as a call may, and leaves none live.
LEMMA GivingUp ==
  ASSUME NEW rows \in [Lease!TabNo -> Lease!TabState], NEW n \in Lease!TabNo
  PROVE  /\ Moves(rows[n], Lease!GiveUpTabs(rows)[n])
         /\ Lease!GiveUpTabs(rows)[n] = Lease!GivenUp(rows[n])
         /\ Lease!GiveUpTabs(rows)[n] \notin Lease!LiveTab
         /\ rows[n] = "open" => Lease!GiveUpTabs(rows)[n] = "closing"
         /\ rows[n] = "absent" => Lease!GiveUpTabs(rows)[n] = "absent"
  BY DEF Lease!GiveUpTabs, Lease!GivenUp, Lease!TabState, Lease!LiveTab, Moves

\* Every column keeps its type over a call.
LEMMA LeaseTypeStep ==
  ASSUME Lease!TypeOK, NEW c \in Claim,
         \/ Lease!Request(c) \/ Lease!Status(c) \/ Lease!Release(c)
         \/ Lease!ReleaseEnded(c) \/ \E n \in Lease!TabNo : Lease!TabReplace(c, n)
  PROVE  Lease!TypeOK'
<1> USE SweepLeaves, PagesAssumption
<1>1. 1 \in Lease!TabNo /\ "opening" \in Lease!TabState
  BY DEF PagesAssumption, Lease!TabNo, Lease!TabState, Lease!LiveTab
<1>2. CASE Lease!Request(c)
  <2>1. PICK state \in {"active", "queued"}, seconds \in {LeaseSeconds, QueueSeconds} :
          /\ claimState' = [Lease!Swept EXCEPT ![c] = state]
          /\ left' = [left EXCEPT ![c] = seconds]
          /\ ttl' = [ttl EXCEPT ![c] = seconds]
    BY <1>2 DEF Lease!Request
  <2>2. seconds \in Lease!Lifetime
    BY DEF PagesAssumption, Lease!Lifetime
  <2>3. claimState' \in [Claim -> Lease!ClaimState]
    BY <2>1 DEF Lease!ClaimState, Lease!LiveClaim
  <2>4. tabState' \in [Claim -> [Lease!TabNo -> Lease!TabState]]
    BY <1>1, <1>2 DEF Lease!Request
  <2> QED
    BY <1>2, <2>1, <2>2, <2>3, <2>4 DEF Lease!Request, Lease!TypeOK
<1>3. CASE Lease!Status(c)
  BY <1>3 DEF Lease!Status, Lease!Extend, Lease!TypeOK
<1>4. ASSUME NEW n \in Lease!TabNo, Lease!TabReplace(c, n) PROVE Lease!TypeOK'
  <2>1. n + 1 \in Lease!TabNo
    BY <1>4 DEF Lease!TabReplace, Lease!TabNo, PagesAssumption
  <2>2. Lease!GivenUp(tabState[c][n]) \in Lease!TabState
    BY DEF Lease!TypeOK, Lease!GivenUp, Lease!TabState, Lease!LiveTab
  <2> QED
    BY <1>1, <1>4, <2>1, <2>2 DEF Lease!TabReplace, Lease!Extend, Lease!TypeOK
<1>5. CASE Lease!Release(c)
  <2>1. claimState' \in [Claim -> Lease!ClaimState]
    BY <1>5 DEF Lease!Release, Lease!ClaimState, Lease!LiveClaim, Lease!FinalClaim
  <2>2. left' \in [Claim -> Lease!Lifetime] /\ ttl' \in [Claim -> Lease!Lifetime]
    BY <1>5 DEF Lease!Release, Lease!PromotedTtl, Lease!TypeOK, Lease!Lifetime,
                PagesAssumption
  <2>3. tabState' \in [Claim -> [Lease!TabNo -> Lease!TabState]]
    BY <1>1, <1>5 DEF Lease!Release, Lease!TypeOK
  <2> QED
    BY <1>5, <2>1, <2>2, <2>3 DEF Lease!Release, Lease!TypeOK
<1>6. CASE Lease!ReleaseEnded(c)
  BY <1>6 DEF Lease!ReleaseEnded, Lease!TypeOK
<1> QED
  BY <1>2, <1>3, <1>4, <1>5, <1>6

\* What one claim and its rows go through in a call.
Progress(d) ==
  /\ Written(claimState'[d], tabState'[d])
  /\ \A n \in Lease!TabNo : Moves(tabState[d][n], tabState'[d][n])
  /\ Lease!Lapsed(d) => \A n \in Lease!TabNo :
       tabState[d][n] = "open" => tabState'[d][n] = "closing"
  /\ claimState[d] \in Lease!FinalClaim => claimState'[d] = claimState[d]

\* A claim that a call only sweeps makes progress.
LEMMA SweptProgress ==
  ASSUME Lease!TypeOK, RowsWritten, NEW d \in Claim,
         claimState'[d] = Lease!Swept[d], tabState'[d] = Lease!SweptTabs[d]
  PROVE  Progress(d)
<1>1. /\ tabState[d] \in [Lease!TabNo -> Lease!TabState]
      /\ Written(claimState[d], tabState[d])
  BY DEF Lease!TypeOK, RowsWritten
<1>2. CASE Lease!Lapsed(d)
  <2>1. claimState'[d] = "expired" /\ tabState'[d] = Lease!GiveUpTabs(tabState[d])
    BY <1>2, SweepLeaves
  <2>2. claimState[d] \notin Lease!FinalClaim
    BY <1>2 DEF Lease!Lapsed, Lease!LiveClaim, Lease!FinalClaim
  <2> QED
    BY <1>1, <2>1, <2>2, GivingUp DEF Progress, Written
<1>3. CASE ~Lease!Lapsed(d)
  BY <1>1, <1>3, SweepLeaves DEF Progress, Moves
<1> QED
  BY <1>2, <1>3

\* So does one that is granted its first row.
LEMMA GrantedProgress ==
  ASSUME Lease!TypeOK, RowsWritten, NEW d \in Claim,
         claimState[d] \in {"absent", "queued"}, claimState'[d] = "active",
         ~Lease!Lapsed(d), tabState'[d] = [tabState[d] EXCEPT ![1] = "opening"]
  PROVE  Progress(d)
<1>1. /\ tabState[d] \in [Lease!TabNo -> Lease!TabState]
      /\ \A n \in Lease!TabNo : tabState[d][n] = "absent"
  BY DEF Lease!TypeOK, RowsWritten, Written
<1>2. 1 \in Lease!TabNo /\ \A m \in Lease!TabNo : m > 1 => m # 1
  BY PagesAssumption DEF PagesAssumption, Lease!TabNo
<1>3. /\ tabState'[d][1] = "opening"
      /\ \A n \in Lease!TabNo \ {1} : tabState'[d][n] = "absent"
  BY <1>1, <1>2
<1>4. \A n \in Lease!TabNo : tabState'[d][n] \in Lease!LiveTab => n = 1
  BY <1>3 DEF Lease!LiveTab
<1>5. Written(claimState'[d], tabState'[d])
  BY <1>2, <1>3, <1>4 DEF Written
<1> QED
  BY <1>1, <1>3, <1>5 DEF Progress, Moves, Lease!FinalClaim

\* So does one whose tab is replaced: the row after the live one is unwritten.
LEMMA ReplacedProgress ==
  ASSUME Lease!TypeOK, RowsWritten, NEW c \in Claim, NEW n \in Lease!TabNo,
         Lease!TabReplace(c, n)
  PROVE  /\ Progress(c)
         /\ n + 1 \in Lease!TabNo
         /\ tabState[c][n] \in Lease!LiveTab
         /\ tabState'[c][n] \in GivenUpRow
<1>1. /\ tabState[c] \in [Lease!TabNo -> Lease!TabState]
      /\ Written(claimState[c], tabState[c])
  BY DEF Lease!TypeOK, RowsWritten
<1>2. ~Lease!Lapsed(c) /\ tabState[c][n] \in Lease!LiveTab
  BY SweepLeaves DEF Lease!TabReplace, Lease!LiveClaim
<1>3. n \in Nat /\ n + 1 # n /\ n + 1 \in Lease!TabNo /\ Lease!TabNo \subseteq Nat
  BY PagesAssumption DEF Lease!TabReplace, Lease!TabNo, PagesAssumption
<1>4. \A m \in Lease!TabNo : m > n => tabState[c][m] = "absent"
  BY <1>1, <1>2 DEF Written
<1>5. tabState[c][n + 1] = "absent"
  BY <1>3, <1>4
<1>6. /\ claimState'[c] = claimState[c]
      /\ tabState'[c][n] = Lease!GivenUp(tabState[c][n])
      /\ tabState'[c][n + 1] = "opening"
      /\ \A m \in Lease!TabNo \ {n, n + 1} : tabState'[c][m] = tabState[c][m]
  BY <1>1, <1>2, <1>3, SweepLeaves DEF Lease!TabReplace
<1>7. /\ tabState'[c][n] \in GivenUpRow
      /\ Moves(tabState[c][n], tabState'[c][n])
  BY <1>2, <1>6 DEF Lease!GivenUp, Lease!LiveTab, GivenUpRow, Moves
<1>8. claimState'[c] \notin {"absent", "queued"}
  BY <1>1, <1>2, <1>6 DEF Written, Lease!LiveTab
<1>9. ASSUME NEW m \in Lease!TabNo, tabState'[c][m] \in Lease!LiveTab,
             NEW k \in Lease!TabNo, k > m
      PROVE  tabState'[c][k] = "absent"
  <2>1. m # n
    BY <1>7, <1>9 DEF GivenUpRow, Lease!LiveTab
  <2>2. CASE m = n + 1
    <3>1. k \in Nat
      BY <1>3, <1>9
    <3>2. k > n /\ k # n /\ k # n + 1
      BY <1>3, <1>9, <2>2, <3>1
    <3> QED
      BY <1>4, <1>6, <3>2
  <2>3. CASE m # n + 1
    <3>1. tabState[c][m] \in Lease!LiveTab
      BY <1>6, <1>9, <2>1, <2>3
    <3>2. ~(m > n) /\ ~(n > m)
      BY <1>1, <1>2, <1>4, <3>1 DEF Written, Lease!LiveTab
    <3> QED
      BY <1>3, <2>1, <3>2
  <2> QED
    BY <2>2, <2>3
<1>10. Written(claimState'[c], tabState'[c])
  BY <1>8, <1>9 DEF Written
<1>11. \A m \in Lease!TabNo : Moves(tabState[c][m], tabState'[c][m])
  BY <1>5, <1>6, <1>7 DEF Moves
<1> QED
  BY <1>2, <1>3, <1>6, <1>7, <1>10, <1>11 DEF Progress

\* A call takes every claim as far as these, and no further.
LEMMA CallProgress ==
  ASSUME Lease!TypeOK, RowsWritten, NEW c \in Claim, NEW d \in Claim,
         \/ Lease!Request(c) \/ Lease!Status(c) \/ Lease!Release(c)
         \/ Lease!ReleaseEnded(c) \/ \E n \in Lease!TabNo : Lease!TabReplace(c, n)
  PROVE  Progress(d)
<1> USE SweepLeaves
<1>1. CASE Lease!Request(c)
  <2>1. CASE d # c
    <3>1. claimState'[d] = Lease!Swept[d] /\ tabState'[d] = Lease!SweptTabs[d]
      BY <1>1, <2>1 DEF Lease!Request
    <3> QED
      BY <3>1, SweptProgress
  <2>2. CASE d = c
    <3>1. claimState[d] = "absent" /\ ~Lease!Lapsed(d)
      BY <1>1, <2>2 DEF Lease!Request, Lease!Lapsed, Lease!LiveClaim
    <3>2. PICK state \in {"active", "queued"} :
            /\ claimState'[c] = state
            /\ tabState'[c] = IF state = "active"
                                THEN [Lease!SweptTabs[c] EXCEPT ![1] = "opening"]
                                ELSE Lease!SweptTabs[c]
      <4>1. PICK state \in {"active", "queued"} :
              /\ claimState' = [Lease!Swept EXCEPT ![c] = state]
              /\ tabState' = IF state = "active"
                               THEN [Lease!SweptTabs EXCEPT ![c][1] = "opening"]
                               ELSE Lease!SweptTabs
        BY <1>1 DEF Lease!Request
      <4> QED
        BY <4>1
    <3>3. CASE state = "active"
      BY <2>2, <3>1, <3>2, <3>3, GrantedProgress
    <3>4. CASE state = "queued"
      <4>1. claimState'[d] = "queued" /\ tabState'[d] = tabState[d]
        BY <2>2, <3>1, <3>2, <3>4
      <4> QED
        BY <3>1, <4>1 DEF Progress, Moves, Written, RowsWritten, Lease!LiveTab,
                          Lease!FinalClaim
    <3> QED
      BY <3>2, <3>3, <3>4
  <2> QED
    BY <2>1, <2>2
<1>2. CASE Lease!Status(c) \/ Lease!ReleaseEnded(c)
  BY <1>2, SweptProgress DEF Lease!Status, Lease!ReleaseEnded
<1>3. ASSUME NEW n \in Lease!TabNo, Lease!TabReplace(c, n) PROVE Progress(d)
  <2>1. CASE d # c
    <3>1. claimState'[d] = Lease!Swept[d] /\ tabState'[d] = Lease!SweptTabs[d]
      BY <1>3, <2>1 DEF Lease!TabReplace
    <3> QED
      BY <3>1, SweptProgress
  <2> QED
    BY <1>3, <2>1, ReplacedProgress
<1>4. CASE Lease!Release(c)
  <2> DEFINE ended == [Lease!Swept EXCEPT ![c] = "released"]
  <2>1. CASE d \in Lease!Promotable(ended)
    <3>1. ended[d] = "queued" /\ d # c
      BY <2>1 DEF Lease!Promotable, Lease!Queued
    <3>2. claimState[d] = "queued" /\ ~Lease!Lapsed(d)
      BY <3>1
    <3>3. /\ claimState'[d] = "active"
          /\ tabState'[d] = [tabState[d] EXCEPT ![1] = "opening"]
      BY <1>4, <2>1, <3>1 DEF Lease!Release
    <3> QED
      BY <3>2, <3>3, GrantedProgress
  <2>2. CASE d \notin Lease!Promotable(ended) /\ d = c
    <3>1. claimState'[d] = "released" /\ tabState'[d] = Lease!GiveUpTabs(tabState[d])
      BY <1>4, <2>2 DEF Lease!Release
    <3>2. claimState[d] \notin Lease!FinalClaim
      BY <1>4, <2>2 DEF Lease!Release, Lease!LiveClaim, Lease!FinalClaim
    <3>3. tabState[d] \in [Lease!TabNo -> Lease!TabState]
      BY DEF Lease!TypeOK
    <3> QED
      BY <3>1, <3>2, <3>3, GivingUp DEF Progress, Written
  <2>3. CASE d \notin Lease!Promotable(ended) /\ d # c
    <3>1. claimState'[d] = Lease!Swept[d] /\ tabState'[d] = Lease!SweptTabs[d]
      BY <1>4, <2>3 DEF Lease!Release
    <3> QED
      BY <3>1, SweptProgress
  <2> QED
    BY <2>1, <2>2, <2>3
<1> QED
  BY <1>1, <1>2, <1>3, <1>4

-----------------------------------------------------------------------------
(* What a call leaves to be done.                                          *)

\* The rows it owes a close and the row whose page it shuts are given up, and
\* the row it opens a page for exists.
LEMMA CallOwes ==
  ASSUME TypeOK, RowsWritten, NEW w \in Worker, Call(w)
  PROVE  /\ Lease!TypeOK'
         /\ \A d \in Claim : Progress(d)
         /\ \E rows \in SUBSET Row, shut \in Page \cup {NoPage}, open \in Row \cup {NoRow} :
              /\ Schedule(w, rows, shut, open)
              /\ \A row \in rows : RowState(row)' = "closing"
              /\ shut # NoPage =>
                   \E row \in Row : driverTabId[row] = shut /\ RowState(row)' \in GivenUpRow
<1> DEFINE Owes(rows, shut, open) ==
             /\ Schedule(w, rows, shut, open)
             /\ \A row \in rows : RowState(row)' = "closing"
             /\ shut # NoPage =>
                  \E row \in Row : driverTabId[row] = shut /\ RowState(row)' \in GivenUpRow
           Due == \E rows \in SUBSET Row, shut \in Page \cup {NoPage},
                     open \in Row \cup {NoRow} : Owes(rows, shut, open)
           Calls(c) == \/ Lease!Request(c) \/ Lease!Status(c) \/ Lease!Release(c)
                       \/ Lease!ReleaseEnded(c)
                       \/ \E n \in Lease!TabNo : Lease!TabReplace(c, n)
<1>1. Lease!TypeOK /\ driverTabId \in [Row -> Page \cup {NoPage}]
  BY DEF TypeOK
<1>2. \A row \in Row : row[1] \in Claim /\ row[2] \in Lease!TabNo
  BY DEF Row
<1>3. \A c \in Claim, n \in Lease!TabNo : <<c, n>> \in Row
  BY DEF Row
<1>4. ASSUME NEW c \in Claim, Calls(c)
      PROVE  /\ Lease!TypeOK'
             /\ \A d \in Claim : Progress(d)
             /\ \A row \in Orphaned : RowState(row)' = "closing"
  <2>1. Lease!TypeOK' /\ \A d \in Claim : Progress(d)
    BY <1>1, <1>4, LeaseTypeStep, CallProgress
  <2>2. ASSUME NEW row \in Orphaned PROVE RowState(row)' = "closing"
    BY <1>2, <2>1 DEF Orphaned, Progress, RowState
  <2> QED
    BY <2>1, <2>2
<1>5. Orphaned \in SUBSET Row
  BY DEF Orphaned
<1>6. ASSUME NEW c \in Claim, Calls(c), NEW open \in Row \cup {NoRow},
             Schedule(w, Orphaned, NoPage, open)
      PROVE  Due
  <2>1. Owes(Orphaned, NoPage, open)
    BY <1>4, <1>6
  <2> QED
    BY <1>5, <2>1
<1> USE DEF Calls
<1>7. PICK c \in Claim :
        \/ Request(w, c) \/ Status(w, c) \/ Release(w, c) \/ ReleaseEnded(w, c)
        \/ \E n \in Lease!TabNo : PageCall(w, c, n) \/ TabReplace(w, c, n)
  BY DEF Call
<1>8. ASSUME Request(w, c) \/ Status(w, c) \/ ReleaseEnded(w, c)
      PROVE  Calls(c) /\ Due
  <2>1. Calls(c) /\ Schedule(w, Orphaned, NoPage, NoRow)
    BY <1>8 DEF Request, Status, ReleaseEnded
  <2> QED
    BY <1>6, <2>1
<1>9. ASSUME NEW n \in Lease!TabNo, PageCall(w, c, n)
      PROVE  Calls(c) /\ Due
  <2>1. Calls(c)
    BY <1>9 DEF PageCall, Lease!PageCall
  <2>2. PICK open \in Row \cup {NoRow} : Schedule(w, Orphaned, NoPage, open)
    BY <1>3, <1>9 DEF PageCall
  <2> QED
    BY <1>6, <2>1, <2>2
<1>10. ASSUME NEW n \in Lease!TabNo, TabReplace(w, c, n)
       PROVE  Calls(c) /\ Due
  <2>1. Calls(c) /\ Lease!TabReplace(c, n)
    BY <1>10 DEF TabReplace
  <2>2. <<c, n>> \in Row /\ <<c, n + 1>> \in Row /\ RowState(<<c, n>>)' \in GivenUpRow
    BY <1>1, <1>3, <2>1, ReplacedProgress DEF RowState
  <2>3. driverTabId[<<c, n>>] \in Page \cup {NoPage}
    BY <1>1, <2>2
  <2>4. Owes(Orphaned, driverTabId[<<c, n>>], <<c, n + 1>>)
    BY <1>4, <1>10, <2>1, <2>2 DEF TabReplace
  <2> QED
    BY <1>5, <2>1, <2>2, <2>3, <2>4
<1>11. ASSUME Release(w, c) PROVE Calls(c) /\ Due
  <2> DEFINE rows == Orphaned \cup {row \in Row : row[1] = c /\ RowState(row) = "open"}
  <2>1. Calls(c) /\ Lease!Release(c) /\ Schedule(w, rows, NoPage, NoRow)
    BY <1>11 DEF Release
  <2>2. ASSUME NEW row \in Row, row[1] = c, RowState(row) = "open"
        PROVE  RowState(row)' = "closing"
    <3>1. tabState'[c] = Lease!GiveUpTabs(tabState[c])
      <4>1. c \notin Lease!Promotable([Lease!Swept EXCEPT ![c] = "released"])
        BY <1>1, SweepLeaves DEF Lease!Promotable, Lease!Queued
      <4> QED
        BY <2>1, <4>1 DEF Lease!Release
    <3>2. tabState[c] \in [Lease!TabNo -> Lease!TabState]
      BY <1>1 DEF Lease!TypeOK
    <3> QED
      BY <1>2, <2>2, <3>1, <3>2, GivingUp DEF RowState
  <2>3. \A row \in rows : RowState(row)' = "closing"
    BY <1>4, <2>1, <2>2
  <2>4. Owes(rows, NoPage, NoRow)
    BY <2>1, <2>3
  <2>5. rows \in SUBSET Row
    BY <1>5
  <2> QED
    BY <2>1, <2>4, <2>5
<1> HIDE DEF Calls, Due
<1>12. Calls(c) /\ Due
  BY <1>7, <1>8, <1>9, <1>10, <1>11
<1>13. /\ Lease!TypeOK'
       /\ \A d \in Claim : Progress(d)
  BY <1>4, <1>12
<1> QED
  BY <1>12, <1>13 DEF Due

\* A call takes every tab row as far as Moves says, and leaves what is given
\* up given up.
LEMMA CallRows ==
  ASSUME \A d \in Claim : Progress(d)
  PROVE  /\ RowsWritten'
         /\ \A row \in Row : Moves(RowState(row), RowState(row)')
         /\ \A row \in Row :
              RowState(row) \in GivenUpRow => RowState(row)' \in GivenUpRow
<1>1. \A row \in Row : Moves(RowState(row), RowState(row)')
  BY DEF Progress, Row, RowState
<1> QED
  BY <1>1 DEF Progress, RowsWritten, Written, Moves, GivenUpRow

\* Rows are numbered within the bound, and there are no others.
LEMMA RowsAreNumbered ==
  /\ \A row \in Row : row[1] \in Claim /\ row[2] \in Lease!TabNo /\ row = <<row[1], row[2]>>
  /\ \A c \in Claim, n \in Lease!TabNo : <<c, n>> \in Row
  BY DEF Row

\* Closing rows closes them and touches no other.
LEMMA ClosingRows ==
  ASSUME NEW rows \in SUBSET Row, CloseRows(rows)
  PROVE  \A row \in Row : RowState(row)' = IF row \in rows THEN "closed" ELSE RowState(row)
  BY RowsAreNumbered DEF CloseRows, RowState

\* Rows that were written can be closed, whoever owns them and whatever their
\* leases have come to.
LEMMA SettledRows ==
  ASSUME TypeOK, RowsWritten, NamesAreOwn,
         NEW rows \in SUBSET Row, \A row \in rows : RowState(row) # "absent",
         CloseRows(rows), UNCHANGED <<claimState, left, ttl, arrival, nextArrival, pageVars>>
  PROVE  /\ Lease!TypeOK' /\ RowsWritten' /\ NamesAreOwn'
         /\ \A row \in Row : RowState(row)' \in {RowState(row), "closed"}
<1>1. \A row \in Row : RowState(row)' \in {RowState(row), "closed"}
  BY ClosingRows
<1>2. \A row \in Row : RowState(row) = "absent" <=> RowState(row)' = "absent"
  BY ClosingRows
<1>3. Lease!TypeOK'
  <2>1. tabState' \in [Claim -> [Lease!TabNo -> Lease!TabState]]
    BY DEF CloseRows, TypeOK, Lease!TypeOK, Lease!TabState
  <2> QED
    BY <2>1 DEF TypeOK, Lease!TypeOK
<1>4. RowsWritten'
  <2> SUFFICES ASSUME NEW c \in Claim PROVE Written(claimState[c], tabState'[c])
    BY DEF RowsWritten, Written
  <2>1. \A n \in Lease!TabNo : /\ tabState'[c][n] \in {tabState[c][n], "closed"}
                               /\ tabState[c][n] = "absent" => tabState'[c][n] = "absent"
    BY <1>1, <1>2, RowsAreNumbered DEF RowState
  <2> QED
    BY <2>1 DEF RowsWritten, Written, Lease!LiveTab
<1>5. NamesAreOwn'
  BY <1>2 DEF NamesAreOwn, pageVars
<1> QED
  BY <1>1, <1>3, <1>4, <1>5

\* A worker that learns anything but a page it opened has no new page.
LEMMA NoNewPage ==
  ASSUME NewPagesAreOwn, NEW w \in Worker,
         news'[w].kind # "opened", news'[w].kind = "closed" => news'[w].row \in Row,
         \A v \in Worker \ {w} : news'[v] = news[v],
         UNCHANGED <<driverTabId, minted, toShut>>
  PROVE  NewPagesAreOwn'
  BY DEF NewPagesAreOwn

\* A call leaves what it owes and no news of a page.
LEMMA CallStep ==
  ASSUME PInv, NEW w \in Worker, Call(w)
  PROVE  PInv'
<1>1. TypeOK /\ RowsWritten /\ NamesAreOwn /\ ClosesAreDue /\ NewPagesAreOwn
  BY DEF PInv
<1>2. PICK rows \in SUBSET Row, shut \in Page \cup {NoPage}, open \in Row \cup {NoRow} :
        /\ Schedule(w, rows, shut, open)
        /\ \A row \in rows : RowState(row)' = "closing"
        /\ shut # NoPage =>
             \E row \in Row : driverTabId[row] = shut /\ RowState(row)' \in GivenUpRow
  BY <1>1, CallOwes
<1>3. Lease!TypeOK' /\ \A d \in Claim : Progress(d)
  BY <1>1, CallOwes
<1>4. /\ RowsWritten'
      /\ \A row \in Row : Moves(RowState(row), RowState(row)')
      /\ \A row \in Row : RowState(row) \in GivenUpRow => RowState(row)' \in GivenUpRow
  BY <1>3, CallRows
<1>5. /\ toClose' = [toClose EXCEPT ![w] = rows]
      /\ toShut' = [toShut EXCEPT ![w] = shut]
      /\ toOpen' = [toOpen EXCEPT ![w] = open]
      /\ UNCHANGED <<driverTabId, opened, minted, news, stage, recorded, listed, kept>>
  BY <1>2 DEF Schedule, pageVars, reconVars
<1>6. TypeOK'
  <2>1. \A row \in Row :
          RowState(row)' \in {"opening", "open", "closing"}
            => (RowState(row)' = "opening") = (driverTabId'[row] = NoPage)
    BY <1>1, <1>4, <1>5 DEF TypeOK, NamesAreOwn, Moves
  <2> QED
    BY <1>1, <1>3, <1>5, <2>1 DEF TypeOK
<1>7. NamesAreOwn'
  BY <1>1, <1>4, <1>5 DEF NamesAreOwn, Moves
<1>8. ClosesAreDue'
  <2>1. \A v \in Worker : /\ toClose'[v] = IF v = w THEN rows ELSE toClose[v]
                          /\ toShut'[v] = IF v = w THEN shut ELSE toShut[v]
    BY <1>1, <1>5 DEF TypeOK
  <2>2. \A v \in Worker : \A row \in toClose'[v] : RowState(row)' \in GivenUpRow
    BY <1>1, <1>2, <1>4, <2>1 DEF ClosesAreDue, GivenUpRow, TypeOK
  <2>3. shut # NoPage =>
          /\ shut \in minted
          /\ \A row \in Row : driverTabId[row] = shut => RowState(row)' \in GivenUpRow
    BY <1>1, <1>2 DEF NamesAreOwn
  <2> QED
    BY <1>1, <1>4, <1>5, <2>1, <2>2, <2>3 DEF ClosesAreDue
<1>9. NewPagesAreOwn'
  <2>1. shut = NoPage \/ \E row \in Row : driverTabId[row] = shut
    BY <1>2
  <2>2. \A v \in Worker : NoPage \notin news[v].pages
    BY <1>1, PagesAssumption DEF TypeOK, News, PagesAssumption
  <2>3. \A v \in Worker : toShut'[v] = IF v = w THEN shut ELSE toShut[v]
    BY <1>1, <1>5 DEF TypeOK
  <2> QED
    BY <1>1, <1>5, <2>1, <2>2, <2>3 DEF NewPagesAreOwn
<1> QED
  BY <1>4, <1>6, <1>7, <1>8, <1>9 DEF PInv

\* A row is opened or closed and its columns keep their types.
LEMMA RowWritten ==
  ASSUME TypeOK, RowsWritten, NEW row \in Row, NEW state \in Lease!TabState,
         RowState(row) # "absent", state # "absent",
         state \in Lease!LiveTab => RowState(row) \in Lease!LiveTab,
         tabState' = [tabState EXCEPT ![row[1]][row[2]] = state],
         UNCHANGED <<claimState, left, ttl, arrival, nextArrival>>
  PROVE  /\ Lease!TypeOK' /\ RowsWritten'
         /\ \A other \in Row :
              RowState(other)' = IF other = row THEN state ELSE RowState(other)
<1>1. tabState \in [Claim -> [Lease!TabNo -> Lease!TabState]]
  BY DEF TypeOK, Lease!TypeOK
<1>2. \A other \in Row :
        RowState(other)' = IF other = row THEN state ELSE RowState(other)
  BY <1>1, RowsAreNumbered DEF RowState
<1>3. Lease!TypeOK'
  BY <1>1, RowsAreNumbered DEF TypeOK, Lease!TypeOK
<1>4. RowsWritten'
  <2> SUFFICES ASSUME NEW c \in Claim PROVE Written(claimState[c], tabState'[c])
    BY DEF RowsWritten, Written
  <2>1. \A n \in Lease!TabNo :
          /\ tabState'[c][n] = "absent" <=> tabState[c][n] = "absent"
          /\ tabState'[c][n] \in Lease!LiveTab => tabState[c][n] \in Lease!LiveTab
    BY <1>2, RowsAreNumbered DEF RowState
  <2> QED
    BY <2>1 DEF RowsWritten, Written
<1> QED
  BY <1>2, <1>3, <1>4

\* Every step of a worker's work after the commit keeps the invariant.
LEMMA ContinueStep ==
  ASSUME PInv, NEW w \in Worker, Continue(w)
  PROVE  PInv'
<1> USE DEF pageVars, leaseVars, reconVars
<1>1. TypeOK /\ RowsWritten /\ NamesAreOwn /\ ClosesAreDue /\ NewPagesAreOwn
  BY DEF PInv
<1>2. PagesAssumption
  BY PagesAssumption
<1>3. ASSUME UNCHANGED <<leaseVars, driverTabId>>
      PROVE  /\ Lease!TypeOK' /\ RowsWritten'
             /\ \A row \in Row : RowState(row)' = RowState(row)
  BY <1>1, <1>3 DEF TypeOK, Lease!TypeOK, RowsWritten, Written, RowState
<1>4. ASSUME NEW row \in Row, AskClose(w, row) PROVE PInv'
  <2>1. /\ UNCHANGED <<leaseVars, driverTabId, minted, toShut, toOpen, reconVars>>
        /\ opened' \subseteq opened
        /\ toClose' = [toClose EXCEPT ![w] = @ \ {row}]
        /\ news' = [news EXCEPT ![w] = [kind |-> "closed", row |-> row, pages |-> {}]]
    BY <1>4 DEF AskClose, Learn
  <2>2. TypeOK'
    BY <1>1, <1>3, <2>1 DEF TypeOK, News
  <2>3. NamesAreOwn'
    BY <1>1, <1>3, <2>1 DEF NamesAreOwn
  <2>4. ClosesAreDue'
    BY <1>1, <1>3, <2>1 DEF ClosesAreDue, TypeOK
  <2>5. NewPagesAreOwn'
    <3>1. /\ news'[w].kind = "closed" /\ news'[w].row = row
          /\ \A v \in Worker \ {w} : news'[v] = news[v]
      BY <1>1, <2>1 DEF TypeOK
    <3> QED
      BY <1>1, <2>1, <3>1, NoNewPage
  <2> QED
    BY <1>3, <2>1, <2>2, <2>3, <2>4, <2>5 DEF PInv
<1>5. ASSUME NEW row \in Row, CloseFails(w, row) PROVE PInv'
  <2>1. /\ UNCHANGED <<leaseVars, pageVars, toShut, toOpen, reconVars>>
        /\ toClose' = [toClose EXCEPT ![w] = @ \ {row}]
        /\ news' = [news EXCEPT ![w] = [kind |-> "drain", row |-> NoRow, pages |-> {}]]
    BY <1>5 DEF CloseFails, Learn
  <2>2. TypeOK'
    BY <1>1, <1>3, <2>1 DEF TypeOK, News
  <2>3. NamesAreOwn'
    BY <1>1, <1>3, <2>1 DEF NamesAreOwn
  <2>4. ClosesAreDue'
    BY <1>1, <1>3, <2>1 DEF ClosesAreDue, TypeOK
  <2>5. NewPagesAreOwn'
    <3>1. /\ news'[w].kind = "drain"
          /\ \A v \in Worker \ {w} : news'[v] = news[v]
      BY <1>1, <2>1 DEF TypeOK
    <3> QED
      BY <1>1, <2>1, <3>1, NoNewPage
  <2> QED
    BY <1>3, <2>1, <2>2, <2>3, <2>4, <2>5 DEF PInv
<1>6. CASE RecordClosed(w)
  <2>1. /\ UNCHANGED <<pageVars, toClose, toShut, toOpen, reconVars>>
        /\ news' = [news EXCEPT ![w] = [kind |-> "drain", row |-> NoRow, pages |-> {}]]
    BY <1>6 DEF RecordClosed, Learn
  <2>2. news[w].row \in Row
    BY <1>1, <1>6 DEF RecordClosed, NewPagesAreOwn
  <2>3. /\ Lease!TypeOK' /\ RowsWritten'
        /\ \A row \in Row : \/ RowState(row)' = RowState(row)
                            \/ RowState(row) = "closing" /\ RowState(row)' = "closed"
    <3>1. CASE RowState(news[w].row) = "closing"
      <4>1. Lease!PageClosed(news[w].row[1], news[w].row[2])
        BY <1>6, <3>1 DEF RecordClosed
      <4>2. "closed" \in Lease!TabState /\ "closed" \notin Lease!LiveTab
        BY DEF Lease!TabState, Lease!LiveTab
      <4> QED
        BY <1>1, <2>2, <3>1, <4>1, <4>2, RowWritten DEF Lease!PageClosed
    <3>2. CASE RowState(news[w].row) # "closing"
      BY <1>3, <1>6, <2>1, <3>2 DEF RecordClosed
    <3> QED
      BY <3>1, <3>2
  <2>4. TypeOK'
    BY <1>1, <2>1, <2>3 DEF TypeOK, News
  <2>5. NamesAreOwn'
    BY <1>1, <2>1, <2>3 DEF NamesAreOwn
  <2>6. ClosesAreDue'
    BY <1>1, <2>1, <2>3 DEF ClosesAreDue, TypeOK, GivenUpRow
  <2>7. NewPagesAreOwn'
    <3>1. /\ news'[w].kind = "drain"
          /\ \A v \in Worker \ {w} : news'[v] = news[v]
      BY <1>1, <2>1 DEF TypeOK
    <3> QED
      BY <1>1, <2>1, <3>1, NoNewPage
  <2> QED
    BY <2>3, <2>4, <2>5, <2>6, <2>7 DEF PInv
<1>7. CASE ListPages(w) \/ SkipDrain(w)
  <2>1. UNCHANGED <<leaseVars, pageVars, toClose, toShut, toOpen, reconVars>>
    BY <1>7 DEF ListPages, SkipDrain
  <2>2. PICK fact \in {[kind |-> "listed", row |-> NoRow, pages |-> Listing(keeper)] :
                      keeper \in MayBeKeeper} \cup {Nothing} :
          news' = [news EXCEPT ![w] = fact]
    BY <1>7 DEF ListPages, SkipDrain, Learn
  <2>3. fact \in News /\ fact.kind \notin {"opened", "closed"}
    BY <1>1, <2>2 DEF News, Nothing, TypeOK, Listing
  <2>4. TypeOK'
    BY <1>1, <1>3, <2>1, <2>2, <2>3 DEF TypeOK
  <2>5. NamesAreOwn' /\ ClosesAreDue'
    BY <1>1, <1>3, <2>1 DEF NamesAreOwn, ClosesAreDue, TypeOK
  <2>6. NewPagesAreOwn'
    BY <1>1, <2>1, <2>2, <2>3, NoNewPage DEF TypeOK
  <2> QED
    BY <1>3, <2>1, <2>4, <2>5, <2>6 DEF PInv
<1>8. CASE Drain(w)
  <2> DEFINE rows == Stranded(news[w].pages)
  <2>1. /\ CloseRows(rows)
        /\ UNCHANGED <<claimState, left, ttl, arrival, nextArrival>>
        /\ UNCHANGED <<pageVars, toClose, toShut, toOpen, reconVars>>
        /\ news' = [news EXCEPT ![w] = Nothing]
    BY <1>8 DEF Drain, SettleStranded
  <2>2. rows \in SUBSET Row /\ \A row \in rows : RowState(row) = "closing"
    BY DEF Stranded
  <2>3. /\ Lease!TypeOK' /\ RowsWritten' /\ NamesAreOwn'
        /\ \A row \in Row : RowState(row)' \in {RowState(row), "closed"}
    BY <1>1, <2>1, <2>2, SettledRows
  <2>4. TypeOK'
    BY <1>1, <2>1, <2>3 DEF TypeOK, News, Nothing
  <2>5. ClosesAreDue'
    BY <1>1, <2>1, <2>3 DEF ClosesAreDue, TypeOK, GivenUpRow
  <2>6. Nothing.kind = "nothing"
    BY DEF Nothing
  <2>7. NewPagesAreOwn'
    BY <1>1, <2>1, <2>6, NoNewPage DEF TypeOK
  <2> QED
    BY <2>3, <2>4, <2>5, <2>7 DEF PInv
<1>9. CASE Shut(w)
  <2>1. /\ UNCHANGED <<leaseVars, driverTabId, minted, toClose, toOpen, news, reconVars>>
        /\ opened' \subseteq opened
        /\ toShut' = [toShut EXCEPT ![w] = NoPage]
    BY <1>9 DEF Shut
  <2>2. TypeOK'
    BY <1>1, <1>3, <2>1 DEF TypeOK
  <2>3. NamesAreOwn' /\ ClosesAreDue'
    BY <1>1, <1>3, <2>1 DEF NamesAreOwn, ClosesAreDue, TypeOK
  <2>4. \A v \in Worker : NoPage \notin news[v].pages
    BY <1>1, <1>2 DEF TypeOK, News, PagesAssumption
  <2>5. NewPagesAreOwn'
    BY <1>1, <2>1, <2>4 DEF NewPagesAreOwn, TypeOK
  <2> QED
    BY <1>3, <2>1, <2>2, <2>3, <2>5 DEF PInv
<1>10. ASSUME NEW p \in Page, Open(w, p) PROVE PInv'
  <2>1. /\ UNCHANGED <<leaseVars, driverTabId, toClose, toShut, toOpen, reconVars>>
        /\ toOpen[w] # NoRow /\ p \notin minted
        /\ opened' = opened \cup {p} /\ minted' = minted \cup {p}
        /\ news' = [news EXCEPT ![w] = [kind |-> "opened", row |-> toOpen[w], pages |-> {p}]]
    BY <1>10 DEF Open, Learn
  <2>2. toOpen[w] \in Row
    BY <1>1, <2>1 DEF TypeOK
  <2>3. TypeOK'
    BY <1>1, <1>3, <2>1, <2>2 DEF TypeOK, News
  <2>4. NamesAreOwn' /\ ClosesAreDue'
    BY <1>1, <1>3, <2>1 DEF NamesAreOwn, ClosesAreDue, TypeOK
  <2>5. /\ \A row \in Row : driverTabId[row] # p
        /\ \A v \in Worker : toShut[v] # p
    BY <1>1, <1>2, <2>1 DEF NamesAreOwn, ClosesAreDue, PagesAssumption
  <2>6. \A v \in Worker : news[v].kind = "opened" => p \notin news[v].pages
    BY <1>1, <2>1 DEF NewPagesAreOwn
  <2>7. NewPagesAreOwn'
    <3>1. \A v \in Worker :
            news'[v] = IF v = w THEN [kind |-> "opened", row |-> toOpen[w], pages |-> {p}]
                                ELSE news[v]
      BY <1>1, <2>1 DEF TypeOK
    <3> QED
      BY <1>1, <2>1, <2>2, <2>5, <2>6, <3>1 DEF NewPagesAreOwn
  <2> QED
    BY <1>3, <2>1, <2>3, <2>4, <2>7 DEF PInv
<1>11. CASE OpenFails(w)
  <2>1. /\ UNCHANGED <<leaseVars, pageVars, toClose, toShut, news, reconVars>>
        /\ toOpen' = [toOpen EXCEPT ![w] = NoRow]
    BY <1>11 DEF OpenFails
  <2>2. TypeOK'
    BY <1>1, <1>3, <2>1 DEF TypeOK
  <2>3. NamesAreOwn' /\ ClosesAreDue' /\ NewPagesAreOwn'
    BY <1>1, <1>3, <2>1 DEF NamesAreOwn, ClosesAreDue, NewPagesAreOwn, TypeOK
  <2> QED
    BY <1>3, <2>1, <2>2, <2>3 DEF PInv
<1>12. CASE RecordOpened(w)
  <2> DEFINE row == news[w].row
  <2>1. /\ news[w].kind = "opened" /\ row \in Row
        /\ toOpen' = [toOpen EXCEPT ![w] = NoRow]
        /\ news' = [news EXCEPT ![w] = Nothing]
        /\ UNCHANGED <<opened, minted, toClose, toShut, reconVars>>
    BY <1>1, <1>12 DEF RecordOpened, NewPagesAreOwn
  <2>2. PICK p \in news[w].pages : Name(row, p)
    BY <1>12 DEF RecordOpened
  <2>3. /\ p \in minted /\ news[w].pages = {p}
        /\ \A other \in Row : driverTabId[other] # p
        /\ \A v \in Worker : toShut[v] # p
        /\ \A v \in Worker \ {w} : news[v].kind = "opened" => p \notin news[v].pages
    BY <1>1, <2>1, <2>2 DEF NewPagesAreOwn
  <2>4. p \in Page /\ p # NoPage
    BY <1>1, <1>2, <2>3 DEF TypeOK, PagesAssumption
  <2>5. \A v \in Worker : news'[v] = IF v = w THEN Nothing ELSE news[v]
    BY <1>1, <2>1 DEF TypeOK
  <2>6. Nothing \in News /\ Nothing.kind = "nothing"
    BY DEF Nothing, News
  <2>7. CASE RowState(row) = "opening"
    <3>1. /\ Lease!PageOpened(row[1], row[2])
          /\ driverTabId' = [driverTabId EXCEPT ![row] = p]
      BY <2>2, <2>7 DEF Name
    <3>2. "open" \in Lease!TabState /\ "opening" \in Lease!LiveTab
      BY DEF Lease!TabState, Lease!LiveTab
    <3>3. /\ Lease!TypeOK' /\ RowsWritten'
          /\ \A other \in Row :
               RowState(other)' = IF other = row THEN "open" ELSE RowState(other)
      BY <1>1, <2>1, <2>7, <3>1, <3>2, RowWritten DEF Lease!PageOpened
    <3>4. \A other \in Row :
            driverTabId'[other] = IF other = row THEN p ELSE driverTabId[other]
      BY <1>1, <3>1 DEF TypeOK
    <3>5. \A other \in Row :
            RowState(other)' \in {"opening", "open", "closing"}
              => (RowState(other)' = "opening") = (driverTabId'[other] = NoPage)
      BY <1>1, <2>4, <3>3, <3>4 DEF TypeOK
    <3>6. TypeOK'
      BY <1>1, <2>1, <2>4, <2>6, <3>1, <3>3, <3>5 DEF TypeOK
    <3>7. NamesAreOwn'
      BY <1>1, <2>1, <2>3, <2>4, <3>3, <3>4 DEF NamesAreOwn
    <3>8. ClosesAreDue'
      BY <1>1, <2>1, <2>3, <2>7, <3>3, <3>4 DEF ClosesAreDue, TypeOK, GivenUpRow
    <3>9. NewPagesAreOwn'
      BY <1>1, <2>1, <2>3, <2>5, <2>6, <3>4 DEF NewPagesAreOwn
    <3> QED
      BY <3>3, <3>6, <3>7, <3>8, <3>9 DEF PInv
  <2>8. CASE RowState(row) # "opening"
    <3>1. UNCHANGED <<leaseVars, driverTabId>>
      BY <2>2, <2>8 DEF Name
    <3>2. TypeOK'
      BY <1>1, <1>3, <2>1, <2>6, <3>1 DEF TypeOK
    <3>3. NamesAreOwn' /\ ClosesAreDue'
      BY <1>1, <1>3, <2>1, <3>1 DEF NamesAreOwn, ClosesAreDue, TypeOK
    <3>4. NewPagesAreOwn'
      BY <1>1, <2>1, <2>5, <2>6, <3>1, NoNewPage
    <3> QED
      BY <1>3, <3>1, <3>2, <3>3, <3>4 DEF PInv
  <2> QED
    BY <2>7, <2>8
<1> QED
  BY <1>4, <1>5, <1>6, <1>7, <1>8, <1>9, <1>10, <1>11, <1>12 DEF Continue

\* A worker that dies forgets what it owed.
LEMMA CrashStep ==
  ASSUME PInv, NEW w \in Worker, Crash(w)
  PROVE  PInv'
<1> USE DEF pageVars, leaseVars, reconVars
<1>1. TypeOK /\ RowsWritten /\ NamesAreOwn /\ ClosesAreDue /\ NewPagesAreOwn
  BY DEF PInv
<1>2. /\ toClose' = [toClose EXCEPT ![w] = {}]
      /\ toShut' = [toShut EXCEPT ![w] = NoPage]
      /\ toOpen' = [toOpen EXCEPT ![w] = NoRow]
      /\ news' = [news EXCEPT ![w] = Nothing]
      /\ UNCHANGED <<leaseVars, pageVars, reconVars>>
  BY DEF Crash
<1>3. /\ Lease!TypeOK' /\ RowsWritten'
      /\ \A row \in Row : RowState(row)' = RowState(row)
  BY <1>1, <1>2 DEF TypeOK, Lease!TypeOK, RowsWritten, Written, RowState
<1>4. Nothing \in News /\ Nothing.kind = "nothing"
  BY DEF Nothing, News
<1>5. TypeOK'
  BY <1>1, <1>2, <1>3, <1>4 DEF TypeOK
<1>6. NamesAreOwn' /\ ClosesAreDue'
  BY <1>1, <1>2, <1>3 DEF NamesAreOwn, ClosesAreDue, TypeOK
<1>7. NewPagesAreOwn'
  <2>1. \A v \in Worker : /\ news'[v] = IF v = w THEN Nothing ELSE news[v]
                          /\ toShut'[v] \in {toShut[v], NoPage}
    BY <1>1, <1>2 DEF TypeOK
  <2>2. \A v \in Worker : NoPage \notin news[v].pages
    BY <1>1, PagesAssumption DEF TypeOK, News, PagesAssumption
  <2> QED
    BY <1>1, <1>2, <1>4, <2>1, <2>2 DEF NewPagesAreOwn
<1> QED
  BY <1>3, <1>5, <1>6, <1>7 DEF PInv

\* Every step of a reconcile run keeps the invariant, however old what it read
\* and was told has become.
LEMMA ReconcilerKeeps ==
  ASSUME PInv, NEW r \in Reconciler, ReconcilerStep(r)
  PROVE  PInv'
<1> USE DEF pageVars, leaseVars, workVars
<1>1. TypeOK /\ RowsWritten /\ NamesAreOwn /\ ClosesAreDue /\ NewPagesAreOwn
  BY DEF PInv
<1>2. ASSUME UNCHANGED <<driverTabId, minted, workVars>>,
             \A row \in Row : RowState(row)' \in {RowState(row), "closed"},
             \A row \in Row : RowState(row)' = "absent" => RowState(row) = "absent"
      PROVE  NamesAreOwn' /\ ClosesAreDue' /\ NewPagesAreOwn'
  <2>1. NamesAreOwn'
    BY <1>1, <1>2 DEF NamesAreOwn
  <2>2. ClosesAreDue'
    BY <1>1, <1>2 DEF ClosesAreDue, TypeOK, GivenUpRow
  <2>3. NewPagesAreOwn'
    BY <1>1, <1>2 DEF NewPagesAreOwn
  <2> QED
    BY <2>1, <2>2, <2>3
<1>3. ASSUME UNCHANGED <<leaseVars, driverTabId, minted, workVars>>, opened' \subseteq opened,
             stage' \in [Reconciler -> Stage],
             recorded' \in [Reconciler -> SUBSET [row : Row, page : Page \cup {NoPage}]],
             listed' \in [Reconciler -> SUBSET Page],
             kept' \in [Reconciler -> Page \cup {NoPage}]
      PROVE  PInv'
  <2>1. /\ Lease!TypeOK' /\ RowsWritten'
        /\ \A row \in Row : RowState(row)' = RowState(row)
    BY <1>1, <1>3 DEF TypeOK, Lease!TypeOK, RowsWritten, Written, RowState
  <2>2. TypeOK'
    BY <1>1, <1>3, <2>1 DEF TypeOK
  <2>3. NamesAreOwn' /\ ClosesAreDue' /\ NewPagesAreOwn'
    BY <1>2, <1>3, <2>1
  <2> QED
    BY <2>1, <2>2, <2>3 DEF PInv
<1>4. CASE ReadRecordedTabs(r)
  <2>1. {[row |-> row, page |-> driverTabId[row]] :
           row \in {row \in Row : /\ claimState[row[1]] = "active"
                                  /\ RowState(row) \in Lease!LiveTab}}
          \subseteq [row : Row, page : Page \cup {NoPage}]
    BY <1>1 DEF TypeOK
  <2> QED
    BY <1>1, <1>3, <1>4, <2>1 DEF ReadRecordedTabs, TypeOK, Stage
<1>5. CASE ListTabs(r)
  <2>1. PICK keeper \in MayBeKeeper :
          /\ kept' = [kept EXCEPT ![r] = keeper]
          /\ listed' = [listed EXCEPT ![r] = Listing(keeper)]
    BY <1>5 DEF ListTabs
  <2>2. keeper \in Page \cup {NoPage} /\ Listing(keeper) \subseteq Page
    BY <1>1, <2>1 DEF MayBeKeeper, Listing, TypeOK
  <2>3. /\ listed' \in [Reconciler -> SUBSET Page]
        /\ kept' \in [Reconciler -> Page \cup {NoPage}]
    BY <1>1, <2>1, <2>2 DEF TypeOK
  <2> QED
    BY <1>1, <1>3, <1>5, <2>3 DEF ListTabs, TypeOK, Stage
<1>6. ASSUME NEW rows \in SUBSET Row, \A row \in rows : RowState(row) # "absent",
             CloseRows(rows),
             UNCHANGED <<claimState, left, ttl, arrival, nextArrival, pageVars, workVars>>,
             stage' \in [Reconciler -> Stage],
             recorded' \in [Reconciler -> SUBSET [row : Row, page : Page \cup {NoPage}]],
             listed' \in [Reconciler -> SUBSET Page],
             kept' \in [Reconciler -> Page \cup {NoPage}]
      PROVE  PInv'
  <2>1. /\ Lease!TypeOK' /\ RowsWritten'
        /\ \A row \in Row : RowState(row)' \in {RowState(row), "closed"}
    BY <1>1, <1>6, SettledRows
  <2>2. TypeOK'
    BY <1>1, <1>6, <2>1 DEF TypeOK
  <2>3. \A row \in Row : RowState(row)' = "absent" => RowState(row) = "absent"
    BY <2>1
  <2>4. NamesAreOwn' /\ ClosesAreDue' /\ NewPagesAreOwn'
    BY <1>2, <1>6, <2>1, <2>3
  <2> QED
    BY <2>1, <2>2, <2>4 DEF PInv
<1>7. CASE SettleTabs(r)
  <2> DEFINE rows == {tab.row : tab \in Vanished(recorded[r], listed[r])}
                     \cap {row \in Row : RowState(row) \in {"opening", "open", "closing"}}
  <2>1. rows \in SUBSET Row /\ \A row \in rows : RowState(row) # "absent"
    OBVIOUS
  <2>2. CloseRows(rows)
    BY <1>7 DEF SettleTabs
  <2> HIDE DEF rows
  <2> QED
    BY <1>1, <1>6, <1>7, <2>1, <2>2 DEF SettleTabs, TypeOK, Stage
<1>8. CASE Revoke(r)
  <2>1. PICK ended \in SUBSET Claim :
          /\ \A c \in ended : claimState[c] = "active"
          /\ claimState' = [c \in Claim |-> IF c \in ended THEN "revoked" ELSE claimState[c]]
          /\ left' = [c \in Claim |-> IF c \in ended THEN 0 ELSE left[c]]
    BY <1>8 DEF Revoke
  <2>2. UNCHANGED <<ttl, arrival, nextArrival, tabState, pageVars, workVars, recorded, listed, kept>>
    BY <1>8 DEF Revoke
  <2>3. stage' \in [Reconciler -> Stage]
    BY <1>1, <1>8 DEF Revoke, TypeOK, Stage
  <2>4. Lease!TypeOK'
    <3>1. 0 \in Lease!Lifetime
      BY PagesAssumption DEF Lease!Lifetime, PagesAssumption
    <3>2. "revoked" \in Lease!ClaimState
      BY DEF Lease!ClaimState, Lease!FinalClaim
    <3> QED
      BY <1>1, <2>1, <2>2, <3>1, <3>2 DEF TypeOK, Lease!TypeOK
  <2>5. \A row \in Row : RowState(row)' = RowState(row)
    BY <2>2 DEF RowState
  <2>6. TypeOK'
    BY <1>1, <2>2, <2>3, <2>4, <2>5 DEF TypeOK
  <2>7. RowsWritten'
    BY <1>1, <2>1, <2>2 DEF RowsWritten, Written
  <2>8. NamesAreOwn' /\ ClosesAreDue' /\ NewPagesAreOwn'
    BY <1>2, <2>2, <2>5
  <2> QED
    BY <2>6, <2>7, <2>8 DEF PInv
<1>9. CASE SettleStrandedTabs(r)
  <2> DEFINE rows == Stranded(listed[r])
  <2>1. rows \in SUBSET Row /\ \A row \in rows : RowState(row) # "absent"
    BY DEF Stranded
  <2>2. CloseRows(rows) /\ UNCHANGED <<claimState, left, ttl, arrival, nextArrival>>
    BY <1>9 DEF SettleStrandedTabs, SettleStranded
  <2>3. Unowned(recorded[r], listed[r]) \subseteq Page
    BY <1>1 DEF Unowned, TypeOK
  <2> HIDE DEF rows
  <2> QED
    BY <1>1, <1>6, <1>9, <2>1, <2>2, <2>3 DEF SettleStrandedTabs, TypeOK, Stage
<1>10. CASE CloseUnowned(r)
  BY <1>1, <1>3, <1>10 DEF CloseUnowned, TypeOK
<1>11. CASE EndReconcile(r)
  BY <1>1, <1>3, <1>11 DEF EndReconcile, TypeOK, Stage
<1> QED
  BY <1>4, <1>5, <1>7, <1>8, <1>9, <1>10, <1>11 DEF ReconcilerStep

-----------------------------------------------------------------------------
(* The invariant of every behaviour.                                       *)

\* Nobody owes anything before the first call.
LEMMA PagesInit == Init => PInv
<1> SUFFICES ASSUME Init PROVE PInv
  OBVIOUS
<1> USE PagesAssumption DEF Init, Lease!Init
<1>1. \A row \in Row : RowState(row) = "absent"
  BY DEF Row, RowState
<1>2. Lease!TypeOK
  BY DEF PagesAssumption, Lease!TypeOK, Lease!ClaimState, Lease!TabState, Lease!Lifetime
<1>3. Nothing \in News /\ Nothing.kind = "nothing"
  BY DEF Nothing, News
<1>4. TypeOK
  BY <1>1, <1>2, <1>3 DEF TypeOK, Stage
<1>5. RowsWritten
  BY DEF RowsWritten, Written, Lease!LiveTab
<1>6. NamesAreOwn /\ ClosesAreDue /\ NewPagesAreOwn
  BY <1>3 DEF NamesAreOwn, ClosesAreDue, NewPagesAreOwn
<1> QED
  BY <1>4, <1>5, <1>6 DEF PInv

\* The clock and a person who closes pages write no row and learn nothing.
LEMMA QuietPages ==
  ASSUME PInv, Tick \/ (\E p \in Page : ClosedByHand(p)) \/ UNCHANGED vars
  PROVE  PInv'
<1>1. TypeOK /\ RowsWritten /\ NamesAreOwn /\ ClosesAreDue /\ NewPagesAreOwn
  BY DEF PInv
<1>2. /\ UNCHANGED <<claimState, ttl, arrival, nextArrival, tabState>>
      /\ UNCHANGED <<driverTabId, minted, workVars, reconVars>>
      /\ opened' \subseteq opened
      /\ left' \in [Claim -> Lease!Lifetime]
  <2>1. CASE Tick
    <3>1. \A ticks \in Lease!Lifetime : Lease!Countdown(ticks) \in Lease!Lifetime
      BY PagesAssumption DEF PagesAssumption, Lease!Countdown, Lease!Lifetime
    <3> QED
      BY <1>1, <2>1, <3>1 DEF Tick, Lease!Tick, pageVars, TypeOK, Lease!TypeOK
  <2>2. ASSUME NEW p \in Page, ClosedByHand(p)
        PROVE  /\ UNCHANGED <<leaseVars, driverTabId, minted, workVars, reconVars>>
               /\ opened' \subseteq opened
    BY <2>2 DEF ClosedByHand
  <2> QED
    BY <1>1, <2>1, <2>2 DEF vars, leaseVars, pageVars, TypeOK, Lease!TypeOK
<1>3. Lease!TypeOK' /\ \A row \in Row : RowState(row)' = RowState(row)
  BY <1>1, <1>2 DEF TypeOK, Lease!TypeOK, RowState
<1>4. TypeOK'
  BY <1>1, <1>2, <1>3 DEF TypeOK, workVars, reconVars
<1>5. RowsWritten' /\ NamesAreOwn' /\ ClosesAreDue' /\ NewPagesAreOwn'
  BY <1>1, <1>2, <1>3
  DEF RowsWritten, Written, NamesAreOwn, ClosesAreDue, NewPagesAreOwn, TypeOK, workVars
<1> QED
  BY <1>4, <1>5 DEF PInv

\* No step of anybody breaks the invariant.
LEMMA PagesStep == PInv /\ [Next]_vars => PInv'
  BY CallStep, ContinueStep, CrashStep, ReconcilerKeeps, QuietPages DEF Next, WorkerStep

\* Every reachable state satisfies it.
THEOREM PagesInvariance == Spec => []PInv
  BY PagesInit, PagesStep, PTL DEF Spec

\* Every column has its type and a live row names a page exactly when it is no
\* longer `opening`, whatever processes die between two statements.
THEOREM PagesTypeCorrect == Spec => []TypeOK
<1>1. PInv => TypeOK
  BY DEF PInv
<1> QED
  BY <1>1, PagesInvariance, PTL

-----------------------------------------------------------------------------
(* What a step may never do.                                               *)

\* A row that names a page names it for good: only an unopened row is given one.
LEMMA NamedForGood ==
  ASSUME PInv, [Next]_vars
  PROVE  \A row \in Row : driverTabId[row] # NoPage => driverTabId'[row] = driverTabId[row]
<1> SUFFICES ASSUME NEW row \in Row, driverTabId[row] # NoPage
             PROVE  driverTabId'[row] = driverTabId[row]
  OBVIOUS
<1>1. ASSUME NEW w \in Worker, RecordOpened(w)
      PROVE  driverTabId'[row] = driverTabId[row]
  <2>1. PICK p \in news[w].pages : Name(news[w].row, p)
    BY <1>1 DEF RecordOpened
  <2>2. TypeOK /\ NewPagesAreOwn
    BY DEF PInv
  <2>3. news[w].row \in Row
    BY <1>1, <2>2 DEF RecordOpened, NewPagesAreOwn
  <2>4. CASE RowState(news[w].row) = "opening"
    <3>1. news[w].row # row
      BY <2>2, <2>4 DEF TypeOK
    <3> QED
      BY <2>1, <2>2, <2>4, <3>1 DEF Name, TypeOK
  <2>5. CASE RowState(news[w].row) # "opening"
    BY <2>1, <2>5 DEF Name
  <2> QED
    BY <2>4, <2>5
<1>2. ASSUME NEW w \in Worker, Call(w) \/ Crash(w) PROVE UNCHANGED driverTabId
  BY <1>2 DEF Call, Crash, Request, Status, PageCall, TabReplace, Release,
              ReleaseEnded, Schedule, pageVars
<1>3. ASSUME NEW w \in Worker, Continue(w), ~RecordOpened(w)
      PROVE  UNCHANGED driverTabId
  BY <1>3 DEF Continue, AskClose, CloseFails, RecordClosed, ListPages, SkipDrain,
              Drain, Shut, Open, OpenFails, pageVars
<1>4. ASSUME NEW r \in Reconciler, ReconcilerStep(r) PROVE UNCHANGED driverTabId
  BY <1>4 DEF ReconcilerStep, ReadRecordedTabs, ListTabs, SettleTabs, Revoke,
              SettleStrandedTabs, CloseUnowned, EndReconcile, pageVars
<1>5. ASSUME Tick \/ (\E p \in Page : ClosedByHand(p)) \/ UNCHANGED vars
      PROVE  UNCHANGED driverTabId
  BY <1>5 DEF Tick, ClosedByHand, vars, pageVars
<1> QED
  BY <1>1, <1>2, <1>3, <1>4, <1>5 DEF Next, WorkerStep

\* However many processes open a page for one row, one of the pages is named by
\* it, the others by nothing, and no name is ever written over.
THEOREM RowsNameOnePage == Spec => OneRowPerPage
<1> DEFINE A == /\ \A row, other \in Row :
                     row # other /\ driverTabId[row] # NoPage
                       => driverTabId'[row] # driverTabId'[other]
                /\ \A row \in Row :
                     driverTabId[row] # NoPage => driverTabId'[row] = driverTabId[row]
<1>1. PInv /\ [Next]_vars => A
  <2> SUFFICES ASSUME PInv, [Next]_vars PROVE A
    OBVIOUS
  <2>1. NamesAreOwn'
    BY PagesStep DEF PInv
  <2>2. \A row \in Row : driverTabId[row] # NoPage => driverTabId'[row] = driverTabId[row]
    BY NamedForGood
  <2> QED
    BY <2>1, <2>2 DEF NamesAreOwn
<1> QED
  BY <1>1, PagesInvariance, PTL DEF Spec, OneRowPerPage

\* No call's late work closes the page of a lease that is active by then: what
\* it may still close was given up before, and the page has no other row.
THEOREM LateClosesSpareOwned == Spec => CallsSpareOwnedPages
<1> DEFINE A == (\E w \in Worker : WorkerStep(w))
                  => \A row \in Row :
                       Owned(row)' /\ driverTabId[row] \in opened => driverTabId[row] \in opened'
<1>1. PInv /\ [Next]_vars => A
  <2> SUFFICES ASSUME PInv, NEW w \in Worker, WorkerStep(w), NEW row \in Row,
                      Owned(row)', driverTabId[row] \in opened
               PROVE  driverTabId[row] \in opened'
    OBVIOUS
  <2>1. TypeOK /\ NamesAreOwn /\ ClosesAreDue
    BY DEF PInv
  <2>2. opened \subseteq Page /\ NoPage \notin Page
    BY <2>1, PagesAssumption DEF TypeOK, PagesAssumption
  <2>3. ASSUME NEW given \in Row, AskClose(w, given) PROVE driverTabId[row] \in opened'
    <3>1. RowState(given) \in GivenUpRow /\ RowState(row) = "open"
      BY <2>1, <2>3 DEF AskClose, leaseVars, ClosesAreDue, Owned, RowState
    <3>2. given # row
      BY <3>1 DEF GivenUpRow
    <3>3. driverTabId[given] # driverTabId[row]
      BY <2>1, <2>2, <3>2 DEF NamesAreOwn
    <3> QED
      BY <2>3, <3>3 DEF AskClose
  <2>4. CASE Shut(w)
    <3>1. RowState(row) = "open"
      BY <2>4 DEF Shut, leaseVars, Owned, RowState
    <3>2. driverTabId[row] # toShut[w]
      BY <2>1, <2>2, <3>1 DEF ClosesAreDue, GivenUpRow
    <3> QED
      BY <2>4, <3>2 DEF Shut
  <2>5. CASE Call(w) \/ Crash(w)
    BY <2>5 DEF Call, Crash, Request, Status, PageCall, TabReplace, Release,
                ReleaseEnded, Schedule, pageVars
  <2>6. CASE Continue(w) /\ ~Shut(w) /\ ~(\E given \in Row : AskClose(w, given))
    BY <2>6 DEF Continue, CloseFails, RecordClosed, ListPages, SkipDrain,
                Drain, Open, OpenFails, RecordOpened, pageVars
  <2> QED
    BY <2>3, <2>4, <2>5, <2>6 DEF WorkerStep
<1> QED
  BY <1>1, PagesInvariance, PTL DEF Spec, CallsSpareOwnedPages

\* A lease that has ended keeps the state it ended in and a closed row stays
\* closed, though answers arrive late and reconcile acts on an old reading.
THEOREM PageEndsAreFinal == Spec => EndedStaysEnded
<1> DEFINE A == \A c \in Claim :
                  /\ claimState[c] \in Lease!FinalClaim => claimState'[c] = claimState[c]
                  /\ \A n \in Lease!TabNo :
                       tabState[c][n] = "closed" => tabState'[c][n] = "closed"
<1>1. PInv /\ [Next]_vars => A
  <2> SUFFICES ASSUME PInv, [Next]_vars PROVE A
    OBVIOUS
  <2>1. TypeOK /\ Lease!TypeOK /\ RowsWritten
    BY DEF PInv, TypeOK
  <2>2. ASSUME NEW w \in Worker, Call(w) PROVE A
    <3>1. \A d \in Claim : Progress(d)
      BY <2>1, <2>2, CallOwes
    <3> QED
      BY <3>1 DEF Progress, Moves
  <2>3. ASSUME UNCHANGED claimState, NEW rows \in SUBSET Row, CloseRows(rows) PROVE A
    <3>1. \A row \in Row : RowState(row)' \in {RowState(row), "closed"}
      BY <2>3, ClosingRows
    <3> QED
      BY <2>3, <3>1, RowsAreNumbered DEF RowState
  <2>4. ASSUME NEW w \in Worker, RecordClosed(w) \/ RecordOpened(w) PROVE A
    <3>1. UNCHANGED leaseVars \/ \E c \in Claim, n \in Lease!TabNo :
            Lease!PageOpened(c, n) \/ Lease!PageClosed(c, n)
      <4>1. news[w].row \in Row
        BY <2>4 DEF PInv, NewPagesAreOwn, RecordClosed, RecordOpened
      <4> QED
        BY <2>4, <4>1, RowsAreNumbered DEF RecordClosed, RecordOpened, Name
    <3> QED
      BY <2>1, <3>1 DEF leaseVars, Lease!PageOpened, Lease!PageClosed, Lease!TypeOK
  <2>5. ASSUME NEW w \in Worker, Drain(w) PROVE A
    <3>1. Stranded(news[w].pages) \in SUBSET Row
      BY DEF Stranded
    <3> QED
      BY <2>3, <2>5, <3>1 DEF Drain, SettleStranded
  <2>6. ASSUME NEW w \in Worker, Continue(w) \/ Crash(w),
               ~RecordClosed(w), ~RecordOpened(w), ~Drain(w)
        PROVE  A
    BY <2>6 DEF Continue, Crash, AskClose, CloseFails, ListPages, SkipDrain, Shut, Open,
                OpenFails, leaseVars
  <2>7. ASSUME NEW r \in Reconciler, SettleTabs(r) \/ SettleStrandedTabs(r) PROVE A
    <3>1. CASE SettleTabs(r)
      <4> DEFINE rows == {tab.row : tab \in Vanished(recorded[r], listed[r])}
                         \cap {row \in Row : RowState(row) \in {"opening", "open", "closing"}}
      <4>1. rows \in SUBSET Row /\ CloseRows(rows) /\ UNCHANGED claimState
        BY <3>1 DEF SettleTabs
      <4> QED
        BY <2>3, <4>1
    <3>2. CASE SettleStrandedTabs(r)
      <4>1. Stranded(listed[r]) \in SUBSET Row
        BY DEF Stranded
      <4> QED
        BY <2>3, <3>2, <4>1 DEF SettleStrandedTabs, SettleStranded
    <3> QED
      BY <2>7, <3>1, <3>2
  <2>8. ASSUME NEW r \in Reconciler, Revoke(r) PROVE A
    BY <2>8 DEF Revoke, Lease!FinalClaim
  <2>9. ASSUME NEW r \in Reconciler, ReconcilerStep(r),
               ~SettleTabs(r), ~SettleStrandedTabs(r), ~Revoke(r)
        PROVE  A
    BY <2>9 DEF ReconcilerStep, ReadRecordedTabs, ListTabs, CloseUnowned, EndReconcile,
                leaseVars
  <2>10. ASSUME Tick \/ (\E p \in Page : ClosedByHand(p)) \/ UNCHANGED vars PROVE A
    BY <2>10 DEF Tick, Lease!Tick, ClosedByHand, vars, leaseVars
  <2> HIDE DEF A
  <2> QED
    BY <2>2, <2>4, <2>5, <2>6, <2>7, <2>8, <2>9, <2>10 DEF Next, WorkerStep
<1>2. A => [A]_(Lease!vars)
  OBVIOUS
<1> QED
  BY <1>1, PagesInvariance, PTL DEF Spec, EndedStaysEnded, Lease!EndedStaysEnded

-----------------------------------------------------------------------------
(* What reconcile knows of a page it found missing.                        *)

\* Until its leases are ended, a run that finds a recorded page missing from the
\* listing is right, unless it is the page its session keeps: the row names that
\* page still, and nobody opens it again.
MissingIsGone ==
  \A r \in Reconciler : \A tab \in recorded[r] :
    tab.page # NoPage =>
      /\ driverTabId[tab.row] = tab.page
      /\ stage[r] \in {"settle", "revoke", "strand"} /\ tab.page \notin listed[r]
           => tab.page \notin opened \/ tab.page = kept[r]

\* A page that is gone stays gone, and a run reads its rows before it asks for
\* the pages.
LEMMA MissingStaysGone ==
  ASSUME PInv, MissingIsGone, [Next]_vars
  PROVE  MissingIsGone'
<1>1. TypeOK /\ NamesAreOwn
  BY DEF PInv
<1>2. \A row \in Row : driverTabId[row] # NoPage => driverTabId'[row] = driverTabId[row]
  BY NamedForGood
<1>3. ASSUME UNCHANGED <<stage, recorded, listed, kept>>, opened' \cap minted \subseteq opened
      PROVE  MissingIsGone'
  BY <1>1, <1>2, <1>3 DEF MissingIsGone, NamesAreOwn, TypeOK
<1>4. ASSUME NEW w \in Worker, WorkerStep(w) PROVE MissingIsGone'
  BY <1>1, <1>3, <1>4
  DEF WorkerStep, Call, Continue, Crash, Request, Status, PageCall, TabReplace, Release,
      ReleaseEnded, Schedule, AskClose, CloseFails, RecordClosed, ListPages, SkipDrain,
      Drain, Shut, Open, OpenFails, RecordOpened, pageVars, reconVars
<1>5. ASSUME Tick \/ (\E p \in Page : ClosedByHand(p)) \/ UNCHANGED vars
      PROVE  MissingIsGone'
  BY <1>3, <1>5 DEF Tick, ClosedByHand, vars, pageVars, reconVars
<1>6. ASSUME NEW r \in Reconciler, ReconcilerStep(r) PROVE MissingIsGone'
  <2>1. UNCHANGED driverTabId /\ opened' \subseteq opened
    BY <1>6 DEF ReconcilerStep, ReadRecordedTabs, ListTabs, SettleTabs, Revoke,
                SettleStrandedTabs, CloseUnowned, EndReconcile, pageVars
  <2>2. \A q \in Reconciler \ {r} :
          /\ stage'[q] = stage[q] /\ recorded'[q] = recorded[q]
          /\ listed'[q] = listed[q] /\ kept'[q] = kept[q]
    BY <1>1, <1>6 DEF ReconcilerStep, ReadRecordedTabs, ListTabs, SettleTabs, Revoke,
                SettleStrandedTabs, CloseUnowned, EndReconcile, TypeOK
  <2> DEFINE Gone(q) == \A tab \in recorded[q] :
               tab.page # NoPage =>
                 /\ driverTabId[tab.row] = tab.page
                 /\ stage[q] \in {"settle", "revoke", "strand"} /\ tab.page \notin listed[q]
                      => tab.page \notin opened \/ tab.page = kept[q]
  <2>3. \A q \in Reconciler \ {r} : Gone(q)'
    BY <1>1, <2>1, <2>2 DEF MissingIsGone
  <2>4. Gone(r)'
    <3>1. CASE ReadRecordedTabs(r)
      BY <1>1, <2>1, <3>1 DEF ReadRecordedTabs, TypeOK
    <3>2. CASE ListTabs(r)
      <4>1. PICK keeper \in MayBeKeeper :
              /\ kept' = [kept EXCEPT ![r] = keeper]
              /\ listed' = [listed EXCEPT ![r] = Listing(keeper)]
        BY <3>2 DEF ListTabs
      <4>2. kept'[r] = keeper /\ listed'[r] = opened \ {keeper}
        BY <1>1, <4>1 DEF TypeOK, Listing
      <4>3. \A tab \in recorded'[r] :
              tab \in recorded[r] /\ (tab.page # NoPage => driverTabId'[tab.row] = tab.page)
        BY <2>1, <3>2 DEF ListTabs, MissingIsGone
      <4> QED
        BY <2>1, <4>2, <4>3
    <3>3. CASE SettleTabs(r) \/ Revoke(r)
      BY <1>1, <2>1, <3>3 DEF SettleTabs, Revoke, MissingIsGone, TypeOK
    <3>4. CASE SettleStrandedTabs(r) \/ EndReconcile(r)
      BY <1>1, <3>4 DEF SettleStrandedTabs, EndReconcile, TypeOK
    <3>5. CASE CloseUnowned(r)
      BY <1>1, <2>1, <3>5 DEF CloseUnowned, MissingIsGone, TypeOK
    <3> QED
      BY <1>6, <3>1, <3>2, <3>3, <3>4, <3>5 DEF ReconcilerStep
  <2> QED
    BY <2>3, <2>4 DEF MissingIsGone
<1> QED
  BY <1>4, <1>5, <1>6 DEF Next

\* Reconcile ends no lease but one that owns a row whose page is gone when it
\* does, or is the keeper of the run, though it acts on what it read two steps
\* before.
THEOREM RevocationsAreDue == Spec => RevokedForAPageNotSeen
<1> DEFINE NotSeen(c) ==
             \E n \in Lease!TabNo :
               /\ driverTabId[<<c, n>>] \in minted
               /\ \/ driverTabId[<<c, n>>] \notin opened
                  \/ \E r \in Reconciler :
                       stage[r] = "revoke" /\ kept[r] = driverTabId[<<c, n>>]
           A == \A c \in Claim :
                  claimState[c] = "active" /\ claimState'[c] = "revoked" => NotSeen(c)
<1>1. PInv /\ MissingIsGone /\ [Next]_vars => A
  <2> SUFFICES ASSUME PInv, MissingIsGone, [Next]_vars, NEW c \in Claim,
                      claimState[c] = "active", claimState'[c] = "revoked"
               PROVE  NotSeen(c)
    OBVIOUS
  <2>1. TypeOK /\ Lease!TypeOK /\ NamesAreOwn
    BY DEF PInv, TypeOK
  <2>2. \A w \in Worker : ~Call(w)
    <3> SUFFICES ASSUME NEW w \in Worker, Call(w) PROVE FALSE
      OBVIOUS
    <3>1. PICK d \in Claim :
            \/ Lease!Request(d) \/ Lease!Status(d) \/ Lease!Release(d)
            \/ Lease!ReleaseEnded(d) \/ \E n \in Lease!TabNo : Lease!TabReplace(d, n)
      BY DEF Call, Request, Status, PageCall, TabReplace, Release, ReleaseEnded,
             Lease!PageCall
    <3>2. Lease!Swept[c] # "revoked"
      BY <2>1, SweepLeaves
    <3>3. claimState'[c] # "revoked"
      BY <2>1, <3>1, <3>2, SweepLeaves
      DEF Lease!Request, Lease!Status, Lease!Release, Lease!ReleaseEnded, Lease!TabReplace
    <3> QED
      BY <3>3
  <2>3. PICK r \in Reconciler : Revoke(r)
    BY <2>2
    DEF Next, WorkerStep, Continue, Crash, AskClose, CloseFails, RecordClosed, ListPages,
        SkipDrain, Drain, SettleStranded, Shut, Open, OpenFails, RecordOpened, Name,
        ReconcilerStep, ReadRecordedTabs, ListTabs, SettleTabs, SettleStrandedTabs,
        CloseUnowned, EndReconcile, Tick, Lease!Tick, ClosedByHand, vars, leaseVars,
        Lease!PageOpened, Lease!PageClosed
  <2>4. stage[r] = "revoke" /\
        \E tab \in Vanished(recorded[r], listed[r]) : tab.row[1] = c
    BY <2>1, <2>3 DEF Revoke
  <2>5. PICK tab \in recorded[r] : /\ tab.row[1] = c /\ tab.page # NoPage
                                  /\ tab.page \notin listed[r]
    BY <2>4 DEF Vanished
  <2>6. tab.row \in Row /\ tab.row = <<c, tab.row[2]>> /\ tab.row[2] \in Lease!TabNo
    BY <2>1, <2>5, RowsAreNumbered DEF TypeOK
  <2>7. /\ driverTabId[tab.row] = tab.page
        /\ tab.page \notin opened \/ tab.page = kept[r]
    BY <2>4, <2>5 DEF MissingIsGone
  <2>8. tab.page \in minted
    BY <2>1, <2>5, <2>6, <2>7 DEF NamesAreOwn
  <2> QED
    BY <2>4, <2>6, <2>7, <2>8
<1>2. Init => MissingIsGone
  BY DEF Init, MissingIsGone
<1>3. Spec => []MissingIsGone
  BY <1>2, PagesInvariance, MissingStaysGone, PTL DEF Spec
<1> QED
  BY <1>1, <1>3, PagesInvariance, PTL DEF Spec, RevokedForAPageNotSeen

-----------------------------------------------------------------------------
(* What a row is closed for.                                               *)

\* A worker that was told a page is closed is right: it closed it itself.
ClosedIsGone ==
  \A w \in Worker :
    news[w].kind = "closed" => driverTabId[news[w].row] \in minted \ opened

\* The page of a row it is told of was closed once, and no page opens twice.
LEMMA ClosedStaysGone ==
  ASSUME PInv, ClosedIsGone, [Next]_vars
  PROVE  ClosedIsGone'
<1>1. TypeOK /\ NewPagesAreOwn
  BY DEF PInv
<1>2. \A row \in Row : driverTabId[row] # NoPage => driverTabId'[row] = driverTabId[row]
  BY NamedForGood
<1>3. ASSUME minted \subseteq minted', opened' \cap minted \subseteq opened,
             NEW v \in Worker, news'[v] = news[v] \/ news'[v].kind # "closed",
             news'[v].kind = "closed"
      PROVE  driverTabId'[news'[v].row] \in minted' \ opened'
  <2>1. news[v].row \in Row /\ driverTabId[news[v].row] \in minted \ opened
    BY <1>1, <1>3 DEF ClosedIsGone, NewPagesAreOwn
  <2>2. driverTabId'[news[v].row] = driverTabId[news[v].row]
    BY <1>1, <1>2, <2>1, PagesAssumption DEF TypeOK, PagesAssumption
  <2> QED
    BY <1>3, <2>1, <2>2
<1>4. ASSUME UNCHANGED news, minted \subseteq minted', opened' \cap minted \subseteq opened
      PROVE  ClosedIsGone'
  BY <1>3, <1>4 DEF ClosedIsGone
<1>5. ASSUME NEW w \in Worker, NEW row \in Row, AskClose(w, row) PROVE ClosedIsGone'
  <2>1. /\ news'[w] = [kind |-> "closed", row |-> row, pages |-> {}]
        /\ \A v \in Worker \ {w} : news'[v] = news[v]
        /\ UNCHANGED <<driverTabId, minted>>
        /\ opened' = opened \ {driverTabId[row]} /\ driverTabId[row] \in opened
    BY <1>1, <1>5 DEF AskClose, Learn, TypeOK
  <2>2. driverTabId'[news'[w].row] \in minted' \ opened'
    BY <1>1, <2>1 DEF TypeOK
  <2> QED
    BY <1>3, <2>1, <2>2 DEF ClosedIsGone
<1>6. ASSUME NEW w \in Worker, Continue(w) \/ Crash(w), ~ \E row \in Row : AskClose(w, row)
      PROVE  ClosedIsGone'
  <2>1. minted \subseteq minted' /\ opened' \cap minted \subseteq opened
    BY <1>6
    DEF Continue, Crash, CloseFails, RecordClosed, ListPages, SkipDrain, Drain, Shut, Open,
        OpenFails, RecordOpened, pageVars
  <2>2. /\ \A v \in Worker \ {w} : news'[v] = news[v]
        /\ news'[w] = news[w] \/ news'[w].kind # "closed"
    BY <1>1, <1>6
    DEF Continue, Crash, CloseFails, RecordClosed, ListPages, SkipDrain, Drain, Shut, Open,
        OpenFails, RecordOpened, Learn, Nothing, TypeOK
  <2> QED
    BY <1>3, <2>1, <2>2 DEF ClosedIsGone
<1>7. ASSUME NEW w \in Worker, Call(w) PROVE ClosedIsGone'
  BY <1>4, <1>7
  DEF Call, Request, Status, PageCall, TabReplace, Release, ReleaseEnded, Schedule, pageVars
<1>8. ASSUME \/ \E r \in Reconciler : ReconcilerStep(r)
             \/ Tick \/ (\E p \in Page : ClosedByHand(p)) \/ UNCHANGED vars
      PROVE  ClosedIsGone'
  BY <1>4, <1>8
  DEF ReconcilerStep, ReadRecordedTabs, ListTabs, SettleTabs, Revoke, SettleStrandedTabs,
      CloseUnowned, EndReconcile, Tick, ClosedByHand, vars, pageVars, workVars
<1> QED
  BY <1>5, <1>6, <1>7, <1>8 DEF Next, WorkerStep

\* A row whose page is open is closed only by whoever holds a listing without
\* that page: a worker that drains, reconcile settling what was stranded, or
\* reconcile whose session took the page for its keeper.
THEOREM ClosesHaveEvidence == Spec => ClosedOnEvidence
<1> DEFINE Evidence(row) ==
             \/ \E w \in Worker :
                  news[w].kind = "listed" /\ driverTabId[row] \notin news[w].pages
             \/ \E r \in Reconciler :
                  stage[r] = "strand" /\ driverTabId[row] \notin listed[r]
             \/ \E r \in Reconciler :
                  stage[r] = "settle" /\ driverTabId[row] = kept[r]
           A == \A row \in Row :
                  /\ RowState(row) \in {"open", "closing"} /\ RowState(row)' = "closed"
                  /\ driverTabId[row] \in opened
                  => Evidence(row)
<1>1. PInv /\ MissingIsGone /\ ClosedIsGone /\ [Next]_vars => A
  <2> SUFFICES ASSUME PInv, MissingIsGone, ClosedIsGone, [Next]_vars, NEW row \in Row,
                      RowState(row) \in {"open", "closing"}, RowState(row)' = "closed",
                      driverTabId[row] \in opened
               PROVE  Evidence(row)
    OBVIOUS
  <2>1. TypeOK /\ Lease!TypeOK /\ RowsWritten /\ NewPagesAreOwn
    BY DEF PInv, TypeOK
  <2>2. ~ UNCHANGED leaseVars
    BY DEF leaseVars, RowState
  <2>3. \A w \in Worker : ~Call(w)
    <3> SUFFICES ASSUME NEW w \in Worker, Call(w) PROVE FALSE
      OBVIOUS
    <3>1. Moves(RowState(row), RowState(row)')
      BY <2>1, CallOwes, CallRows
    <3> QED
      BY <3>1 DEF Moves
  <2>4. \A w \in Worker : ~RecordClosed(w)
    <3> SUFFICES ASSUME NEW w \in Worker, RecordClosed(w) PROVE FALSE
      OBVIOUS
    <3>1. news[w].row \in Row /\ news[w].row # row
      BY <2>1 DEF RecordClosed, ClosedIsGone, NewPagesAreOwn
    <3>2. tabState' = [tabState EXCEPT ![news[w].row[1]][news[w].row[2]] = "closed"]
      BY <2>2 DEF RecordClosed, Lease!PageClosed
    <3> QED
      BY <2>1, <3>1, <3>2, RowsAreNumbered DEF RowState, Lease!TypeOK
  <2>5. \A w \in Worker : ~RecordOpened(w)
    <3> SUFFICES ASSUME NEW w \in Worker, RecordOpened(w) PROVE FALSE
      OBVIOUS
    <3>1. news[w].row \in Row
      BY <2>1 DEF RecordOpened, NewPagesAreOwn
    <3>2. tabState' = [tabState EXCEPT ![news[w].row[1]][news[w].row[2]] = "open"]
      BY <2>2 DEF RecordOpened, Name, Lease!PageOpened
    <3> QED
      BY <2>1, <3>1, <3>2, RowsAreNumbered DEF RowState, Lease!TypeOK
  <2>6. ASSUME NEW pages, SettleStranded(pages) PROVE driverTabId[row] \notin pages
    <3>1. Stranded(pages) \in SUBSET Row /\ CloseRows(Stranded(pages))
      BY <2>6 DEF Stranded, SettleStranded
    <3>2. row \in Stranded(pages)
      BY <3>1, ClosingRows
    <3> QED
      BY <3>2 DEF Stranded
  <2>7. ASSUME NEW r \in Reconciler, SettleTabs(r)
        PROVE  stage[r] = "settle" /\ driverTabId[row] = kept[r]
    <3> DEFINE rows == {tab.row : tab \in Vanished(recorded[r], listed[r])}
                       \cap {other \in Row : RowState(other) \in {"opening", "open", "closing"}}
    <3>1. rows \in SUBSET Row /\ CloseRows(rows) /\ stage[r] = "settle"
      BY <2>7 DEF SettleTabs
    <3>2. row \in rows
      <4> HIDE DEF rows
      <4> QED
        BY <3>1, ClosingRows
    <3>3. PICK tab \in recorded[r] :
            tab.row = row /\ tab.page # NoPage /\ tab.page \notin listed[r]
      BY <3>2 DEF Vanished
    <3> QED
      BY <3>1, <3>3 DEF MissingIsGone
  <2>8. ASSUME NEW w \in Worker, Continue(w)
        PROVE  Drain(w)
    BY <2>2, <2>4, <2>5, <2>8
    DEF Continue, AskClose, CloseFails, ListPages, SkipDrain, Shut, Open, OpenFails
  <2>9. ASSUME NEW r \in Reconciler, ReconcilerStep(r)
        PROVE  SettleStrandedTabs(r) \/ SettleTabs(r)
    <3>1. ~Revoke(r)
      BY DEF Revoke, RowState
    <3> QED
      BY <2>2, <2>9, <3>1
      DEF ReconcilerStep, ReadRecordedTabs, ListTabs, CloseUnowned, EndReconcile
  <2>10. ~Tick /\ ~(\E p \in Page : ClosedByHand(p)) /\ ~(\E w \in Worker : Crash(w))
         /\ ~ UNCHANGED vars
    BY <2>2 DEF Tick, Lease!Tick, ClosedByHand, Crash, vars, RowState
  <2>11. \/ \E w \in Worker : Drain(w)
         \/ \E r \in Reconciler : SettleStrandedTabs(r) \/ SettleTabs(r)
    BY <2>3, <2>8, <2>9, <2>10 DEF Next, WorkerStep
  <2>12. ASSUME NEW w \in Worker, Drain(w)
         PROVE  news[w].kind = "listed" /\ driverTabId[row] \notin news[w].pages
    BY <2>6, <2>12 DEF Drain
  <2>13. ASSUME NEW r \in Reconciler, SettleStrandedTabs(r)
         PROVE  stage[r] = "strand" /\ driverTabId[row] \notin listed[r]
    BY <2>6, <2>13 DEF SettleStrandedTabs
  <2> QED
    BY <2>7, <2>11, <2>12, <2>13
<1>2. Spec => []MissingIsGone
  <2>1. Init => MissingIsGone
    BY DEF Init, MissingIsGone
  <2> QED
    BY <2>1, PagesInvariance, MissingStaysGone, PTL DEF Spec
<1>3. Spec => []ClosedIsGone
  <2>1. Init => ClosedIsGone
    BY DEF Init, ClosedIsGone, Nothing
  <2> QED
    BY <2>1, PagesInvariance, ClosedStaysGone, PTL DEF Spec
<1> QED
  BY <1>1, <1>2, <1>3, PagesInvariance, PTL DEF Spec, ClosedOnEvidence
=============================================================================
