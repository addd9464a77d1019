------------------------------- MODULE Session -------------------------------
(***************************************************************************)
(* The sessions processes hold over one running browser (browser/real.ts). *)
(* Each attaches over a connection of its own, keeps its own idea of which *)
(* page is the keeper, of the pages it has met, of the answer the next     *)
(* dialog gets and of the names it gave to elements; none is told what the *)
(* others do, and a person works in the same browser.                      *)
(*                                                                         *)
(* What a snapshot, a picture or a log says is left out, but for the names *)
(* (`references') a snapshot gives to elements.                            *)
(***************************************************************************)
EXTENDS Integers, FiniteSets

CONSTANTS
  Conn,       \* connections, each of a process of its own
  Page,       \* the browser's names of pages
  Size,       \* a document has elements 1 .. Size when it is loaded
  MaxLoaded,  \* bounds the pages that are not blank at a time
  MaxArms,    \* bounds the answers ordered for a page and not yet given
  MaxEvents,  \* bounds the events a connection has waiting of a page
  None

VARIABLES
  opened,     \* the pages open in the browser
  blank,      \* those at about:blank
  tree,       \* tree[p]: the elements of p's document, in document order
  attached,   \* the connections that are up
  keeper,     \* keeper[c]: the page c takes for the keeper
  opening,    \* opening[c]: c found no keeper and is about to open one
  held,       \* held[c]: the pages c keeps under their names (#pages)
  armed,      \* armed[c]: the pages whose next dialog c accepts (#dialogs)
  asked,      \* asked[c][p]: the events of p's dialogs c has still to handle
  unanswered, \* the pages whose dialog is up
  unspent,    \* unspent[p]: `accept's ordered for p less those given (a history)
  referenced, \* referenced[c]: the pages c took a snapshot of to look a name up
  names,      \* names[c][p][e]: the number in c's name for element e of p, or 0
  told        \* the last snapshot handed to the callers (a history)

ASSUME SessionAssumption ==
  /\ None \notin Page \cup Conn
  /\ {Size, MaxLoaded, MaxArms, MaxEvents} \subseteq Nat
  /\ IsFiniteSet(Conn)

browserVars == <<opened, blank, tree>>
sessionVars == <<attached, keeper, opening, held>>
dialogVars  == <<armed, asked, unanswered, unspent>>
refVars     == <<referenced, names, told>>
vars == <<browserVars, sessionVars, dialogVars, refVars>>

Elements == 1 .. Size

Nameless == [e \in Elements |-> 0]

\* A function of connections and pages with its values at p put back to v.
Without(f, p, v) == [c \in Conn |-> [f[c] EXCEPT ![p] = v]]

\* Is the last snapshot one of this page?
ToldOf(p) == told # None /\ told.page = p

Meet(c, pages) == held' = [held EXCEPT ![c] = @ \cup pages]

-----------------------------------------------------------------------------
(* Attaching, and the keeper.                                              *)

KeeperIsUp(c) == keeper[c] \in opened

\* ensureKeeperTab: a keeper that is up stays; otherwise any blank page will
\* do, and only if there is none is one opened, after a round trip in which
\* another process may do the same.
EnsureKeeper(c) ==
  \/ /\ KeeperIsUp(c)
     /\ UNCHANGED <<keeper, opening>>
  \/ /\ ~KeeperIsUp(c)
     /\ \E p \in opened \cap blank : keeper' = [keeper EXCEPT ![c] = p]
     /\ UNCHANGED opening
  \/ /\ ~KeeperIsUp(c) /\ opened \cap blank = {}
     /\ opening' = [opening EXCEPT ![c] = TRUE]
     /\ UNCHANGED keeper

NewPage(p) ==
  /\ p \notin opened
  /\ opened' = opened \cup {p}
  /\ blank' = blank \cup {p}
  /\ UNCHANGED tree

Attach(c) ==
  /\ c \notin attached
  /\ attached' = attached \cup {c}
  /\ EnsureKeeper(c)
  /\ UNCHANGED <<browserVars, held, dialogVars, refVars>>

OpenKeeper(c, p) ==
  /\ opening[c]
  /\ NewPage(p)
  /\ keeper' = [keeper EXCEPT ![c] = p]
  /\ opening' = [opening EXCEPT ![c] = FALSE]
  /\ UNCHANGED <<attached, held, dialogVars, refVars>>

Ready(c) == c \in attached /\ ~opening[c]

\* openTab looks after the keeper and then opens the page.  Having to open a
\* keeper first is a step of its own, after which this is tried again.
OpenTab(c, p) ==
  /\ Ready(c)
  /\ EnsureKeeper(c)
  /\ IF opening'[c] THEN p \notin opened /\ UNCHANGED <<browserVars, held>>
                    ELSE NewPage(p) /\ Meet(c, {p})
  /\ UNCHANGED <<attached, dialogVars, refVars>>

\* The process ends, or lets go of the browser: nothing it knew is left.
Detach(c) ==
  /\ c \in attached
  /\ attached' = attached \ {c}
  /\ keeper' = [keeper EXCEPT ![c] = None]
  /\ opening' = [opening EXCEPT ![c] = FALSE]
  /\ held' = [held EXCEPT ![c] = {}]
  /\ armed' = [armed EXCEPT ![c] = {}]
  /\ asked' = [asked EXCEPT ![c] = [p \in Page |-> 0]]
  /\ referenced' = [referenced EXCEPT ![c] = {}]
  /\ names' = [names EXCEPT ![c] = [p \in Page |-> Nameless]]
  /\ told' = IF told # None /\ told.by = c THEN [told EXCEPT !.by = None] ELSE told
  /\ UNCHANGED <<browserVars, unanswered, unspent>>

\* listTabs answers with every page but this session's keeper, and meets them.
ListTabs(c) ==
  /\ Ready(c)
  /\ Meet(c, opened \ {keeper[c]})
  /\ UNCHANGED <<browserVars, attached, keeper, opening, dialogVars, refVars>>

-----------------------------------------------------------------------------
(* Finding a page, and closing it.                                         *)

\* #page and #adopt: one it holds, or one the browser has, its keeper never.
Found(c, p) == p \in opened /\ (p \in held[c] \/ p # keeper[c])

\* With a page go its dialog and all that is kept for it: what sessions still
\* have under its name answers nothing.
PageGone(p) ==
  /\ opened' = opened \ {p}
  /\ blank' = blank \ {p}
  /\ tree' = [tree EXCEPT ![p] = {}]
  /\ keeper' = [c \in Conn |-> IF keeper[c] = p THEN None ELSE keeper[c]]
  /\ held' = [c \in Conn |-> held[c] \ {p}]
  /\ referenced' = [c \in Conn |-> referenced[c] \ {p}]
  /\ armed' = [c \in Conn |-> armed[c] \ {p}]
  /\ asked' = Without(asked, p, 0)
  /\ unanswered' = unanswered \ {p}
  /\ unspent' = [unspent EXCEPT ![p] = 0]
  /\ names' = Without(names, p, Nameless)
  /\ told' = IF ToldOf(p) THEN None ELSE told

\* A page it holds is closed.  One it has to look for is closed unless it is
\* blank, for then it may be a keeper.  The keeper's own name is refused too,
\* and a page that is not there is not found; neither changes anything.
CloseTab(c, p) ==
  /\ Ready(c) /\ Found(c, p)
  /\ p \in held[c] \/ p \notin blank
  /\ PageGone(p)
  /\ UNCHANGED <<attached, opening>>

-----------------------------------------------------------------------------
(* References.  A document's elements are met in document order; an        *)
(* element a connection has named keeps that name in it for as long as it  *)
(* is there, which is how the automation library numbers them.             *)

WithName(known) == {e \in Elements : known[e] # 0}

\* What a snapshot makes of the names a connection has: new elements get the
\* next numbers.
Named(known, elements) ==
  LET new == elements \ WithName(known)
  IN [e \in Elements |->
        IF e \in new THEN Cardinality(WithName(known)) + Cardinality({x \in new : x <= e})
                     ELSE known[e]]

\* Does the page still have the element a name stands for?
Resolves(known, n, elements) == \E e \in elements : known[e] = n

NamesAsTheyStand(c, p) == names[c][p]

\* #locate: the first time it is asked about a page it takes a snapshot, so
\* that it knows some names at all.
Locate(c, p) ==
  IF p \in referenced[c] THEN names[c][p] ELSE Named(names[c][p], tree[p])

\* What acting by a name would act on.
Hit(c, p, n) ==
  IF Resolves(Locate(c, p), n, tree[p])
  THEN CHOOSE e \in tree[p] : Locate(c, p)[e] = n
  ELSE None

\* A snapshot is handed to the callers.  Is it the first of its connection, and
\* the page as it was then?  Has another document been loaded since?
Telling(c, p, known, fresh) ==
  [by |-> c, page |-> p, names |-> known, fresh |-> fresh, loaded |-> FALSE]

Handed(c, p) ==
  /\ names' = [names EXCEPT ![c][p] = Named(@, tree[p])]
  /\ told' = Telling(c, p, names'[c][p], names[c][p] = Nameless)

Stale(p) == IF ToldOf(p) THEN [told EXCEPT !.fresh = FALSE] ELSE told

Read(c, p) ==
  /\ Ready(c) /\ Found(c, p) /\ p \notin blank
  /\ Meet(c, {p})
  /\ Handed(c, p)
  /\ UNCHANGED <<browserVars, attached, keeper, opening, dialogVars, referenced>>

\* An act that names an element is refused, or it reaches it and hands back
\* a fresh snapshot.  It may take the element away.
Act(c, p, n) ==
  /\ Ready(c) /\ Found(c, p) /\ p \notin blank
  /\ Meet(c, {p})
  /\ referenced' = [referenced EXCEPT ![c] = @ \cup {p}]
  /\ \/ /\ Hit(c, p, n) = None
        /\ names' = [names EXCEPT ![c][p] = Locate(c, p)]
        /\ UNCHANGED <<tree, told>>
     \/ /\ Hit(c, p, n) # None
        /\ tree' \in {tree, [tree EXCEPT ![p] = @ \ {Hit(c, p, n)}]}
        /\ names' = [names EXCEPT ![c][p] = Named(Locate(c, p), tree'[p])]
        /\ told' = Telling(c, p, names'[c][p], FALSE)
  /\ UNCHANGED <<opened, blank, attached, keeper, opening, dialogVars>>

\* navigate, or a link followed: a new document, of which nobody has a snapshot,
\* though those who had one of the page do not know that, and callers may still
\* hold names they read off the one before.
Load(p) ==
  /\ Cardinality((opened \ blank) \cup {p}) <= MaxLoaded
  /\ blank' = blank \ {p}
  /\ tree' = [tree EXCEPT ![p] = Elements]
  /\ names' = Without(names, p, Nameless)
  /\ told' = IF ToldOf(p) THEN [told EXCEPT !.fresh = FALSE, !.loaded = TRUE] ELSE told

Navigate(c, p) ==
  /\ Ready(c) /\ Found(c, p)
  /\ Meet(c, {p})
  /\ Load(p)
  /\ UNCHANGED <<opened, attached, keeper, opening, dialogVars, referenced>>

-----------------------------------------------------------------------------
(* Dialogs.                                                                *)

\* act `dialog' decides how the next one is answered, and hands a snapshot.
\* An order to dismiss is what goes without one, and takes back the other.
Arm(c, p, accept) ==
  /\ Ready(c) /\ Found(c, p) /\ p \notin blank
  /\ unspent[p] < MaxArms
  /\ Meet(c, {p})
  /\ armed' = [armed EXCEPT ![c] = IF accept THEN @ \cup {p} ELSE @ \ {p}]
  /\ unspent' = [unspent EXCEPT ![p] = IF accept THEN @ + 1 ELSE @]
  /\ Handed(c, p)
  /\ UNCHANGED <<browserVars, attached, keeper, opening, asked, unanswered, referenced>>

\* The page asks; each connection that is up gets the event.
DialogOpens(p) ==
  /\ p \in opened \ blank /\ p \notin unanswered
  /\ \A c \in Conn : asked[c][p] < MaxEvents
  /\ unanswered' = unanswered \cup {p}
  /\ asked' = [c \in Conn |-> IF c \in attached THEN [asked[c] EXCEPT ![p] = @ + 1]
                                            ELSE asked[c]]
  /\ UNCHANGED <<browserVars, sessionVars, armed, unspent, refVars>>

KeepOrder(c, p) == armed

\* The order is used up by the event, whoever answers the dialog.
UseUp(c, p) == [armed EXCEPT ![c] = @ \ {p}]

\* The first to handle the event of a dialog that is up answers it: accepts it
\* if it was ordered to, and dismisses it if not or if it does not know the
\* page.  An event handled late, of a dialog before it, answers nothing.
HandleDialog(c, p) ==
  /\ asked[c][p] > 0
  /\ asked' = [asked EXCEPT ![c][p] = @ - 1]
  /\ armed' = UseUp(c, p)
  /\ IF p \in unanswered /\ asked[c][p] = 1
       THEN /\ unanswered' = unanswered \ {p}
            /\ unspent' = IF p \in armed[c]
                            THEN [unspent EXCEPT ![p] = @ - 1] ELSE unspent
       ELSE UNCHANGED <<unanswered, unspent>>
  /\ UNCHANGED <<browserVars, sessionVars, refVars>>

-----------------------------------------------------------------------------
(* A person: closes a page, follows a link, answers a dialog; a page drops *)
(* an element by itself.                                                   *)

ClosedByHand(p) == p \in opened /\ PageGone(p) /\ UNCHANGED <<attached, opening>>

LinkFollowed(p) ==
  /\ p \in opened
  /\ Load(p)
  /\ UNCHANGED <<opened, sessionVars, dialogVars, referenced>>

AnsweredByHand(p) ==
  /\ p \in unanswered
  /\ unanswered' = unanswered \ {p}
  /\ UNCHANGED <<browserVars, sessionVars, armed, asked, unspent, refVars>>

ElementGoes(p, e) ==
  /\ p \in opened /\ e \in tree[p]
  /\ tree' = [tree EXCEPT ![p] = @ \ {e}]
  /\ told' = Stale(p)
  /\ UNCHANGED <<opened, blank, sessionVars, dialogVars,
                 referenced, names>>

Init ==
  /\ opened = {} /\ blank = {}
  /\ tree = [p \in Page |-> {}]
  /\ attached = {}
  /\ keeper = [c \in Conn |-> None]
  /\ opening = [c \in Conn |-> FALSE]
  /\ held = [c \in Conn |-> {}]
  /\ armed = [c \in Conn |-> {}]
  /\ asked = [c \in Conn |-> [p \in Page |-> 0]]
  /\ unanswered = {}
  /\ unspent = [p \in Page |-> 0]
  /\ referenced = [c \in Conn |-> {}]
  /\ names = [c \in Conn |-> [p \in Page |-> Nameless]]
  /\ told = None

SessionStep(c) ==
  \/ Attach(c) \/ Detach(c) \/ ListTabs(c)
  \/ \E p \in Page :
       \/ OpenKeeper(c, p) \/ OpenTab(c, p) \/ CloseTab(c, p)
       \/ Read(c, p) \/ Navigate(c, p) \/ HandleDialog(c, p)
       \/ \E n \in Elements : Act(c, p, n)
       \/ \E accept \in BOOLEAN : Arm(c, p, accept)

Next ==
  \/ \E c \in Conn : SessionStep(c)
  \/ \E p \in Page :
       \/ DialogOpens(p) \/ ClosedByHand(p) \/ LinkFollowed(p) \/ AnsweredByHand(p)
       \/ \E e \in Elements : ElementGoes(p, e)

Spec == Init /\ [][Next]_vars

-----------------------------------------------------------------------------
(* Properties.                                                             *)

\* "A reference going stale is reported as a reference going stale": acting
\* through the connection that gave the name, one acts on the element it was
\* given to or is refused, however the document has changed.  Once another one
\* has been loaded the name is refused by a connection that has looked names up
\* in the page before, until it takes a snapshot again; one that has not takes it
\* on the first look, and acts on what bears the number now.  In the ordinary
\* arrangement, where one process reads and the next, which has never met the
\* page, acts, a name read off a page that is unchanged reaches its element.
RefHitsWhatWasRead ==
  told # None => \A e \in WithName(told.names) :
    /\ told.by # None /\ ~told.loaded
         => Hit(told.by, told.page, told.names[e]) \in {e, None}
    /\ told.by # None /\ told.loaded /\ told.page \in referenced[told.by]
         /\ names[told.by][told.page] = Nameless
         => Hit(told.by, told.page, told.names[e]) = None
    /\ told.fresh =>
         \A c \in Conn : names[c][told.page] = Nameless /\ told.page \notin referenced[c]
           => Hit(c, told.page, told.names[e]) = e

\* An order to accept a dialog is good for one: however the events of several
\* connections are interleaved, a page never has more dialogs accepted than it
\* was ordered to.
OneArmOneAccept == \A p \in Page : unspent[p] >= 0
=============================================================================
