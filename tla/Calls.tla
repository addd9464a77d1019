--------------------------------- MODULE Calls ---------------------------------
(***************************************************************************)
(* A caller's line, from the tool server's session (tool/session.ts) over  *)
(* the bridge (service/bridge.ts) and the decision to the page it is about *)
(* (service/operations/pages.ts) and back to the caller.                   *)
(*                                                                         *)
(* A session answers one line before it reads the next, so a process is in *)
(* the middle of one call; several processes may be given the key of one   *)
(* lease.  The bridge looks up the tab of a key before the transaction     *)
(* that decides the call, and a seed of storage waits in the memory of the *)
(* process that was granted the lease until that process opens a page for  *)
(* it (service/pending-seeds.ts).                                          *)
(*                                                                         *)
(* Capacity, lifetimes and the order of the queue are in Leases, and the   *)
(* closing of pages is in Pages: here a claim is granted, queued, promoted *)
(* or lapses at any time.  Of the ledger only what it says of seeds is     *)
(* kept.  A key is the claim it opens.                                     *)
(***************************************************************************)
EXTENDS Surfaces, FiniteSets

CONSTANTS
  Process, Claim, Page,
  Server,    \* the processes that serve a session; the others run a command
  Lines,     \* the lines a caller may write
  ToolCalls, \* calls of tools, with arguments of the types they declare
  Actions,   \* actions the driver performs
  MaxRows,   \* bounds the tab rows of a claim
  Null

VARIABLES
  state,     \* state[c]: the state of a claim's row
  tabs,      \* tabs[c]: its tab rows, each with its state and page, oldest first
  told,      \* the claims whose keys a caller has been told
  openedFor, \* openedFor[g]: the claim a page was opened under
  storage,   \* storage[g]: how much of a seed was written from page g
  requested, \* the claims with a storage_seeded row that says 'requested'
  applied,   \* the claims with one that says 'applied'
  waiting,   \* waiting[p]: the claims whose seeds wait in p's memory
  call       \* call[p]: the call p is in the middle of, or Null

rowVars  == <<state, tabs>>
pageVars == <<openedFor, storage>>
seedVars == <<requested, applied, waiting>>
vars     == <<rowVars, told, pageVars, seedVars, call>>

PageOps   == {"navigate", "act", "read", "evaluate", "capture"}
TabOps    == PageOps \cup {"tab_replace"}
SignInOps == {"sign_in", "sign_in_done"}
KeyedOps  == TabOps \cup SignInOps \cup {"release", "status"}

\* A line is a message to a tool server, with what it lacks to be one, its
\* method, the tool it names and its arguments; or the words of a command.
IsLine(line) ==
  \/ /\ line.surface = "tool"
     /\ line.shape \in {"whole", "no id", "bad id", "no method", "bad params"}
     /\ line.method \in {"initialize", "tools/list", "tools/call", "other"}
     /\ line.tool \in Tools \cup {"none", "unknown"}
  \/ line.surface = "command"

\* Every verb is among the actions, and each obeys the rules.
ASSUME CallsAssumption ==
  /\ Server \subseteq Process
  /\ \A line \in Lines : IsLine(line)
  /\ MaxRows \in Nat \ {0}
  /\ Null \notin Page \cup Claim
  /\ PageActions = {Verb(request) : request \in Actions}

Live == {"opening", "open"}

-----------------------------------------------------------------------------
(* The session.                                                            *)

Error     == [outcome |-> "error", pageDriven |-> FALSE]
Refused   == [outcome |-> "refused", pageDriven |-> FALSE]
NotDriven == [outcome |-> "accepted", pageDriven |-> FALSE]
Driven    == [outcome |-> "accepted", pageDriven |-> TRUE]

\* decodeMessage: a message without an id is a notification, or a fault that
\* cannot be answered.
WantsAnswer(line) == line.surface = "tool" => line.shape # "no id"

\* The bridge's own answers: to want of a key (a status without one reads the
\* pool and no lease), and to calls that are about no lease.  Null for a call
\* to be decided.
ByBridge(op, args) ==
  CASE op = "claim"    -> Null
    [] op = "doctor"   -> NotDriven
    [] op = "feedback" -> IF Mistake(op, Asked(op, args)) = "none" THEN NotDriven ELSE Refused
    [] OTHER ->
         IF KeyIn(args) # None THEN Null ELSE IF op = "status" THEN NotDriven ELSE Refused

\* handleRequest
BySession(line) ==
  CASE line.shape # "whole" \/ line.method = "other" -> Error
    [] line.shape = "whole" /\ line.method \in {"initialize", "tools/list"} -> NotDriven
    [] OTHER ->
         IF line.tool \notin Tools THEN Error
         ELSE IF Undeclared(line.tool, line.args) # {} \/ ActionMistake(line.tool, line.args) THEN Refused
         ELSE ByBridge(ToolOperation(line.tool, line.args), ToolArguments(line.tool, line.args))

\* Help, the version and the commands that are no operation are answered here.
ByCommandLine(argv) ==
  CASE IsMalformed(argv) \/ HasBadFilters(argv) -> Error
    [] ~IsMalformed(argv) /\ CommandOperation(argv) # "none" ->
         ByBridge(CommandOperation(argv), CommandArguments(argv))
    [] OTHER -> NotDriven

\* The call a line makes: its operation, the claim its key opens, whether its
\* arguments are in order, and whether a mistake is found only at work.
CallOf(op, args, waits) ==
  LET asked == Asked(op, args)
      key   == KeyIn(args)
  IN [op |-> op, key |-> IF "key" \in DOMAIN key THEN key.key ELSE "unknown",
      valid |-> Mistake(op, asked) = "none", late |-> LateMistake(op, asked) # "none",
      seed |-> Items(Of(asked, "storageSeed")) # << >>, waits |-> waits]

\* What becomes of a line: an answer at once, or a call.
Received(line) ==
  LET answer == IF line.surface = "tool" THEN BySession(line) ELSE ByCommandLine(line.words) IN
  CASE ~WantsAnswer(line) \/ answer # Null -> [answer |-> answer]
    [] OTHER ->
         IF line.surface = "tool"
         THEN [call |-> CallOf(ToolOperation(line.tool, line.args),
                               ToolArguments(line.tool, line.args), FALSE)]
         ELSE [call |-> CallOf(CommandOperation(line.words), CommandArguments(line.words),
                               Waits(line.words))]

Reception == [line \in Lines |-> Received(line)]

IsAnswered(line) == "answer" \in DOMAIN Reception[line]
ReadsIt(p, line) == (p \in Server) = (line.surface = "tool")

At(p, step) == call[p] # Null /\ call[p].step = step

\* Nothing but the answer is left to do.
Reply(p, with) == call' = [call EXCEPT ![p] = [step |-> "answer", with |-> with]]

\* serveSession: a fault in one line is answered and ends nothing.
AnswerLine(p, line) ==
  /\ call[p] = Null /\ ReadsIt(p, line)
  /\ WantsAnswer(line) /\ IsAnswered(line)
  /\ Reply(p, Reception[line].answer)
  /\ UNCHANGED <<rowVars, told, pageVars, seedVars>>

IgnoreLine(p, line) ==
  /\ call[p] = Null /\ ReadsIt(p, line)
  /\ ~WantsAnswer(line)
  /\ UNCHANGED vars

\* Only page operations and tab_replace are about a tab.
Begun(asked) ==
  [step |-> IF asked.op \in TabOps THEN "look up" ELSE "decide", tab |-> 0,
   op |-> asked.op, key |-> asked.key, valid |-> asked.valid, late |-> asked.late,
   seed |-> asked.seed, waits |-> asked.waits]

Call(p, line) ==
  /\ call[p] = Null /\ ReadsIt(p, line)
  /\ ~IsAnswered(line)
  /\ LET asked == Reception[line].call IN
     /\ asked.key \in Claim => asked.key \in told
     /\ call' = [call EXCEPT ![p] = Begun(asked)]
  /\ UNCHANGED <<rowVars, told, pageVars, seedVars>>

Answer(p) ==
  /\ At(p, "answer")
  /\ call' = [call EXCEPT ![p] = Null]
  /\ UNCHANGED <<rowVars, told, pageVars, seedVars>>

-----------------------------------------------------------------------------
(* Looking up the tab, and deciding.                                       *)

LiveRows(c) == {n \in DOMAIN tabs[c] : tabs[c][n].state \in Live}

\* tabForKey: the latest live row of the key's claim, or none.
TabForKey(key) ==
  IF key \notin Claim \/ LiveRows(key) = {} THEN 0
  ELSE CHOOSE n \in LiveRows(key) : \A k \in LiveRows(key) : k <= n

LookUp(p) ==
  /\ At(p, "look up")
  /\ call' = [call EXCEPT ![p].step = "decide", ![p].tab = TabForKey(call[p].key)]
  /\ UNCHANGED <<rowVars, told, pageVars, seedVars>>

\* resolveLease: the key of a claim that waits or is active.
Resolves(key) == key \in Claim /\ state[key] \in {"queued", "active"}

AnyTabOfTheLease(c, n) == n \in DOMAIN tabs[c]

\* resolveOwnedTabOrRefuse: a tab of this lease that is not given up.
OwnedTab(c, n) == n \in DOMAIN tabs[c] /\ tabs[c][n].state \in Live

\* The conditions under which the transaction of a keyed call goes through.
Admitted(p) ==
  /\ call[p].valid /\ Resolves(call[p].key)
  /\ call[p].op \in TabOps => OwnedTab(call[p].key, call[p].tab)

\* decideRelease knows the key of an ended lease, and has nothing to give back.
NothingToRelease(p) ==
  call[p].op = "release" /\ call[p].key \in Claim /\ state[call[p].key] = "ended"

\* What was thrown in the transaction undoes it, and is a refusal to the caller.
\* Whether a browser may be signed in to is in Arbitration.
Refuse(p) ==
  /\ At(p, "decide")
  /\ IF call[p].op = "claim" THEN ~call[p].valid
     ELSE (~Admitted(p) /\ ~NothingToRelease(p)) \/ call[p].op \in SignInOps
  /\ Reply(p, Refused)
  /\ UNCHANGED <<rowVars, told, pageVars, seedVars>>

Reserved == [state |-> "opening", page |-> Null]

\* updateSweptTabs: a row without a page is closed at once.
GivenUp(row) ==
  IF row.state \notin Live THEN row
  ELSE [row EXCEPT !.state = IF row.page = Null THEN "closed" ELSE "closing"]

GivenUpAll(c) == [n \in DOMAIN tabs[c] |-> GivenUp(tabs[c][n])]

\* decideClaim.  A seed is recorded as asked for, and is nothing more as yet.
Grant(p, c) ==
  /\ At(p, "decide") /\ call[p].op = "claim" /\ call[p].valid
  /\ state[c] = "none"
  /\ state' = [state EXCEPT ![c] = "active"]
  /\ tabs' = [tabs EXCEPT ![c] = <<Reserved>>]
  /\ requested' = IF call[p].seed THEN requested \cup {c} ELSE requested
  /\ call' = [call EXCEPT ![p] = [step |-> "granted", claim |-> c, seed |-> call[p].seed,
                                     polls |-> FALSE]]
  /\ UNCHANGED <<told, pageVars, applied, waiting>>

\* A claim that has to wait is told its key too; its seed goes nowhere.
Queue(p, c) ==
  /\ At(p, "decide") /\ call[p].op = "claim" /\ call[p].valid
  /\ state[c] = "none"
  /\ state' = [state EXCEPT ![c] = "queued"]
  /\ call' = [call EXCEPT ![p] = [step |-> "granted", claim |-> c, seed |-> FALSE,
                                     polls |-> call[p].waits]]
  /\ UNCHANGED <<tabs, told, pageVars, seedVars>>

\* createBroker's claim: the seed of a granted claim is put by, and the caller
\* is told its key, unless it has asked to wait for its turn.
AnswerClaim(p) ==
  /\ At(p, "granted")
  /\ waiting' = IF call[p].seed THEN [waiting EXCEPT ![p] = @ \cup {call[p].claim}] ELSE waiting
  /\ IF call[p].polls
     THEN call' = [call EXCEPT ![p] = [step |-> "poll", claim |-> call[p].claim]] /\ UNCHANGED told
     ELSE call' = [call EXCEPT ![p] = Null] /\ told' = told \cup {call[p].claim}
  /\ UNCHANGED <<rowVars, pageVars, requested, applied>>

\* waitForGrant: polls hold the place, and end when it is granted or lost.
WaitForGrant(p) ==
  /\ At(p, "poll")
  /\ LET c == call[p].claim IN
     /\ state[c] # "queued"
     /\ IF state[c] = "active" THEN told' = told \cup {c} /\ Reply(p, NotDriven)
        ELSE UNCHANGED told /\ Reply(p, Refused)
  /\ UNCHANGED <<rowVars, pageVars, seedVars>>

\* status renews, and reports.
Status(p) ==
  /\ At(p, "decide") /\ call[p].op = "status" /\ Admitted(p)
  /\ Reply(p, NotDriven)
  /\ UNCHANGED <<rowVars, told, pageVars, seedVars>>

\* decideRequestSignIn, decideFinishSignIn: the lease and its tab stay.
SignIn(p) ==
  /\ At(p, "decide") /\ call[p].op \in SignInOps /\ Admitted(p)
  /\ Reply(p, NotDriven)
  /\ UNCHANGED <<rowVars, told, pageVars, seedVars>>

Release(p) ==
  /\ At(p, "decide") /\ call[p].op = "release" /\ Admitted(p)
  /\ state' = [state EXCEPT ![call[p].key] = "ended"]
  /\ tabs' = [tabs EXCEPT ![call[p].key] = GivenUpAll(call[p].key)]
  /\ Reply(p, NotDriven)
  /\ UNCHANGED <<told, pageVars, seedVars>>

ReleaseEnded(p) ==
  /\ At(p, "decide") /\ NothingToRelease(p)
  /\ Reply(p, NotDriven)
  /\ UNCHANGED <<rowVars, told, pageVars, seedVars>>

\* The page a row named when the call was decided is the one it works in.
PageCall(p) ==
  /\ At(p, "decide") /\ call[p].op \in PageOps /\ Admitted(p)
  /\ LET page == tabs[call[p].key][call[p].tab].page IN
     call' = [call EXCEPT ![p] =
       [step |-> IF page = Null THEN "open" ELSE "work", claim |-> call[p].key,
        tab |-> call[p].tab, page |-> page, seeds |-> TRUE, late |-> call[p].late]]
  /\ UNCHANGED <<rowVars, told, pageVars, seedVars>>

TabReplace(p) ==
  /\ At(p, "decide") /\ call[p].op = "tab_replace" /\ Admitted(p)
  /\ LET c == call[p].key
         n == call[p].tab
     IN /\ Len(tabs[c]) < MaxRows
        /\ tabs' = [tabs EXCEPT ![c] = Append([tabs[c] EXCEPT ![n] = GivenUp(tabs[c][n])], Reserved)]
        /\ call' = [call EXCEPT ![p] =
             [step |-> "open", claim |-> c, tab |-> Len(tabs[c]) + 1, page |-> Null,
              seeds |-> FALSE, late |-> FALSE]]
  /\ UNCHANGED <<state, told, pageVars, seedVars>>

-----------------------------------------------------------------------------
(* After the commit.                                                       *)

\* openTab, of a page nobody has had yet.
OpenPage(p, g) ==
  /\ At(p, "open")
  /\ openedFor[g] = Null
  /\ openedFor' = [openedFor EXCEPT ![g] = call[p].claim]
  /\ call' = [call EXCEPT ![p].step = "record", ![p].page = g]
  /\ UNCHANGED <<rowVars, told, storage, seedVars>>

TakeAndKeep(p, c) == UNCHANGED waiting

\* PendingSeeds.take removes what it returns.
Take(p, c) == waiting' = [waiting EXCEPT ![p] = @ \ {c}]

\* recordTabOpened, which leaves a row alone that is no longer opening, and on
\* to the seed without a pause.  tab_replace takes none, and is done.
RecordPage(p) ==
  /\ At(p, "record")
  /\ LET c == call[p].claim
         n == call[p].tab
     IN /\ tabs' = IF tabs[c][n].state # "opening" THEN tabs
                   ELSE [tabs EXCEPT ![c][n] = [state |-> "open", page |-> call[p].page]]
        /\ IF call[p].seeds
           THEN /\ Take(p, c)
                /\ call' = [call EXCEPT ![p].step = IF c \in waiting[p] THEN "seed" ELSE "work"]
           ELSE UNCHANGED waiting /\ Reply(p, Driven)
  /\ UNCHANGED <<state, told, pageVars, requested, applied>>

\* seedStorage goes from origin to origin, and may be cut short by a failure.
SeedOrigin(p) ==
  /\ At(p, "seed")
  /\ storage[call[p].page] # "whole"
  /\ \E much \in {"part", "whole"} : storage' = [storage EXCEPT ![call[p].page] = much]
  /\ UNCHANGED <<rowVars, told, openedFor, seedVars, call>>

\* The row that says 'applied' follows a seedStorage that has returned.
RecordSeed(p) ==
  /\ At(p, "seed") /\ storage[call[p].page] = "whole"
  /\ applied' = applied \cup {call[p].claim}
  /\ call' = [call EXCEPT ![p].step = "work"]
  /\ UNCHANGED <<rowVars, told, pageVars, requested, waiting>>

\* The work of the call: navigating, acting, reading, ...
Work(p) ==
  /\ At(p, "work") /\ ~call[p].late
  /\ Reply(p, Driven)
  /\ UNCHANGED <<rowVars, told, pageVars, seedVars>>

\* afterCommitWork: whatever the browser refuses, the decision stands, and the
\* answer says that the page was not driven.
WorkFails(p) ==
  /\ \E step \in {"open", "seed", "work"} : At(p, step)
  /\ Reply(p, NotDriven)
  /\ UNCHANGED <<rowVars, told, pageVars, seedVars>>

\* The process ends, with what it had in memory; another takes its place.
Die(p) ==
  /\ call' = [call EXCEPT ![p] = Null]
  /\ waiting' = [waiting EXCEPT ![p] = {}]
  /\ UNCHANGED <<rowVars, told, pageVars, requested, applied>>

-----------------------------------------------------------------------------
(* What other callers' decisions do to a claim (in Leases at length).      *)

Promote(c) ==
  /\ state[c] = "queued"
  /\ state' = [state EXCEPT ![c] = "active"]
  /\ tabs' = [tabs EXCEPT ![c] = <<Reserved>>]
  /\ UNCHANGED <<told, pageVars, seedVars, call>>

Lapse(c) ==
  /\ state[c] \in {"queued", "active"}
  /\ state' = [state EXCEPT ![c] = "ended"]
  /\ tabs' = [tabs EXCEPT ![c] = GivenUpAll(c)]
  /\ UNCHANGED <<told, pageVars, seedVars, call>>

-----------------------------------------------------------------------------
Init ==
  /\ state = [c \in Claim |-> "none"] /\ tabs = [c \in Claim |-> << >>]
  /\ told = {}
  /\ openedFor = [g \in Page |-> Null] /\ storage = [g \in Page |-> "none"]
  /\ requested = {} /\ applied = {} /\ waiting = [p \in Process |-> {}]
  /\ call = [p \in Process |-> Null]

Next ==
  \/ \E p \in Process :
       \/ \E line \in Lines : AnswerLine(p, line) \/ IgnoreLine(p, line) \/ Call(p, line)
       \/ LookUp(p) \/ Refuse(p)
       \/ \E c \in Claim : Grant(p, c) \/ Queue(p, c)
       \/ AnswerClaim(p) \/ WaitForGrant(p) \/ SignIn(p) \/ Status(p) \/ Release(p) \/ ReleaseEnded(p)
       \/ PageCall(p) \/ TabReplace(p)
       \/ \E g \in Page : OpenPage(p, g)
       \/ RecordPage(p) \/ SeedOrigin(p) \/ RecordSeed(p) \/ Work(p) \/ WorkFails(p)
       \/ Answer(p) \/ Die(p)
  \/ \E c \in Claim : Promote(c) \/ Lapse(c)

Spec == Init /\ [][Next]_vars

-----------------------------------------------------------------------------
(* Properties.                                                             *)

KeysForEveryVerb ==
  {c \in Claim :
     \A request \in Actions :
       LET meant == [key |-> Key(c), rule |-> "none", late |-> "none", effect |-> request] IN
       /\ ByTool("act", [lease_key |-> Key(c), request |-> request]) = meant
       /\ ByCommand(<<Text("act"), FlagWith(<<"lease", "key">>, Key(c))>>
                      \o DocumentedOptions(request)) = meant}

KeysAlike ==
  {c \in Claim :
     \A made \in ToolCalls, joined \in BOOLEAN :
       LET args == IF made.tool = "claim" THEN made.args ELSE [lease_key |-> Key(c)] @@ made.args
       IN joined \/ (\A v \in ValuesIn(args) : ~ReadsAsOption(v)) =>
            ByCommand(WrittenCall(made.tool, args, joined)) = ByTool(made.tool, args)}

\* The tab of a call is looked up before the transaction that decides it, and
\* the lease may have been given another, or have ended, in between
\* (ownership.ts).  However calls with one key fall, an active lease has
\* exactly one live row, and no other claim has one.
OneLiveTab ==
  \A c \in Claim : Cardinality(LiveRows(c)) = IF state[c] = "active" THEN 1 ELSE 0

\* pending-seeds.ts: "A seed applies once", and "the ledger records what was
\* actually written, not what was asked for".  However often the pages of a
\* lease are opened, replaced and opened again, and whatever fails or dies in
\* between, its seed is written from one page at most, and a lease that is said
\* to have been seeded asked for it and was, in whole.
SeedLandsOnce ==
  \A c \in Claim :
    LET seeded == {g \in Page : openedFor[g] = c /\ storage[g] # "none"} IN
    /\ Cardinality(seeded) <= 1
    /\ seeded # {} => c \in requested
    /\ c \in applied => \E g \in seeded : storage[g] = "whole"

\* bridge.ts: "The flags were documented and the verb was unreachable".  With a
\* key it has been told, a caller reaches every action the driver performs, by a
\* tool call that sends it whole and by the options the command line documents
\* for it, and either does the very action that was meant.
VerbsAreReachable == told \subseteq KeysForEveryVerb

\* A call with a key that was told comes to the same on either surface, though
\* one sends numbers and Booleans and the other sends texts: it is refused by
\* the same rule, or the same is done.  Written --name=value that is so of every
\* value; in two words, of every value that is not itself read as an option, or
\* as the question for help or the version (cli/adapter.ts, cli/index.ts).
SurfacesAgree == told \subseteq KeysAlike
=============================================================================
