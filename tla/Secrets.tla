-------------------------------- MODULE Secrets --------------------------------
(***************************************************************************)
(* Secrets of a leased tab: an act names one, a command of the operator's  *)
(* answers with its value and with where it may go, the value is typed     *)
(* there, and it is kept out of what comes back for the rest of the lease  *)
(* (service/secrets.ts, secrets/, and the driver's part, browser/real.ts). *)
(*                                                                         *)
(* One tab of one lease, and the processes that were given its key.  Which *)
(* calls name a secret where none may be is in Rules.  A value is known by *)
(* the name of its secret, in whatever spelling it comes.  What a page has *)
(* been given it may show, log and put in its address, and files come back *)
(* by names that are made of the address.  That a page may change a value  *)
(* first, or show it in a frame of another origin, no scrubbing covers,    *)
(* and is left out.  So are the ledger's rows.                             *)
(***************************************************************************)
EXTENDS Integers, Sequences, FiniteSets

CONSTANTS
  Process,
  Configured, \* the processes that were started with a resolver
  Secret,     \* names of secrets
  Answers,    \* Answers[s]: what the operator's command may answer about s
  Home,       \* Home[s]: the origins and kinds of field s is meant for
  Document,   \* what the tab may hold: sequences of elements
  Forms,      \* what an act may put where: sequences of fields to fill
  Null

VARIABLES
  document,   \* the document in the tab
  filled,     \* filled[e]: the secrets in element e of it
  given,      \* the secrets the page has been given
  received,   \* tab_secrets: the names the tab has been asked to receive
  call,       \* call[p]: the call p is in the middle of, or Null
  returned    \* what the last step gave back, and what it was not to, or Null

pageVars == <<document, filled, given>>
secretsVars == <<pageVars, received, call, returned>>

-----------------------------------------------------------------------------
(* The command's answer (secrets/resolver.ts).                             *)

FieldKinds == {"password", "username", "otp"}

\* normaliseOrigin: scheme, host and port, and nothing more.
IsExactOrigin(candidate) == candidate.scheme \in {"http", "https"} /\ candidate.bare

\* commandSecretResolver settles once: with what was printed by the time the
\* command ended well, unless the deadline or the limit came first.
EndsWell(answer) == answer.ends = "in time" /\ answer.code = 0

\* parseResolverOutput
IsLegible(printed) ==
  /\ printed # Null
  /\ printed.value # Null
  /\ printed.origins # {} /\ \A candidate \in printed.origins : IsExactOrigin(candidate)
  /\ printed.fields # Null => printed.fields # {} /\ printed.fields \subseteq FieldKinds

IsAnswer(answer) == EndsWell(answer) /\ IsLegible(answer.printed)

Declared(printed) ==
  [origins |-> {candidate.origin : candidate \in printed.origins},
   fields  |-> IF printed.fields = Null THEN {"password"} ELSE printed.fields]

\* A field an act is to fill, with a secret or with the caller's own text.
FormField == [ref : Nat, value : Secret \cup {Null}, mode : {"fill", "type"}]

\* What the operator's command says of a secret, when it can be read at all, is
\* where the operator means it to go.
ASSUME SecretsAssumption ==
  /\ Configured \subseteq Process
  /\ Null \notin Process \cup Secret
  /\ Forms \subseteq Seq(FormField)
  /\ \A s \in Secret : \A answer \in Answers[s] :
       IsAnswer(answer) => answer.printed.value = s /\ Declared(answer.printed) = Home[s]

Resolved(p, s) == p \in Configured /\ \E answer \in Answers[s] : IsAnswer(answer)
Unresolved(p, s) == p \notin Configured \/ \E answer \in Answers[s] : ~IsAnswer(answer)

-----------------------------------------------------------------------------
(* Where a secret may go (secrets/binding.ts).                             *)

\* fieldKindsOf
KindsOf(facts) ==
  {kind \in FieldKinds :
     /\ facts.tag = "input"
     /\ CASE kind = "password" -> facts.type = "password"
          [] kind = "otp"      -> "one-time-code" \in facts.autocomplete
          [] kind = "username" ->
               /\ facts.type # "password"
               /\ \/ facts.autocomplete \cap {"username", "email"} # {}
                  \/ facts.type = "email"
                  \/ facts.type \in {"", "text"} /\ facts.hinted}

InOwnFrame(frames, origins) == Head(frames) \in origins

\* Every frame from the element's own up to the page is at one of the origins;
\* a frame without an origin is at none.
InEveryFrame(frames, origins) ==
  /\ frames # << >>
  /\ \A i \in DOMAIN frames : frames[i] # Null /\ frames[i] \in origins

MayGo(element, home) ==
  /\ InEveryFrame(element.frames, home.origins)
  /\ KindsOf(element.facts) \cap home.fields # {}

-----------------------------------------------------------------------------
(* Deciding.                                                               *)

NameIn(field) == IF field.value \in Secret THEN {field.value} ELSE {}
NamesIn(form) == UNION {NameIn(form[i]) : i \in DOMAIN form}

NothingReturned == returned' = Null

Begin(p, op, form) ==
  call' = [call EXCEPT ![p] =
    [op |-> op, step |-> "begin", prior |-> received, scoped |-> received \cup NamesIn(form) # {},
     typed |-> {}, todo |-> form, handle |-> Null, known |-> given]]

Decide(p, op) ==
  /\ call[p] = Null
  /\ Begin(p, op, << >>)
  /\ NothingReturned
  /\ UNCHANGED <<pageVars, received>>

DecideNavigate(p) == Decide(p, "navigate")
DecideRead(p) == Decide(p, "read")
DecideCapture(p) == Decide(p, "capture")

\* decideEvaluate is refused once the tab has been asked to receive a secret.
DecideEvaluate(p) == received = {} /\ Decide(p, "evaluate")

\* decideAct: without a resolver no act may name a secret.  What the tab is
\* asked to receive is on record before anything is typed.
DecideAct(p, form) ==
  /\ call[p] = Null
  /\ NamesIn(form) # {} => p \in Configured
  /\ received' = received \cup NamesIn(form)
  /\ Begin(p, "act", form)
  /\ NothingReturned
  /\ UNCHANGED pageVars

-----------------------------------------------------------------------------
(* After the commit: putting text into fields.                             *)

At(p, step) == call[p] # Null /\ call[p].step = step
Step(p, step) == call' = [call EXCEPT ![p].step = step]

ScrubTyped(c, values) == values \ c.typed

\* Every value the tab received before this call, and those it has typed.
Scrub(c, values) == values \ (c.prior \cup c.typed)

\* The call is over, and gave back what shows, and a file by some name.  It was
\* not to give back what the page knew when the call was decided, nor what it
\* typed itself.
ReturnFile(p, shows, name) ==
  /\ returned' = [op |-> call[p].op, shows |-> shows, name |-> name,
                  secret |-> call[p].known \cup call[p].typed]
  /\ call' = [call EXCEPT ![p] = Null]

Return(p, shows) == ReturnFile(p, shows, {})

\* resolveReceived: whoever may have to scrub a value asks for it first, and
\* does nothing if it cannot.
ResolveReceived(p) ==
  /\ At(p, "begin")
  /\ \/ /\ \A s \in call[p].prior : Resolved(p, s)
        /\ Step(p, "work")
        /\ NothingReturned
     \/ /\ \E s \in call[p].prior : Unresolved(p, s)
        /\ Return(p, {})
  /\ UNCHANGED <<pageVars, received>>

Field(p) == Head(call[p].todo)
Locates(p) == Field(p).ref \in DOMAIN document
Writing(p) == At(p, "work") /\ call[p].todo # << >>

\* The next field, if there is one.
NextField(p) == call' = [call EXCEPT ![p].step = "work", ![p].todo = Tail(@)]

Put(mode, there, values) == IF mode = "fill" THEN values ELSE there \cup values

\* #putText, of the caller's own text.
PutText(p) ==
  /\ Writing(p) /\ Field(p).value \notin Secret /\ Locates(p)
  /\ filled' = [filled EXCEPT ![Field(p).ref] = Put(Field(p).mode, @, {})]
  /\ NextField(p)
  /\ NothingReturned
  /\ UNCHANGED <<document, given, received>>

\* #typeSecret: the element is found, then the secret resolved, then the
\* element held.  A document may come in between.
ResolveSecret(p) ==
  /\ Writing(p) /\ Field(p).value \in Secret /\ Locates(p)
  /\ Resolved(p, Field(p).value)
  /\ call' = [call EXCEPT ![p].step = "resolved", ![p].typed = @ \cup {Field(p).value}]
  /\ NothingReturned
  /\ UNCHANGED <<pageVars, received>>

TakeHandle(p) ==
  /\ At(p, "resolved") /\ Locates(p)
  /\ call' = [call EXCEPT ![p].step = "held", ![p].handle = Field(p).ref]
  /\ NothingReturned
  /\ UNCHANGED <<pageVars, received>>

Check(p) ==
  /\ At(p, "held") /\ call[p].handle # Null
  /\ MayGo(document[call[p].handle], Home[Field(p).value])
  /\ Step(p, "checked")
  /\ NothingReturned
  /\ UNCHANGED <<pageVars, received>>

\* The value is in the element; the call may fail all the same.
TypeSecret(p) ==
  /\ At(p, "checked") /\ call[p].handle # Null
  /\ filled' = [filled EXCEPT ![call[p].handle] = Put(Field(p).mode, @, {Field(p).value})]
  /\ given' = given \cup {Field(p).value}
  /\ \/ NextField(p) /\ NothingReturned
     \/ Return(p, Scrub(call[p], given'))
  /\ UNCHANGED <<document, received>>

-----------------------------------------------------------------------------
(* After the commit: what comes back.                                      *)

IsPassword(e) == document[e].facts.type = "password"

\* passwordFieldValues
InPasswordFields == UNION {filled[e] : e \in {e \in DOMAIN document : IsPassword(e)}}
InOtherFields == UNION {filled[e] : e \in {e \in DOMAIN document : ~IsPassword(e)}}

\* #writeSnapshot: on a tab that has to do with secrets, what password fields
\* hold is taken out besides.
Snapshot(c) ==
  LET shown == Scrub(c, given) IN IF c.scoped THEN shown \ InPasswordFields ELSE shown

\* #captureMasked: password fields are painted over, and so is the text of
\* received values; what is in fields of other kinds is not, and shows.
PictureOf(c) ==
  Scrub(c, given) \cup InOtherFields \cup (IF c.scoped THEN {} ELSE InPasswordFields)

Done(p, op) == At(p, "work") /\ call[p].op = op /\ call[p].todo = << >>

\* #write: the contents are scrubbed, and the file is named for the address as
\* it is, whatever part of it is a secret.
WriteText(p, contents) == \E inAddress \in SUBSET given : ReturnFile(p, contents, inAddress)

Acted(p) ==
  /\ Done(p, "act")
  /\ WriteText(p, Snapshot(call[p]))
  /\ UNCHANGED <<pageVars, received>>

\* The snapshot; and the console, the network and the cookies.
ReadBack(p) ==
  /\ Done(p, "read")
  /\ \/ WriteText(p, Snapshot(call[p]))
     \/ WriteText(p, Snapshot(call[p]) \cup Scrub(call[p], given))
  /\ UNCHANGED <<pageVars, received>>

\* A picture is named for the address it reports, which is scrubbed.
Capture(p) ==
  /\ Done(p, "capture")
  /\ \E inAddress \in SUBSET given :
       returned' = [op |-> "capture", shows |-> PictureOf(call[p]),
                    name |-> Scrub(call[p], inAddress),
                    secret |-> call[p].known \ InOtherFields]
  /\ call' = [call EXCEPT ![p] = Null]
  /\ UNCHANGED <<pageVars, received>>

Evaluate(p) ==
  /\ Done(p, "evaluate")
  /\ Return(p, given)
  /\ UNCHANGED <<pageVars, received>>

\* A document replaces another: handles to its elements are good for nothing.
NewDocument(d) ==
  /\ document' = d
  /\ filled' = [e \in DOMAIN d |-> {}]

Loosened(calls) ==
  [q \in Process |-> IF calls[q] = Null THEN Null ELSE [calls[q] EXCEPT !.handle = Null]]

\* The address and the title of where it arrived.
Navigated(p, d) ==
  /\ Done(p, "navigate")
  /\ NewDocument(d)
  /\ returned' = [op |-> "navigate", shows |-> Scrub(call[p], given), name |-> {},
                  secret |-> call[p].known]
  /\ call' = Loosened([call EXCEPT ![p] = Null])
  /\ UNCHANGED <<given, received>>

\* withScrubbedErrors: the page's work fails, for a refusal at the field or for
\* any other reason, and the message may quote the page.
WorkFails(p) ==
  /\ call[p] # Null /\ call[p].step # "begin"
  /\ Return(p, Scrub(call[p], given))
  /\ UNCHANGED <<pageVars, received>>

\* The process ends.
Die(p) ==
  /\ call[p] # Null
  /\ call' = [call EXCEPT ![p] = Null]
  /\ NothingReturned
  /\ UNCHANGED <<pageVars, received>>

\* The page goes elsewhere of its own accord.
Wander(d) ==
  /\ NewDocument(d)
  /\ call' = Loosened(call)
  /\ NothingReturned
  /\ UNCHANGED <<given, received>>

-----------------------------------------------------------------------------
SecretsInit ==
  /\ document = << >> /\ filled = << >> /\ given = {}
  /\ received = {}
  /\ call = [p \in Process |-> Null]
  /\ returned = Null

SecretsNext ==
  \/ \E p \in Process :
       \/ DecideNavigate(p) \/ DecideRead(p) \/ DecideCapture(p) \/ DecideEvaluate(p)
       \/ \E form \in Forms : DecideAct(p, form)
       \/ ResolveReceived(p) \/ PutText(p) \/ ResolveSecret(p) \/ TakeHandle(p)
       \/ Check(p) \/ TypeSecret(p)
       \/ Acted(p) \/ ReadBack(p) \/ Capture(p) \/ Evaluate(p) \/ WorkFails(p) \/ Die(p)
       \/ \E d \in Document : Navigated(p, d)
  \/ \E d \in Document : Wander(d)

SecretsSpec == SecretsInit /\ [][SecretsNext]_secretsVars

-----------------------------------------------------------------------------
(* Properties.                                                             *)

\* SCHEMA section 3.8a: a secret is typed where every frame up to the page is
\* at an origin it names, into a field of a kind it names, or it is not typed.
\* However slowly it is resolved, and wherever the page or another process
\* goes between the check and the typing, no field holds a secret that was not
\* meant for it.
SecretStaysHome ==
  \A e \in DOMAIN filled : \A s \in filled[e] :
    /\ \A i \in DOMAIN document[e].frames : document[e].frames[i] \in Home[s].origins
    /\ KindsOf(document[e].facts) \cap Home[s].fields # {}

\* Once a page has been given a secret, by whatever process and however badly
\* that call ended, no call decided since gives it back, by a process that
\* never held it or one that could not resolve it either; nor does a call give
\* back what it typed.  A picture is excused what is in fields that are no
\* password fields.  The one way back that stays open is the name of a file
\* that an act or a read wrote, where the page has the secret in its address:
\* "keeps it out of everything that comes back" (SCHEMA section 3.8a) is not
\* so of these names.
OutputsAreScrubbed == returned # Null =>
  /\ returned.shows \cap returned.secret = {}
  /\ returned.name \cap returned.secret # {} => returned.op \in {"act", "read"}
=============================================================================
