----------------------------- MODULE SessionProofs -----------------------------
(* Theorems about Session and Secrets, for any number of connections,      *)
(* pages, processes, secrets, documents and forms.                         *)
EXTENDS Session, Secrets, FiniteSetTheorems, TLAPS

-----------------------------------------------------------------------------
(* Secrets: where a secret is typed, and what comes back.                  *)

CallRecord ==
  [op     : {"navigate", "read", "capture", "evaluate", "act"},
   step   : {"begin", "work", "resolved", "held", "checked"},
   prior  : SUBSET Secret,
   scoped : BOOLEAN,
   typed  : SUBSET Secret,
   todo   : Seq(FormField),
   handle : Nat \cup {Null},
   known  : SUBSET Secret]

SecretsTyped ==
  /\ filled \in [DOMAIN document -> SUBSET Secret]
  /\ given \subseteq Secret
  /\ received \subseteq Secret
  /\ call \in [Process -> CallRecord \cup {Null}]

\* A handle is of an element of the document, and one that passed the check is
\* still of an element its secret may go to.
CheckedMayGo(c) ==
  c.step \in {"held", "checked"} /\ c.handle # Null =>
    /\ c.handle \in DOMAIN document
    /\ c.step = "checked" => MayGo(document[c.handle], Home[Head(c.todo).value])

\* A field is being filled with a secret from its resolution to its typing.
TypingASecret(c) ==
  c.step \in {"resolved", "held", "checked"} =>
    c.todo # << >> /\ Head(c.todo).value \in Secret

\* A call knows by its rows of everything the page knew when it was decided,
\* and what it is to type is on record.
KnowsItsSecrets(c) ==
  /\ c.known \subseteq c.prior
  /\ NamesIn(c.todo) \subseteq received
  /\ ~c.scoped => c.prior = {} /\ c.typed = {} /\ NamesIn(c.todo) = {}
  /\ c.op = "evaluate" => c.prior = {} /\ c.typed = {} /\ c.todo = << >>

CallsInv == \A p \in Process : call[p] # Null =>
  CheckedMayGo(call[p]) /\ TypingASecret(call[p]) /\ KnowsItsSecrets(call[p])

SecretsInv ==
  /\ SecretsTyped
  /\ given \subseteq received
  /\ CallsInv
  /\ SecretStaysHome
  /\ OutputsAreScrubbed

LEMMA NamesOfForms ==
  ASSUME NEW form \in Seq(FormField)
  PROVE  /\ NamesIn(form) \subseteq Secret
         /\ form # << >> =>
              /\ Head(form) \in FormField /\ Tail(form) \in Seq(FormField)
              /\ NameIn(Head(form)) \subseteq NamesIn(form)
              /\ NamesIn(Tail(form)) \subseteq NamesIn(form)
<1>1. NamesIn(form) \subseteq Secret
  BY DEF NamesIn, NameIn
<1>2. ASSUME form # << >>
      PROVE  /\ Head(form) \in FormField /\ Tail(form) \in Seq(FormField)
             /\ NameIn(Head(form)) \subseteq NamesIn(form)
             /\ NamesIn(Tail(form)) \subseteq NamesIn(form)
  <2>1. Head(form) = form[1] /\ 1 \in DOMAIN form /\ Head(form) \in FormField
    BY <1>2
  <2>2. Tail(form) \in Seq(FormField) /\ \A i \in DOMAIN Tail(form) :
          i + 1 \in DOMAIN form /\ Tail(form)[i] = form[i + 1]
    BY <1>2
  <2> QED
    BY <2>1, <2>2, Zenon DEF NamesIn
<1> QED
  BY <1>1, <1>2

LEMMA NoNames == NamesIn(<< >>) = {}
BY DEF NamesIn

(* A step of one call, which leaves the document and the rows alone.       *)
LEMMA CallStep ==
  ASSUME SecretsInv, NEW p \in Process, NEW c \in CallRecord \cup {Null},
         call' = [call EXCEPT ![p] = c], UNCHANGED <<document, received>>,
         c # Null => CheckedMayGo(c) /\ TypingASecret(c) /\ KnowsItsSecrets(c)
  PROVE  /\ call' \in [Process -> CallRecord \cup {Null}]
         /\ CallsInv'
<1>1. call' \in [Process -> CallRecord \cup {Null}]
  BY DEF SecretsInv, SecretsTyped
<1>2. ASSUME NEW q \in Process, call'[q] # Null
      PROVE  (CheckedMayGo(call[q]) /\ TypingASecret(call[q]) /\ KnowsItsSecrets(call[q]))'
  <2>1. CASE q = p
    <3>1. call'[q] = c
      BY <2>1 DEF SecretsInv, SecretsTyped
    <3> QED
      BY <3>1, <1>2 DEF CheckedMayGo, TypingASecret, KnowsItsSecrets
  <2>2. CASE q # p
    <3>1. call'[q] = call[q]
      BY <2>2 DEF SecretsInv, SecretsTyped
    <3> QED
      BY <3>1, <1>2 DEF CheckedMayGo, TypingASecret, KnowsItsSecrets, SecretsInv, CallsInv
  <2> QED
    BY <2>1, <2>2
<1> QED
  BY <1>1, <1>2 DEF CallsInv

(* A call that gives back nothing it was not to give is over.              *)
LEMMA ReturnClean ==
  ASSUME SecretsInv, NEW p \in Process, call' = [call EXCEPT ![p] = Null],
         UNCHANGED <<document, received>>,
         NEW op, NEW shows, NEW name, NEW secret,
         returned' = [op |-> op, shows |-> shows, name |-> name, secret |-> secret],
         shows \cap secret = {},
         name \cap secret # {} => op \in {"act", "read"}
  PROVE  /\ call' \in [Process -> CallRecord \cup {Null}]
         /\ CallsInv'
         /\ OutputsAreScrubbed'
<1>1. call' \in [Process -> CallRecord \cup {Null}] /\ CallsInv'
  BY CallStep
<1>2. /\ returned'.shows = shows /\ returned'.secret = secret
      /\ returned'.name = name /\ returned'.op = op
  OBVIOUS
<1> QED
  BY <1>1, <1>2 DEF OutputsAreScrubbed

LEMMA NextFieldIsFine ==
  ASSUME SecretsInv, NEW p \in Process, call[p] # Null, call[p].todo # << >>,
         NextField(p), UNCHANGED <<document, received>>
  PROVE  call' \in [Process -> CallRecord \cup {Null}] /\ CallsInv'
<1>0. PICK c : c = [call[p] EXCEPT !.step = "work", !.todo = Tail(@)]
  OBVIOUS
<1>1. call[p] \in CallRecord /\ KnowsItsSecrets(call[p])
  BY DEF SecretsInv, SecretsTyped, CallsInv
<1>2. Tail(call[p].todo) \in Seq(FormField) /\ NamesIn(Tail(call[p].todo)) \subseteq NamesIn(call[p].todo)
  BY <1>1, NamesOfForms DEF CallRecord
<1>3. /\ c \in CallRecord /\ c.step = "work" /\ c.todo = Tail(call[p].todo)
      /\ c.known = call[p].known /\ c.prior = call[p].prior /\ c.typed = call[p].typed
      /\ c.scoped = call[p].scoped /\ c.op = call[p].op
  BY <1>0, <1>1, <1>2 DEF CallRecord
<1>4. call' = [call EXCEPT ![p] = c]
  BY <1>0 DEF NextField, SecretsInv, SecretsTyped
<1>5. CheckedMayGo(c) /\ TypingASecret(c) /\ KnowsItsSecrets(c)
  BY <1>1, <1>2, <1>3 DEF CheckedMayGo, TypingASecret, KnowsItsSecrets
<1> QED
  BY <1>3, <1>4, <1>5, CallStep

(* A step of p that leaves everything else, and all but p's step and handle
   and what it typed, as it was.                                             *)
LEMMA StepIsFine ==
  ASSUME SecretsInv, NEW p \in Process, call[p] # Null, NEW c \in CallRecord,
         call' = [call EXCEPT ![p] = c], NothingReturned, UNCHANGED <<pageVars, received>>,
         c.known = call[p].known, c.prior = call[p].prior, c.scoped = call[p].scoped,
         c.op = call[p].op, c.todo = call[p].todo,
         c.typed \subseteq call[p].typed \cup NamesIn(c.todo),
         CheckedMayGo(c), TypingASecret(c)
  PROVE  SecretsInv'
<1>1. KnowsItsSecrets(call[p])
  BY DEF SecretsInv, CallsInv
<1>2. KnowsItsSecrets(c)
  BY <1>1, NoNames DEF KnowsItsSecrets
<1>3. call' \in [Process -> CallRecord \cup {Null}] /\ CallsInv'
  BY <1>2, CallStep DEF pageVars
<1>4. SecretStaysHome'
  BY DEF SecretsInv, SecretStaysHome, pageVars
<1> QED
  BY <1>3, <1>4 DEF SecretsInv, SecretsTyped, OutputsAreScrubbed, NothingReturned, pageVars

(* A fresh call knows what the rows say.                                   *)
LEMMA BeginIsFine ==
  ASSUME SecretsInv, NEW p \in Process,
         NEW op \in {"navigate", "read", "capture", "evaluate", "act"},
         NEW form \in Seq(FormField), Begin(p, op, form), UNCHANGED pageVars,
         received' = received \cup NamesIn(form), NothingReturned,
         op = "evaluate" => received = {} /\ form = << >>
  PROVE  SecretsInv'
<1>0. PICK c : c = [op |-> op, step |-> "begin", prior |-> received,
                    scoped |-> received \cup NamesIn(form) # {}, typed |-> {}, todo |-> form,
                    handle |-> Null, known |-> given]
  OBVIOUS
<1>1. NamesIn(form) \subseteq Secret
  BY NamesOfForms
<1>2. c \in CallRecord
  BY <1>0, <1>1 DEF CallRecord, SecretsInv, SecretsTyped
<1>3. call' = [call EXCEPT ![p] = c]
  BY <1>0 DEF Begin
<1>4. CheckedMayGo(c)' /\ TypingASecret(c)'
  BY <1>0 DEF CheckedMayGo, TypingASecret
<1>5. KnowsItsSecrets(c)'
  BY <1>0, NoNames DEF KnowsItsSecrets, SecretsInv
<1>6. call' \in [Process -> CallRecord \cup {Null}]
  BY <1>2, <1>3 DEF SecretsInv, SecretsTyped
<1>7. CallsInv'
  <2> SUFFICES ASSUME NEW q \in Process, call'[q] # Null
               PROVE  (CheckedMayGo(call[q]) /\ TypingASecret(call[q]) /\ KnowsItsSecrets(call[q]))'
    BY DEF CallsInv
  <2>1. CASE q = p
    <3>1. call'[q] = c
      BY <1>3, <2>1 DEF SecretsInv, SecretsTyped
    <3> QED
      BY <3>1, <1>4, <1>5 DEF CheckedMayGo, TypingASecret, KnowsItsSecrets
  <2>2. CASE q # p
    <3>1. call'[q] = call[q]
      BY <1>3, <2>2 DEF SecretsInv, SecretsTyped
    <3> QED
      BY <3>1 DEF CheckedMayGo, TypingASecret, KnowsItsSecrets, SecretsInv, CallsInv, pageVars
  <2> QED
    BY <2>1, <2>2
<1>8. SecretStaysHome'
  BY DEF SecretsInv, SecretStaysHome, pageVars
<1> QED
  BY <1>1, <1>6, <1>7, <1>8
     DEF SecretsInv, SecretsTyped, OutputsAreScrubbed, NothingReturned, pageVars

LEMMA DecidesFine ==
  ASSUME SecretsInv, NEW p \in Process,
         \/ DecideNavigate(p) \/ DecideRead(p) \/ DecideCapture(p) \/ DecideEvaluate(p)
         \/ \E form \in Forms : DecideAct(p, form)
  PROVE  SecretsInv'
<1>1. ASSUME NEW op \in {"navigate", "read", "capture", "evaluate"}, Decide(p, op),
             op = "evaluate" => received = {}
      PROVE  SecretsInv'
  <2>1. << >> \in Seq(FormField) /\ received = received \cup NamesIn(<< >>)
    BY NoNames
  <2>2. Begin(p, op, << >>) /\ NothingReturned /\ UNCHANGED <<pageVars, received>>
    BY <1>1 DEF Decide
  <2> QED
    BY <1>1, <2>1, <2>2, BeginIsFine
<1>2. ASSUME NEW form \in Forms, DecideAct(p, form)
      PROVE  SecretsInv'
  <2>1. form \in Seq(FormField)
    BY SecretsAssumption
  <2> QED
    BY <1>2, <2>1, BeginIsFine DEF DecideAct
<1> QED
  BY <1>1, <1>2 DEF DecideNavigate, DecideRead, DecideCapture, DecideEvaluate

(* What scrubbing leaves is nothing the call was not to give back.         *)
LEMMA ScrubsAll ==
  ASSUME SecretsInv, NEW p \in Process, call[p] # Null, NEW values
  PROVE  /\ Scrub(call[p], values) \cap (call[p].known \cup call[p].typed) = {}
         /\ Scrub(call[p], values) \cap call[p].known = {}
BY DEF SecretsInv, CallsInv, KnowsItsSecrets, Scrub

(* Steps that end a call, and leave the page alone.                        *)
LEMMA EndsFine ==
  ASSUME SecretsInv, NEW p \in Process, call[p] # Null,
         UNCHANGED <<pageVars, received>>, call' = [call EXCEPT ![p] = Null],
         \/ NothingReturned
         \/ \E op, shows, name, secret :
              /\ returned' = [op |-> op, shows |-> shows, name |-> name, secret |-> secret]
              /\ shows \cap secret = {}
              /\ name \cap secret # {} => op \in {"act", "read"}
  PROVE  SecretsInv'
<1>1. call' \in [Process -> CallRecord \cup {Null}] /\ CallsInv'
  BY CallStep DEF pageVars
<1>2. SecretStaysHome'
  BY DEF SecretsInv, SecretStaysHome, pageVars
<1>3. OutputsAreScrubbed'
  BY ReturnClean DEF OutputsAreScrubbed, NothingReturned, pageVars
<1> QED
  BY <1>1, <1>2, <1>3 DEF SecretsInv, SecretsTyped, pageVars

LEMMA ReturnsFine ==
  ASSUME SecretsInv, NEW p \in Process,
         ResolveReceived(p) \/ Acted(p) \/ ReadBack(p) \/ Capture(p) \/ Evaluate(p)
           \/ WorkFails(p) \/ Die(p)
  PROVE  SecretsInv'
<1>1. ASSUME call[p] # Null, NEW shows, Return(p, shows), UNCHANGED <<pageVars, received>>,
             shows \cap (call[p].known \cup call[p].typed) = {}
      PROVE  SecretsInv'
  <2>1. {} \cap (call[p].known \cup call[p].typed) = {}
    OBVIOUS
  <2> QED
    BY <1>1, <2>1, EndsFine DEF Return, ReturnFile
<1>0. ASSUME call[p] # Null, NEW contents, WriteText(p, contents), UNCHANGED <<pageVars, received>>,
             contents \cap (call[p].known \cup call[p].typed) = {},
             call[p].op \in {"act", "read"}
      PROVE  SecretsInv'
  BY <1>0, EndsFine DEF WriteText, ReturnFile
<1>2. ASSUME ResolveReceived(p) PROVE SecretsInv'
  <2>1. CASE Step(p, "work") /\ NothingReturned
    <3>1. call[p] # Null /\ call[p] \in CallRecord /\ TypingASecret(call[p])
      BY <1>2 DEF ResolveReceived, At, SecretsInv, SecretsTyped, CallsInv
    <3>2. PICK c : c = [call[p] EXCEPT !.step = "work"]
      OBVIOUS
    <3>3. call' = [call EXCEPT ![p] = c]
      BY <2>1, <3>2 DEF Step
    <3>4. /\ c \in CallRecord /\ c.step = "work" /\ c.known = call[p].known
          /\ c.prior = call[p].prior /\ c.scoped = call[p].scoped /\ c.op = call[p].op
          /\ c.todo = call[p].todo /\ c.typed = call[p].typed
      BY <3>1, <3>2 DEF CallRecord
    <3>5. CheckedMayGo(c) /\ TypingASecret(c)
      BY <3>4 DEF CheckedMayGo, TypingASecret
    <3>6. NothingReturned /\ UNCHANGED <<pageVars, received>>
      BY <1>2, <2>1 DEF ResolveReceived
    <3> QED
      BY <3>1, <3>3, <3>4, <3>5, <3>6, StepIsFine
  <2>2. CASE Return(p, {})
    BY <1>2, <2>2, <1>1 DEF ResolveReceived, At
  <2> QED
    BY <1>2, <2>1, <2>2 DEF ResolveReceived
<1>3. ASSUME Acted(p) PROVE SecretsInv'
  <2>1. /\ call[p] # Null /\ call[p].op = "act"
        /\ Snapshot(call[p]) \subseteq Scrub(call[p], given)
    BY <1>3 DEF Acted, Done, At, Snapshot
  <2> QED
    BY <1>0, <1>3, <2>1, ScrubsAll DEF Acted
<1>4. ASSUME ReadBack(p) PROVE SecretsInv'
  <2>1. /\ call[p] # Null /\ call[p].op = "read"
        /\ Snapshot(call[p]) \subseteq Scrub(call[p], given)
    BY <1>4 DEF ReadBack, Done, At, Snapshot
  <2>2. Snapshot(call[p]) \cup Scrub(call[p], given) = Scrub(call[p], given)
    BY <2>1
  <2> QED
    BY <1>0, <1>4, <2>1, <2>2, ScrubsAll DEF ReadBack
<1>5. ASSUME Capture(p) PROVE SecretsInv'
  <2>1. call[p] # Null /\ KnowsItsSecrets(call[p])
    BY <1>5 DEF Capture, Done, At, SecretsInv, CallsInv
  <2>2. PictureOf(call[p]) \cap (call[p].known \ InOtherFields) = {}
    BY <2>1, ScrubsAll DEF PictureOf, KnowsItsSecrets
  <2>3. \A inAddress : Scrub(call[p], inAddress) \cap (call[p].known \ InOtherFields) = {}
    BY <2>1, ScrubsAll
  <2> QED
    BY <1>5, <2>1, <2>2, <2>3, EndsFine DEF Capture
<1>6. ASSUME Evaluate(p) PROVE SecretsInv'
  <2>1. call[p] # Null /\ KnowsItsSecrets(call[p]) /\ call[p].op = "evaluate"
    BY <1>6 DEF Evaluate, Done, At, SecretsInv, CallsInv
  <2> QED
    BY <1>1, <1>6, <2>1 DEF Evaluate, KnowsItsSecrets
<1>7. ASSUME WorkFails(p) PROVE SecretsInv'
  BY <1>1, <1>7, ScrubsAll DEF WorkFails
<1>8. ASSUME Die(p) PROVE SecretsInv'
  BY <1>8, EndsFine DEF Die
<1> QED
  BY <1>2, <1>3, <1>4, <1>5, <1>6, <1>7, <1>8

(* On the way to a field.                                                  *)
LEMMA ApproachFine ==
  ASSUME SecretsInv, NEW p \in Process, ResolveSecret(p) \/ TakeHandle(p) \/ Check(p)
  PROVE  SecretsInv'
<1>1. /\ call[p] # Null /\ call[p] \in CallRecord
      /\ TypingASecret(call[p]) /\ KnowsItsSecrets(call[p])
  BY DEF ResolveSecret, Writing, TakeHandle, Check, At, SecretsInv, SecretsTyped, CallsInv
<1>2. ASSUME call[p].todo # << >>
      PROVE  Field(p) \in FormField /\ NameIn(Field(p)) \subseteq NamesIn(call[p].todo)
  BY <1>1, <1>2, NamesOfForms DEF CallRecord, Field
<1>3. ASSUME ResolveSecret(p) PROVE SecretsInv'
  <2>1. PICK c : c = [[call[p] EXCEPT !.step = "resolved"]
                        EXCEPT !.typed = @ \cup {Field(p).value}]
    OBVIOUS
  <2>2. /\ Field(p).value \in Secret /\ call[p].todo # << >>
        /\ Field(p).value \in NamesIn(call[p].todo)
    BY <1>2, <1>3 DEF ResolveSecret, Writing, NameIn
  <2>3. call' = [call EXCEPT ![p] = c]
    BY <1>3, <2>1 DEF ResolveSecret, SecretsInv, SecretsTyped
  <2>4. /\ c \in CallRecord /\ c.step = "resolved" /\ c.known = call[p].known
        /\ c.prior = call[p].prior /\ c.scoped = call[p].scoped /\ c.op = call[p].op
        /\ c.todo = call[p].todo /\ c.typed = call[p].typed \cup {Field(p).value}
    BY <1>1, <2>1, <2>2 DEF CallRecord
  <2>5. CheckedMayGo(c) /\ TypingASecret(c)
    BY <2>2, <2>4 DEF CheckedMayGo, TypingASecret, Field
  <2>6. c.typed \subseteq call[p].typed \cup NamesIn(c.todo)
    BY <2>2, <2>4
  <2>7. NothingReturned /\ UNCHANGED <<pageVars, received>>
    BY <1>3 DEF ResolveSecret
  <2> QED
    BY <1>1, <2>3, <2>4, <2>5, <2>6, <2>7, StepIsFine
<1>4. ASSUME TakeHandle(p) PROVE SecretsInv'
  <2>1. PICK c : c = [[call[p] EXCEPT !.step = "held"] EXCEPT !.handle = Field(p).ref]
    OBVIOUS
  <2>2. call[p].step = "resolved" /\ call[p].todo # << >> /\ Field(p).ref \in Nat
    BY <1>1, <1>2, <1>4 DEF TakeHandle, At, TypingASecret, FormField
  <2>3. call' = [call EXCEPT ![p] = c]
    BY <1>4, <2>1 DEF TakeHandle, SecretsInv, SecretsTyped
  <2>4. /\ c \in CallRecord /\ c.step = "held" /\ c.known = call[p].known
        /\ c.prior = call[p].prior /\ c.scoped = call[p].scoped /\ c.op = call[p].op
        /\ c.todo = call[p].todo /\ c.typed = call[p].typed /\ c.handle = Field(p).ref
    BY <1>1, <2>1, <2>2 DEF CallRecord
  <2>5. CheckedMayGo(c) /\ TypingASecret(c)
    BY <1>1, <1>4, <2>2, <2>4 DEF TakeHandle, Locates, CheckedMayGo, TypingASecret
  <2>6. NothingReturned /\ UNCHANGED <<pageVars, received>>
    BY <1>4 DEF TakeHandle
  <2> QED
    BY <1>1, <2>3, <2>4, <2>5, <2>6, StepIsFine
<1>5. ASSUME Check(p) PROVE SecretsInv'
  <2>1. PICK c : c = [call[p] EXCEPT !.step = "checked"]
    OBVIOUS
  <2>2. call' = [call EXCEPT ![p] = c]
    BY <1>5, <2>1 DEF Check, Step
  <2>3. /\ c \in CallRecord /\ c.step = "checked" /\ c.known = call[p].known
        /\ c.prior = call[p].prior /\ c.scoped = call[p].scoped /\ c.op = call[p].op
        /\ c.todo = call[p].todo /\ c.typed = call[p].typed /\ c.handle = call[p].handle
    BY <1>1, <2>1 DEF CallRecord
  <2>4. call[p].handle \in DOMAIN document
    BY <1>1, <1>5 DEF Check, At, SecretsInv, CallsInv, CheckedMayGo
  <2>5. CheckedMayGo(c) /\ TypingASecret(c)
    BY <1>1, <1>5, <2>3, <2>4 DEF CheckedMayGo, TypingASecret, Check, At, Field
  <2>6. NothingReturned /\ UNCHANGED <<pageVars, received>>
    BY <1>5 DEF Check
  <2> QED
    BY <1>1, <2>2, <2>3, <2>5, <2>6, StepIsFine
<1> QED
  BY <1>3, <1>4, <1>5

(* Text is put into a field of the document.                               *)
LEMMA FillsFine ==
  ASSUME SecretsInv, NEW p \in Process, PutText(p) \/ TypeSecret(p)
  PROVE  SecretsInv'
<1>1. /\ call[p] # Null /\ call[p] \in CallRecord
      /\ CheckedMayGo(call[p]) /\ TypingASecret(call[p]) /\ KnowsItsSecrets(call[p])
  BY DEF PutText, Writing, TypeSecret, At, SecretsInv, SecretsTyped, CallsInv
<1>2. ASSUME PutText(p) PROVE SecretsInv'
  <2>1. call' \in [Process -> CallRecord \cup {Null}] /\ CallsInv'
    BY <1>1, <1>2, NextFieldIsFine DEF PutText, Writing
  <2>2. /\ filled' \in [DOMAIN document -> SUBSET Secret]
        /\ \A e \in DOMAIN document : filled'[e] \subseteq filled[e]
    BY <1>2 DEF PutText, Put, SecretsInv, SecretsTyped
  <2>3. SecretStaysHome'
    BY <1>2, <2>2 DEF PutText, SecretsInv, SecretsTyped, SecretStaysHome
  <2> QED
    BY <1>2, <2>1, <2>2, <2>3
       DEF PutText, SecretsInv, SecretsTyped, OutputsAreScrubbed, NothingReturned
<1>3. ASSUME TypeSecret(p) PROVE SecretsInv'
  <2> DEFINE h == call[p].handle
             s == Field(p).value
  <2>1. /\ call[p].todo # << >> /\ s \in Secret /\ s \in received
        /\ h \in DOMAIN document /\ MayGo(document[h], Home[s])
    <3>1. call[p].todo # << >> /\ s \in Secret
      BY <1>1, <1>3 DEF TypeSecret, At, TypingASecret, Field
    <3>2. s \in received
      BY <1>1, <3>1, NamesOfForms DEF CallRecord, KnowsItsSecrets, Field, NameIn
    <3>3. h \in DOMAIN document /\ MayGo(document[h], Home[s])
      BY <1>1, <1>3 DEF TypeSecret, At, CheckedMayGo, Field
    <3> QED
      BY <3>1, <3>2, <3>3
  <2>2. /\ filled' = [filled EXCEPT ![h] = Put(Field(p).mode, @, {s})]
        /\ given' = given \cup {s}
        /\ UNCHANGED <<document, received>>
    BY <1>3 DEF TypeSecret
  <2>3. /\ filled' \in [DOMAIN document -> SUBSET Secret]
        /\ \A e \in DOMAIN document : filled'[e] \subseteq filled[e] \/ e = h
        /\ filled'[h] \subseteq filled[h] \cup {s}
    BY <2>1, <2>2 DEF Put, SecretsInv, SecretsTyped
  <2>4. SecretStaysHome'
    <3>1. /\ \A i \in DOMAIN document[h].frames : document[h].frames[i] \in Home[s].origins
          /\ KindsOf(document[h].facts) \cap Home[s].fields # {}
      BY <2>1 DEF MayGo, InEveryFrame
    <3> HIDE DEF h, s
    <3>2. ASSUME NEW e \in DOMAIN document, NEW t \in filled'[e]
          PROVE  /\ \A i \in DOMAIN document[e].frames :
                      document[e].frames[i] \in Home[t].origins
                 /\ KindsOf(document[e].facts) \cap Home[t].fields # {}
      <4>1. CASE t \in filled[e]
        BY <3>2, <4>1 DEF SecretsInv, SecretsTyped, SecretStaysHome
      <4>2. CASE t \notin filled[e]
        <5>1. e = h /\ t = s
          BY <2>3, <3>2, <4>2
        <5> QED
          BY <3>1, <5>1
      <4> QED
        BY <4>1, <4>2
    <3>3. DOMAIN filled' = DOMAIN document /\ document' = document
      BY <2>2, <2>3
    <3> QED
      BY <3>2, <3>3 DEF SecretStaysHome
  <2>5. /\ call' \in [Process -> CallRecord \cup {Null}] /\ CallsInv' /\ OutputsAreScrubbed'
    <3>1. CASE NextField(p) /\ NothingReturned
      BY <1>1, <2>1, <2>2, <3>1, NextFieldIsFine DEF OutputsAreScrubbed, NothingReturned
    <3>2. CASE Return(p, Scrub(call[p], given'))
      <4>1. Scrub(call[p], given') \cap (call[p].known \cup call[p].typed) = {}
        BY <1>1, ScrubsAll
      <4>2. {} \cap (call[p].known \cup call[p].typed) = {}
        OBVIOUS
      <4> QED
        BY <2>2, <3>2, <4>1, <4>2, ReturnClean DEF Return, ReturnFile
    <3> QED
      BY <1>3, <3>1, <3>2 DEF TypeSecret
  <2> QED
    BY <2>1, <2>2, <2>3, <2>4, <2>5 DEF SecretsInv, SecretsTyped
<1> QED
  BY <1>2, <1>3

(* A new document is empty, and handles of the one before are no use.      *)
LEMMA LeavesFine ==
  ASSUME SecretsInv, NEW d,
         \/ Wander(d)
         \/ \E p \in Process : Navigated(p, d)
  PROVE  SecretsInv'
<1>1. ASSUME NewDocument(d), UNCHANGED <<given, received>>, NEW calls,
             calls \in [Process -> CallRecord \cup {Null}], call' = Loosened(calls),
             \A q \in Process : calls[q] = call[q] \/ calls[q] = Null,
             OutputsAreScrubbed'
      PROVE  SecretsInv'
  <2>1. \A q \in Process :
          call'[q] = IF calls[q] = Null THEN Null ELSE [calls[q] EXCEPT !.handle = Null]
    BY <1>1 DEF Loosened
  <2>2. \A c \in CallRecord : [c EXCEPT !.handle = Null] \in CallRecord
    BY DEF CallRecord
  <2>3. call' \in [Process -> CallRecord \cup {Null}]
    BY <1>1, <2>2 DEF Loosened
  <2>4. CallsInv'
    <3> SUFFICES ASSUME NEW q \in Process, call'[q] # Null
                 PROVE  (CheckedMayGo(call[q]) /\ TypingASecret(call[q]) /\ KnowsItsSecrets(call[q]))'
      BY DEF CallsInv
    <3>1. /\ call[q] # Null /\ call[q] \in CallRecord
          /\ TypingASecret(call[q]) /\ KnowsItsSecrets(call[q])
      BY <1>1, <2>1 DEF SecretsInv, CallsInv
    <3>2. call'[q] = [call[q] EXCEPT !.handle = Null]
      BY <1>1, <2>1, <3>1
    <3>3. /\ call'[q].handle = Null /\ call'[q].step = call[q].step /\ call'[q].todo = call[q].todo
          /\ call'[q].known = call[q].known /\ call'[q].prior = call[q].prior
          /\ call'[q].typed = call[q].typed /\ call'[q].scoped = call[q].scoped
          /\ call'[q].op = call[q].op
      BY <3>1, <3>2 DEF CallRecord
    <3> QED
      BY <1>1, <3>1, <3>3 DEF CheckedMayGo, TypingASecret, KnowsItsSecrets
  <2>5. filled' \in [DOMAIN document' -> SUBSET Secret] /\ \A e \in DOMAIN filled' : filled'[e] = {}
    BY <1>1 DEF NewDocument
  <2>6. SecretStaysHome'
    BY <2>5 DEF SecretStaysHome
  <2> QED
    BY <1>1, <2>3, <2>4, <2>5, <2>6 DEF SecretsInv, SecretsTyped
<1>2. ASSUME Wander(d) PROVE SecretsInv'
  BY <1>1, <1>2 DEF Wander, SecretsInv, SecretsTyped, OutputsAreScrubbed, NothingReturned
<1>3. ASSUME NEW p \in Process, Navigated(p, d) PROVE SecretsInv'
  <2>1. PICK calls : calls = [call EXCEPT ![p] = Null]
    OBVIOUS
  <2>2. /\ calls \in [Process -> CallRecord \cup {Null}]
        /\ \A q \in Process : calls[q] = call[q] \/ calls[q] = Null
    BY <2>1 DEF SecretsInv, SecretsTyped
  <2>3. call[p] # Null
    BY <1>3 DEF Navigated, Done, At
  <2>4. OutputsAreScrubbed'
    BY <1>3, <2>3, ScrubsAll DEF Navigated, OutputsAreScrubbed
  <2> QED
    BY <1>1, <1>3, <2>1, <2>2, <2>4 DEF Navigated
<1> QED
  BY <1>2, <1>3

LEMMA SecretsInvariant == SecretsSpec => []SecretsInv
<1>1. SecretsInit => SecretsInv
  <2> SUFFICES ASSUME SecretsInit PROVE SecretsInv
    OBVIOUS
  <2>1. SecretsTyped
    BY DEF SecretsInit, SecretsTyped
  <2>2. CallsInv /\ SecretStaysHome /\ OutputsAreScrubbed
    BY DEF SecretsInit, CallsInv, SecretStaysHome, OutputsAreScrubbed
  <2> QED
    BY <2>1, <2>2 DEF SecretsInv, SecretsInit
<1>2. SecretsInv /\ [SecretsNext]_secretsVars => SecretsInv'
  <2> SUFFICES ASSUME SecretsInv, [SecretsNext]_secretsVars PROVE SecretsInv'
    OBVIOUS
  <2>1. CASE SecretsNext
    <3>1. \/ \E p \in Process :
               \/ DecideNavigate(p) \/ DecideRead(p) \/ DecideCapture(p) \/ DecideEvaluate(p)
               \/ \E form \in Forms : DecideAct(p, form)
          \/ \E p \in Process :
               ResolveReceived(p) \/ Acted(p) \/ ReadBack(p) \/ Capture(p) \/ Evaluate(p)
                 \/ WorkFails(p) \/ Die(p)
          \/ \E p \in Process : ResolveSecret(p) \/ TakeHandle(p) \/ Check(p)
          \/ \E p \in Process : PutText(p) \/ TypeSecret(p)
          \/ \E d \in Document : Wander(d) \/ \E p \in Process : Navigated(p, d)
      BY <2>1 DEF SecretsNext
    <3> QED
      BY <3>1, DecidesFine, ReturnsFine, ApproachFine, FillsFine, LeavesFine
  <2>2. CASE UNCHANGED secretsVars
    BY <2>2 DEF secretsVars, pageVars, SecretsInv, SecretsTyped, CallsInv, CheckedMayGo,
       TypingASecret, KnowsItsSecrets, SecretStaysHome, OutputsAreScrubbed
  <2> QED
    BY <2>1, <2>2
<1> QED
  BY <1>1, <1>2, PTL DEF SecretsSpec

(* A secret is in a field only where the operator's command said it may    *)
(* go, whatever the page, the person and other processes do between the    *)
(* check and the typing (SCHEMA section 3.8a).                             *)
THEOREM SecretsStayHome == SecretsSpec => []SecretStaysHome
<1>1. SecretsInv => SecretStaysHome
  BY DEF SecretsInv
<1> QED
  BY <1>1, SecretsInvariant, PTL

(* What a page was given before a call was decided, or by that call, is in *)
(* nothing that call gives back, but for the names of the files an act or  *)
(* a read writes.                                                          *)
THEOREM ScrubbedOutputs == SecretsSpec => []OutputsAreScrubbed
<1>1. SecretsInv => OutputsAreScrubbed
  BY DEF SecretsInv
<1> QED
  BY <1>1, SecretsInvariant, PTL

-----------------------------------------------------------------------------
(* Session: names of elements.                                             *)

\* Elements with a name have names of their own, the first few.
NamedApart(known) ==
  /\ \A e, f \in Elements : known[e] # 0 /\ known[e] = known[f] => e = f
  /\ \A e \in Elements : known[e] <= Cardinality(WithName(known))

LEMMA ElementsFinite ==
  ASSUME NEW S, S \subseteq Elements
  PROVE  IsFiniteSet(S) /\ Cardinality(S) \in Nat
<1>1. Size \in Nat
  BY SessionAssumption
<1>2. IsFiniteSet(Elements)
  BY <1>1, FS_Interval DEF Elements
<1> QED
  BY <1>2, FS_Subset, FS_CardinalityType

(* Where an element comes among some of them.                              *)
LEMMA PlacesApart ==
  ASSUME NEW new, new \subseteq Elements, NEW e \in new
  PROVE  /\ Cardinality({x \in new : x <= e}) \in 1 .. Cardinality(new)
         /\ \A f \in new : f < e =>
              Cardinality({x \in new : x <= f}) < Cardinality({x \in new : x <= e})
<1> DEFINE Upto(f) == {x \in new : x <= f}
<1>1. Size \in Nat /\ Elements \subseteq Int
  BY SessionAssumption DEF Elements
<1>2. \A f \in new : IsFiniteSet(Upto(f)) /\ Cardinality(Upto(f)) \in Nat
  BY ElementsFinite
<1>3. IsFiniteSet(new) /\ Cardinality(new) \in Nat
  BY ElementsFinite
<1>4. Cardinality(Upto(e)) <= Cardinality(new)
  BY <1>3, FS_Subset
<1>5. Cardinality(Upto(e)) # 0
  <2>1. e \in Upto(e)
    BY <1>1
  <2> QED
    BY <1>2, <2>1, FS_EmptySet
<1>6. ASSUME NEW f \in new, f < e
      PROVE  Cardinality(Upto(f)) < Cardinality(Upto(e))
  <2>1. Upto(f) \subseteq Upto(e) /\ e \in Upto(e) /\ e \notin Upto(f)
    <3>1. new \subseteq Int /\ e \in Int /\ f \in Int
      BY <1>1
    <3>2. \A x \in new : x <= f => x <= e
      BY <1>6, <3>1
    <3>3. e <= e /\ ~(e <= f)
      BY <1>6, <3>1
    <3> QED
      BY <3>2, <3>3, Zenon
  <2>2. Upto(f) # Upto(e)
    BY <2>1
  <2> HIDE DEF Upto
  <2>3. Cardinality(Upto(f)) <= Cardinality(Upto(e))
        /\ (Cardinality(Upto(f)) = Cardinality(Upto(e)) => Upto(f) = Upto(e))
    BY <1>2, <2>1, FS_Subset
  <2> QED
    BY <1>2, <2>2, <2>3
<1> QED
  BY <1>2, <1>3, <1>4, <1>5, <1>6

(* A snapshot adds names and changes none.                                 *)
LEMMA NamingKeepsNames ==
  ASSUME NEW known \in [Elements -> Nat], NEW elements, elements \subseteq Elements
  PROVE  /\ Named(known, elements) \in [Elements -> Nat]
         /\ \A e \in Elements : known[e] # 0 => Named(known, elements)[e] = known[e]
         /\ \A e \in elements : Named(known, elements)[e] # 0
         /\ WithName(Named(known, elements)) = WithName(known) \cup elements
         /\ NamedApart(known) => NamedApart(Named(known, elements))
<1> DEFINE had == WithName(known)
           new == elements \ had
           now == Named(known, elements)
           Place(e) == Cardinality({x \in new : x <= e})
<1>1. /\ had \subseteq Elements /\ new \subseteq Elements
      /\ Cardinality(had) \in Nat /\ Cardinality(new) \in Nat
      /\ IsFiniteSet(had) /\ IsFiniteSet(new)
  BY ElementsFinite DEF WithName
<1>2. \A e \in new : Place(e) \in 1 .. Cardinality(new)
  BY <1>1, PlacesApart
<1>3. \A e, f \in new : f < e => Place(f) < Place(e)
  BY <1>1, PlacesApart
<1>4. /\ now \in [Elements -> Nat]
      /\ \A e \in new : now[e] = Cardinality(had) + Place(e)
      /\ \A e \in Elements \ new : now[e] = known[e]
  <2>1. now = [e \in Elements |-> IF e \in new THEN Cardinality(had) + Place(e) ELSE known[e]]
    BY DEF Named
  <2>2. \A e \in new : Cardinality(had) + Place(e) \in Nat
    BY <1>1, <1>2
  <2> HIDE DEF now, new, had, Place
  <2> QED
    BY <1>1, <2>1, <2>2
<1>5. \A e \in Elements : e \in had <=> known[e] # 0
  BY DEF WithName
<1> HIDE DEF Place, now, new
<1>6. \A e \in new : now[e] > Cardinality(had) /\ now[e] <= Cardinality(had) + Cardinality(new)
  BY <1>1, <1>2, <1>4
<1>7. WithName(now) = had \cup elements
  <2>1. \A e \in new : now[e] # 0
    BY <1>1, <1>6
  <2>2. \A e \in Elements : now[e] # 0 <=> e \in new \/ e \in had
    BY <1>1, <1>4, <1>5, <2>1 DEF new
  <2> QED
    BY <1>1, <2>2 DEF WithName, new
<1>8. Cardinality(WithName(now)) = Cardinality(had) + Cardinality(new)
  <2>1. WithName(now) = had \cup new /\ had \cap new = {}
    BY <1>7 DEF new
  <2> QED
    BY <1>1, <2>1, FS_Union, FS_EmptySet
<1>9. ASSUME NamedApart(known) PROVE NamedApart(now)
  <2>1. \A e \in Elements : now[e] <= Cardinality(WithName(now))
    BY <1>1, <1>4, <1>6, <1>8, <1>9 DEF NamedApart
  <2>2. ASSUME NEW e \in Elements, NEW f \in Elements, now[e] # 0, now[e] = now[f]
        PROVE  e = f
    <3>1. CASE e \in new /\ f \in new
      <4>1. Place(e) = Place(f)
        BY <1>1, <1>2, <1>4, <2>2, <3>1
      <4>2. ~(e < f) /\ ~(f < e)
        BY <1>2, <1>3, <3>1, <4>1
      <4> QED
        BY <4>2, SessionAssumption DEF Elements
    <3>2. CASE e \notin new /\ f \notin new
      BY <1>4, <1>9, <2>2, <3>2 DEF NamedApart
    <3>3. \A x, y \in Elements : x \in new /\ y \notin new => now[x] # now[y]
      BY <1>1, <1>4, <1>6, <1>9 DEF NamedApart
    <3> QED
      BY <2>2, <3>1, <3>2, <3>3
  <2> QED
    BY <2>1, <2>2 DEF NamedApart
<1>10. \A e \in Elements : known[e] # 0 => now[e] = known[e]
  BY <1>4, <1>5 DEF new
<1>11. \A e \in elements : now[e] # 0
  BY <1>7 DEF WithName
<1> QED
  BY <1>4, <1>7, <1>9, <1>10, <1>11 DEF now

LEMMA NamelessApart == Nameless \in [Elements -> Nat] /\ NamedApart(Nameless)
<1>1. WithName(Nameless) = {}
  BY DEF WithName, Nameless
<1>2. Cardinality(WithName(Nameless)) = 0
  BY <1>1, FS_EmptySet
<1> QED
  BY <1>2 DEF Nameless, NamedApart

Told == [by : Conn \cup {None}, page : Page, names : [Elements -> Nat],
         fresh : BOOLEAN, loaded : BOOLEAN]

\* The snapshot last handed out is of names its connection still uses, until
\* another document is loaded, and a fresh one of the page as it is.
ToldIsTrue ==
  told # None =>
    /\ told \in Told
    /\ told.by # None /\ ~told.loaded =>
         \A e \in WithName(told.names) : names[told.by][told.page][e] = told.names[e]
    /\ told.fresh => told.names = Named(Nameless, tree[told.page])

NamesInv ==
  /\ tree \in [Page -> SUBSET Elements]
  /\ names \in [Conn -> [Page -> [Elements -> Nat]]]
  /\ \A c \in Conn, p \in Page : NamedApart(names[c][p])
  /\ ToldIsTrue

(* Connections add to their names of one page, at most.                    *)
LEMMA NamesGrow ==
  ASSUME NamesInv, NEW c \in Conn, NEW p \in Page, NEW known \in [Elements -> Nat],
         \A e \in Elements : names[c][p][e] # 0 => known[e] = names[c][p][e],
         NamedApart(known),
         names' = [names EXCEPT ![c] = [q \in Page |-> IF q = p THEN known ELSE names[c][q]]]
  PROVE  /\ names' \in [Conn -> [Page -> [Elements -> Nat]]]
         /\ \A d \in Conn, q \in Page : NamedApart(names'[d][q])
         /\ names'[c][p] = known
         /\ \A d \in Conn, q \in Page, e \in Elements :
              names[d][q][e] # 0 => names'[d][q][e] = names[d][q][e]
<1>1. /\ names' \in [Conn -> [Page -> [Elements -> Nat]]] /\ names'[c][p] = known
      /\ \A d \in Conn, q \in Page : (d = c /\ q = p) \/ names'[d][q] = names[d][q]
  BY DEF NamesInv
<1>2. \A d \in Conn, q \in Page : NamedApart(names'[d][q])
  BY <1>1 DEF NamesInv
<1> QED
  BY <1>1, <1>2

(* A snapshot is handed out.                                               *)
LEMMA HandedFine ==
  ASSUME NamesInv, NEW c \in Conn, NEW p \in Page, Handed(c, p), UNCHANGED tree
  PROVE  NamesInv'
<1>1. PICK known : known = Named(names[c][p], tree[p])
  OBVIOUS
<1>2. names[c][p] \in [Elements -> Nat] /\ tree[p] \subseteq Elements /\ NamedApart(names[c][p])
  BY DEF NamesInv
<1>3. /\ known \in [Elements -> Nat] /\ NamedApart(known)
      /\ \A e \in Elements : names[c][p][e] # 0 => known[e] = names[c][p][e]
  BY <1>1, <1>2, NamingKeepsNames
<1>4. names' = [names EXCEPT ![c] = [q \in Page |-> IF q = p THEN known ELSE names[c][q]]]
  BY <1>1 DEF Handed, NamesInv
<1>5. /\ names' \in [Conn -> [Page -> [Elements -> Nat]]] /\ names'[c][p] = known
      /\ \A d \in Conn, q \in Page : NamedApart(names'[d][q])
  BY <1>3, <1>4, NamesGrow
<1>6. told' = [by |-> c, page |-> p, names |-> known, fresh |-> names[c][p] = Nameless,
               loaded |-> FALSE]
  BY <1>5 DEF Handed, Telling
<1>7. /\ told' \in Told /\ told'.by = c /\ told'.page = p /\ told'.names = known
      /\ told'.fresh = (names[c][p] = Nameless)
  BY <1>3, <1>6 DEF Told
<1>8. told'.fresh => told'.names = Named(Nameless, tree'[p])
  BY <1>1, <1>7
<1>9. ToldIsTrue'
  BY <1>5, <1>7, <1>8 DEF ToldIsTrue
<1> QED
  BY <1>5, <1>9 DEF NamesInv

(* A page is gone, or has another document.                                *)
LEMMA RenewedFine ==
  ASSUME NamesInv, NEW p \in Page, NEW elements \in SUBSET Elements,
         tree' = [tree EXCEPT ![p] = elements], names' = Without(names, p, Nameless),
         \/ told' = None
         \/ told' = IF ToldOf(p) THEN [told EXCEPT !.fresh = FALSE, !.loaded = TRUE] ELSE told
         \/ ~ToldOf(p) /\ told' = told
  PROVE  NamesInv'
<1>1. /\ names' \in [Conn -> [Page -> [Elements -> Nat]]]
      /\ \A d \in Conn, q \in Page : names'[d][q] = IF q = p THEN Nameless ELSE names[d][q]
  BY NamelessApart DEF NamesInv, Without
<1>2. \A d \in Conn, q \in Page : NamedApart(names'[d][q])
  BY <1>1, NamelessApart DEF NamesInv
<1>3. tree' \in [Page -> SUBSET Elements] /\ \A q \in Page : q = p \/ tree'[q] = tree[q]
  BY DEF NamesInv
<1>4. ToldIsTrue'
  <2> SUFFICES ASSUME told' # None PROVE ToldIsTrue'
    BY DEF ToldIsTrue
  <2>1. CASE told' = told /\ told # None /\ told.page # p
    <3>1. told \in Told /\ told.page \in Page /\ told.by \in Conn \cup {None}
      BY <2>1 DEF NamesInv, ToldIsTrue, Told
    <3> QED
      BY <1>1, <1>3, <2>1, <3>1 DEF NamesInv, ToldIsTrue
  <2>2. CASE told # None /\ told' = [told EXCEPT !.fresh = FALSE, !.loaded = TRUE]
    <3>1. told \in Told
      BY <2>2 DEF NamesInv, ToldIsTrue
    <3>2. told' \in Told /\ ~told'.fresh /\ told'.loaded
      BY <2>2, <3>1 DEF Told
    <3> QED
      BY <3>2 DEF ToldIsTrue
  <2> QED
    BY <2>1, <2>2 DEF ToldOf
<1> QED
  BY <1>1, <1>2, <1>3, <1>4 DEF NamesInv

LEMMA ActFine ==
  ASSUME NamesInv, NEW c \in Conn, NEW p \in Page, NEW n \in Elements, Act(c, p, n)
  PROVE  NamesInv'
<1>1. names[c][p] \in [Elements -> Nat] /\ tree[p] \subseteq Elements /\ NamedApart(names[c][p])
  BY DEF NamesInv
<1>2. PICK known : known = Locate(c, p)
  OBVIOUS
<1>3. /\ known \in [Elements -> Nat] /\ NamedApart(known)
      /\ \A e \in Elements : names[c][p][e] # 0 => known[e] = names[c][p][e]
  BY <1>1, <1>2, NamingKeepsNames DEF Locate
<1>4. CASE names' = [names EXCEPT ![c][p] = Locate(c, p)] /\ UNCHANGED <<tree, told>>
  <2>0. names' = [names EXCEPT ![c] = [q \in Page |-> IF q = p THEN known ELSE names[c][q]]]
    BY <1>2, <1>4 DEF NamesInv
  <2>1. /\ names' \in [Conn -> [Page -> [Elements -> Nat]]]
        /\ \A d \in Conn, q \in Page : NamedApart(names'[d][q])
        /\ \A d \in Conn, q \in Page, e \in Elements :
             names[d][q][e] # 0 => names'[d][q][e] = names[d][q][e]
    BY <1>3, <2>0, NamesGrow
  <2>2. ToldIsTrue'
    <3> SUFFICES ASSUME told' # None PROVE ToldIsTrue'
      BY DEF ToldIsTrue
    <3>1. told' = told /\ told # None /\ told \in Told /\ told.names \in [Elements -> Nat]
      BY <1>4 DEF NamesInv, ToldIsTrue, Told
    <3>2. told.page \in Page /\ told.by \in Conn \cup {None}
      BY <3>1 DEF Told
    <3> QED
      BY <1>4, <2>1, <3>1, <3>2 DEF NamesInv, ToldIsTrue, WithName
  <2> QED
    BY <1>4, <2>1, <2>2 DEF NamesInv
<1>5. CASE /\ tree' \in {tree, [tree EXCEPT ![p] = @ \ {Hit(c, p, n)}]}
           /\ names' = [names EXCEPT ![c][p] = Named(Locate(c, p), tree'[p])]
           /\ told' = Telling(c, p, names'[c][p], FALSE)
  <2>1. tree' \in [Page -> SUBSET Elements]
    BY <1>5 DEF NamesInv
  <2>2. PICK more : more = Named(known, tree'[p])
    OBVIOUS
  <2>3. tree'[p] \subseteq Elements
    BY <2>1
  <2>4. /\ more \in [Elements -> Nat] /\ NamedApart(more)
        /\ \A e \in Elements : known[e] # 0 => more[e] = known[e]
    BY <1>3, <2>2, <2>3, NamingKeepsNames
  <2>5. names' = [names EXCEPT ![c] = [q \in Page |-> IF q = p THEN more ELSE names[c][q]]]
    BY <1>2, <1>5, <2>2 DEF NamesInv
  <2>6. /\ names' \in [Conn -> [Page -> [Elements -> Nat]]] /\ names'[c][p] = more
        /\ \A d \in Conn, q \in Page : NamedApart(names'[d][q])
    BY <1>3, <2>4, <2>5, NamesGrow
  <2>7. told' = [by |-> c, page |-> p, names |-> more, fresh |-> FALSE, loaded |-> FALSE]
    BY <1>5, <2>6 DEF Telling
  <2>8. ToldIsTrue'
    BY <2>4, <2>6, <2>7 DEF ToldIsTrue, Told
  <2> QED
    BY <2>1, <2>6, <2>8 DEF NamesInv
<1> QED
  BY <1>4, <1>5 DEF Act

(* The steps that have nothing to do with names.                           *)
LEMMA NamesUntouched ==
  ASSUME NamesInv, UNCHANGED <<tree, names, told>>
  PROVE  NamesInv'
BY DEF NamesInv, ToldIsTrue

LEMMA DetachFine ==
  ASSUME NamesInv, NEW c \in Conn, Detach(c)
  PROVE  NamesInv'
<1>1. /\ names' \in [Conn -> [Page -> [Elements -> Nat]]] /\ UNCHANGED tree
      /\ \A d \in Conn, q \in Page : names'[d][q] = IF d = c THEN Nameless ELSE names[d][q]
  BY NamelessApart DEF Detach, browserVars, NamesInv
<1>2. \A d \in Conn, q \in Page : NamedApart(names'[d][q])
  BY <1>1, NamelessApart DEF NamesInv
<1>3. ToldIsTrue'
  <2>1. CASE told # None /\ told.by = c
    <3>1. told' = [told EXCEPT !.by = None] /\ told \in Told
      BY <2>1 DEF Detach, NamesInv, ToldIsTrue
    <3>2. /\ told' \in Told /\ told'.by = None /\ told'.page = told.page
          /\ told'.names = told.names /\ told'.fresh = told.fresh
          /\ told'.loaded = told.loaded
      BY <3>1 DEF Told
    <3> QED
      BY <1>1, <2>1, <3>2 DEF NamesInv, ToldIsTrue
  <2>2. CASE told = None
    BY <2>2 DEF Detach, ToldIsTrue
  <2>3. CASE told # None /\ told.by # c
    <3>1. told' = told /\ told \in Told /\ told.page \in Page /\ told.by \in Conn \cup {None}
      BY <2>3 DEF Detach, NamesInv, ToldIsTrue, Told
    <3> QED
      BY <1>1, <2>3, <3>1 DEF NamesInv, ToldIsTrue
  <2> QED
    BY <2>1, <2>2, <2>3
<1> QED
  BY <1>1, <1>2, <1>3 DEF NamesInv

LEMMA ElementGoesFine ==
  ASSUME NamesInv, NEW p \in Page, NEW e \in Elements, ElementGoes(p, e)
  PROVE  NamesInv'
<1>1. /\ tree' \in [Page -> SUBSET Elements] /\ UNCHANGED names
      /\ \A q \in Page : q = p \/ tree'[q] = tree[q]
  BY DEF ElementGoes, NamesInv
<1>2. ToldIsTrue'
  <2>1. CASE told # None /\ told.page = p
    <3>1. told' = [told EXCEPT !.fresh = FALSE] /\ told \in Told
      BY <2>1 DEF ElementGoes, Stale, ToldOf, NamesInv, ToldIsTrue
    <3>2. /\ told' \in Told /\ told'.by = told.by /\ told'.page = told.page
          /\ told'.names = told.names /\ told'.fresh = FALSE
          /\ told'.loaded = told.loaded
      BY <3>1 DEF Told
    <3> QED
      BY <1>1, <2>1, <3>2 DEF NamesInv, ToldIsTrue
  <2>2. CASE told = None
    BY <2>2 DEF ElementGoes, Stale, ToldOf, ToldIsTrue
  <2>3. CASE told # None /\ told.page # p
    <3>1. told' = told /\ told \in Told /\ told.page \in Page
      BY <2>3 DEF ElementGoes, Stale, ToldOf, NamesInv, ToldIsTrue, Told
    <3> QED
      BY <1>1, <2>3, <3>1 DEF NamesInv, ToldIsTrue
  <2> QED
    BY <2>1, <2>2, <2>3
<1> QED
  BY <1>1, <1>2 DEF NamesInv

LEMMA NamesInvariant == Spec => []NamesInv
<1>1. Init => NamesInv
  BY NamelessApart DEF Init, NamesInv, ToldIsTrue
<1>2. NamesInv /\ [Next]_vars => NamesInv'
  <2> SUFFICES ASSUME NamesInv, [Next]_vars PROVE NamesInv'
    OBVIOUS
  <2> USE DEF refVars, browserVars
  <2>1. ASSUME NEW c \in Conn, Attach(c) \/ ListTabs(c) PROVE NamesInv'
    BY <2>1, NamesUntouched DEF Attach, ListTabs
  <2>2. ASSUME NEW c \in Conn, Detach(c) PROVE NamesInv'
    BY <2>2, DetachFine
  <2>3. ASSUME NEW c \in Conn, NEW p \in Page, OpenKeeper(c, p) \/ OpenTab(c, p)
        PROVE  NamesInv'
    BY <2>3, NamesUntouched DEF OpenKeeper, OpenTab, NewPage
  <2>4. ASSUME NEW p \in Page, PageGone(p) PROVE NamesInv'
    <3>1. {} \in SUBSET Elements
      OBVIOUS
    <3> QED
      BY <2>4, <3>1, RenewedFine DEF PageGone
  <2>5. ASSUME NEW p \in Page, Load(p) PROVE NamesInv'
    BY <2>5, RenewedFine DEF Load
  <2>6. ASSUME NEW c \in Conn, NEW p \in Page, CloseTab(c, p) \/ Navigate(c, p)
        PROVE  NamesInv'
    BY <2>4, <2>5, <2>6 DEF CloseTab, Navigate
  <2>7. ASSUME NEW c \in Conn, NEW p \in Page,
               Read(c, p) \/ \E accept \in BOOLEAN : Arm(c, p, accept)
        PROVE  NamesInv'
    BY <2>7, HandedFine DEF Read, Arm
  <2>8. ASSUME NEW c \in Conn, NEW p \in Page, NEW n \in Elements, Act(c, p, n)
        PROVE  NamesInv'
    BY <2>8, ActFine
  <2>9. ASSUME NEW p \in Page,
               DialogOpens(p) \/ AnsweredByHand(p) \/ \E c \in Conn : HandleDialog(c, p)
        PROVE  NamesInv'
    BY <2>9, NamesUntouched DEF DialogOpens, AnsweredByHand, HandleDialog
  <2>10. ASSUME NEW p \in Page, ClosedByHand(p) \/ LinkFollowed(p) PROVE NamesInv'
    BY <2>4, <2>5, <2>10 DEF ClosedByHand, LinkFollowed
  <2>11. ASSUME NEW p \in Page, NEW e \in Elements, ElementGoes(p, e) PROVE NamesInv'
    BY <2>11, ElementGoesFine
  <2>12. CASE UNCHANGED vars
    BY <2>12, NamesUntouched DEF vars
  <2> QED
    BY <2>1, <2>2, <2>3, <2>6, <2>7, <2>8, <2>9, <2>10, <2>11, <2>12 DEF Next, SessionStep
<1> QED
  BY <1>1, <1>2, PTL DEF Spec

(* A name of an element, if it is of no other, finds that element or none. *)
LEMMA HitByName ==
  ASSUME NEW c \in Conn, NEW p \in Page, NEW e \in Elements, tree[p] \subseteq Elements,
         NamedApart(Locate(c, p)), NEW n, n # 0, Locate(c, p)[e] = n
  PROVE  Hit(c, p, n) = IF e \in tree[p] THEN e ELSE None
<1>1. \A x \in tree[p] : Locate(c, p)[x] = n => x = e
  BY DEF NamedApart
<1>2. CASE e \in tree[p]
  <2>1. (CHOOSE x \in tree[p] : Locate(c, p)[x] = n) = e
    BY <1>1, <1>2
  <2> QED
    BY <1>2, <2>1 DEF Hit, Resolves
<1>3. CASE e \notin tree[p]
  BY <1>1, <1>3 DEF Hit, Resolves
<1> QED
  BY <1>2, <1>3

(* Acting by a name handed out acts on the element it was given to, or on  *)
(* none, while its document stands; once another is loaded, on none, if    *)
(* its connection has looked names up before and taken no snapshot since;  *)
(* and on a page unchanged, whoever meets it first finds it (#locate).     *)
THEOREM RefsHit == Spec => []RefHitsWhatWasRead
<1>1. NamesInv => RefHitsWhatWasRead
  <2> SUFFICES ASSUME NamesInv, told # None, NEW e \in WithName(told.names)
               PROVE  /\ told.by # None /\ ~told.loaded
                           => Hit(told.by, told.page, told.names[e]) \in {e, None}
                      /\ told.by # None /\ told.page \in referenced[told.by]
                           /\ names[told.by][told.page] = Nameless
                           => Hit(told.by, told.page, told.names[e]) = None
                      /\ told.fresh => \A c \in Conn :
                           names[c][told.page] = Nameless /\ told.page \notin referenced[c]
                             => Hit(c, told.page, told.names[e]) = e
    BY DEF RefHitsWhatWasRead
  <2>1. /\ told \in Told /\ told.page \in Page /\ told.by \in Conn \cup {None}
        /\ e \in Elements /\ told.names[e] # 0
    BY DEF NamesInv, ToldIsTrue, Told, WithName
  <2>2. \A c \in Conn : /\ names[c][told.page] \in [Elements -> Nat]
                        /\ NamedApart(names[c][told.page])
    BY <2>1 DEF NamesInv
  <2>3. tree[told.page] \subseteq Elements
    BY <2>1 DEF NamesInv
  <2>4. \A c \in Conn : NamedApart(Locate(c, told.page))
    BY <2>2, <2>3, NamingKeepsNames DEF Locate
  <2>5. ASSUME told.by # None, ~told.loaded
        PROVE  Hit(told.by, told.page, told.names[e]) \in {e, None}
    <3>1. told.by \in Conn
      BY <2>1, <2>5
    <3>2. names[told.by][told.page][e] = told.names[e]
      BY <2>5 DEF NamesInv, ToldIsTrue
    <3>3. Locate(told.by, told.page)[e] = told.names[e]
      BY <2>1, <2>2, <2>3, <3>1, <3>2, NamingKeepsNames DEF Locate
    <3> QED
      BY <2>1, <2>3, <2>4, <3>1, <3>3, HitByName
  <2>6. ASSUME told.fresh, NEW c \in Conn, names[c][told.page] = Nameless,
               told.page \notin referenced[c]
        PROVE  Hit(c, told.page, told.names[e]) = e
    <3>1. told.names = Named(Nameless, tree[told.page])
      BY <2>6 DEF NamesInv, ToldIsTrue
    <3>2. Locate(c, told.page) = told.names
      BY <2>6, <3>1 DEF Locate
    <3>3. WithName(Nameless) = {}
      BY DEF WithName, Nameless
    <3>4. e \in tree[told.page]
      BY <2>3, <3>1, <3>3, NamelessApart, NamingKeepsNames
    <3> QED
      BY <2>1, <2>3, <2>4, <3>2, <3>4, HitByName
  <2>7. ASSUME told.page \in referenced[told.by], names[told.by][told.page] = Nameless
        PROVE  Hit(told.by, told.page, told.names[e]) = None
    <3>1. Locate(told.by, told.page) = Nameless
      BY <2>7 DEF Locate
    <3>2. ~Resolves(Nameless, told.names[e], tree[told.page])
      BY <2>1, <2>3 DEF Resolves, Nameless
    <3> QED
      BY <3>1, <3>2 DEF Hit
  <2> QED
    BY <2>5, <2>6, <2>7
<1> QED
  BY <1>1, NamesInvariant, PTL

-----------------------------------------------------------------------------
(* Session: dialogs.                                                       *)

ArmedFor(p) == {c \in Conn : p \in armed[c]}

\* Every answer somebody will give was ordered, and none of them twice.
DialogsInv ==
  /\ armed \in [Conn -> SUBSET Page]
  /\ unspent \in [Page -> Int]
  /\ \A p \in Page : Cardinality(ArmedFor(p)) <= unspent[p]

LEMMA SomeConnections ==
  ASSUME NEW S, S \subseteq Conn
  PROVE  /\ IsFiniteSet(S) /\ Cardinality(S) \in Nat
         /\ \A T \in SUBSET S : Cardinality(T) <= Cardinality(S)
         /\ \A c \in Conn : /\ Cardinality(S \cup {c}) <= Cardinality(S) + 1
                            /\ c \in S => Cardinality(S \ {c}) = Cardinality(S) - 1
<1>1. IsFiniteSet(S) /\ Cardinality(S) \in Nat
  BY SessionAssumption, FS_Subset, FS_CardinalityType
<1>2. \A T \in SUBSET S : Cardinality(T) <= Cardinality(S)
  BY <1>1, FS_Subset
<1>3. \A c \in Conn : Cardinality(S \cup {c}) <= Cardinality(S) + 1
  <2> TAKE c \in Conn
  <2>1. Cardinality(S \cup {c}) = IF c \in S THEN Cardinality(S) ELSE Cardinality(S) + 1
    BY <1>1, FS_AddElement
  <2> QED
    BY <1>1, <2>1
<1>4. \A c \in S : Cardinality(S \ {c}) = Cardinality(S) - 1
  <2> TAKE c \in S
  <2>1. Cardinality(S \ {c}) = IF c \in S THEN Cardinality(S) - 1 ELSE Cardinality(S)
    BY <1>1, FS_RemoveElement
  <2> QED
    BY <2>1
<1> QED
  BY <1>1, <1>2, <1>3, <1>4

(* Orders that are dropped without an answer cost nothing.                 *)
LEMMA OrdersDropped ==
  ASSUME DialogsInv, armed' \in [Conn -> SUBSET Page], UNCHANGED unspent,
         \A c \in Conn : armed'[c] \subseteq armed[c]
  PROVE  DialogsInv'
<1>1. ASSUME NEW p \in Page PROVE Cardinality(ArmedFor(p)') <= unspent'[p]
  <2>1. ArmedFor(p)' \subseteq ArmedFor(p) /\ ArmedFor(p) \subseteq Conn
    BY DEF ArmedFor
  <2>2. Cardinality(ArmedFor(p)') \in Nat /\ Cardinality(ArmedFor(p)) \in Nat
        /\ Cardinality(ArmedFor(p)') <= Cardinality(ArmedFor(p))
    BY <2>1, SomeConnections
  <2>3. Cardinality(ArmedFor(p)) <= unspent[p] /\ unspent[p] \in Int
    BY DEF DialogsInv
  <2> QED
    BY <2>2, <2>3
<1> QED
  BY <1>1 DEF DialogsInv

LEMMA PageGoneFine ==
  ASSUME DialogsInv, NEW p \in Page, PageGone(p)
  PROVE  DialogsInv'
<1>1. armed' \in [Conn -> SUBSET Page] /\ unspent' \in [Page -> Int]
  BY DEF PageGone, DialogsInv
<1>2. ASSUME NEW q \in Page PROVE Cardinality(ArmedFor(q)') <= unspent'[q]
  <2>1. CASE q = p
    <3>1. ArmedFor(q)' = {} /\ unspent'[q] = 0
      BY <2>1 DEF PageGone, DialogsInv, ArmedFor
    <3> QED
      BY <3>1, FS_EmptySet
  <2>2. CASE q # p
    <3>1. ArmedFor(q)' = ArmedFor(q) /\ unspent'[q] = unspent[q]
      BY <2>2 DEF PageGone, DialogsInv, ArmedFor
    <3> QED
      BY <3>1 DEF DialogsInv
  <2> QED
    BY <2>1, <2>2
<1> QED
  BY <1>1, <1>2 DEF DialogsInv

LEMMA ArmFine ==
  ASSUME DialogsInv, NEW c \in Conn, NEW p \in Page, NEW accept \in BOOLEAN,
         Arm(c, p, accept)
  PROVE  DialogsInv'
<1>1. CASE accept
  <2>1. /\ armed' \in [Conn -> SUBSET Page] /\ unspent' \in [Page -> Int]
        /\ \A q \in Page : unspent'[q] = IF q = p THEN unspent[q] + 1 ELSE unspent[q]
    BY <1>1 DEF Arm, DialogsInv
  <2>2. ASSUME NEW q \in Page PROVE Cardinality(ArmedFor(q)') <= unspent'[q]
    <3>1. Cardinality(ArmedFor(q)) <= unspent[q] /\ unspent[q] \in Int
      BY DEF DialogsInv
    <3>2. ArmedFor(q) \subseteq Conn
      BY DEF ArmedFor
    <3>3. CASE q = p
      <4>1. ArmedFor(q)' = ArmedFor(q) \cup {c}
        BY <1>1, <3>3 DEF Arm, DialogsInv, ArmedFor
      <4>2. Cardinality(ArmedFor(q) \cup {c}) <= Cardinality(ArmedFor(q)) + 1
        BY <3>2, SomeConnections
      <4>3. Cardinality(ArmedFor(q)) \in Nat /\ Cardinality(ArmedFor(q) \cup {c}) \in Nat
        BY <3>2, SomeConnections
      <4>4. unspent'[q] = unspent[q] + 1
        BY <2>1, <3>3
      <4> QED
        BY <3>1, <4>1, <4>2, <4>3, <4>4
    <3>4. CASE q # p
      <4>1. ArmedFor(q)' = ArmedFor(q)
        BY <1>1, <3>4 DEF Arm, DialogsInv, ArmedFor
      <4> QED
        BY <2>1, <3>1, <3>4, <4>1
    <3> QED
      BY <3>3, <3>4
  <2> QED
    BY <2>1, <2>2 DEF DialogsInv
<1>2. CASE ~accept
  <2>1. /\ armed' \in [Conn -> SUBSET Page] /\ UNCHANGED unspent
        /\ \A d \in Conn : armed'[d] \subseteq armed[d]
    BY <1>2 DEF Arm, DialogsInv
  <2> QED
    BY <2>1, OrdersDropped
<1> QED
  BY <1>1, <1>2

LEMMA HandleFine ==
  ASSUME DialogsInv, NEW c \in Conn, NEW p \in Page, HandleDialog(c, p)
  PROVE  DialogsInv'
<1>1. /\ armed' \in [Conn -> SUBSET Page]
      /\ \A d \in Conn : armed'[d] = IF d = c THEN armed[d] \ {p} ELSE armed[d]
  BY DEF HandleDialog, UseUp, DialogsInv
<1>2. CASE UNCHANGED unspent
  BY <1>1, <1>2, OrdersDropped
<1>3. CASE p \in armed[c] /\ unspent' = [unspent EXCEPT ![p] = @ - 1]
  <2>1. /\ unspent' \in [Page -> Int]
        /\ \A q \in Page : unspent'[q] = IF q = p THEN unspent[q] - 1 ELSE unspent[q]
    BY <1>3 DEF DialogsInv
  <2>2. ASSUME NEW q \in Page PROVE Cardinality(ArmedFor(q)') <= unspent'[q]
    <3>1. Cardinality(ArmedFor(q)) <= unspent[q] /\ unspent[q] \in Int
      BY DEF DialogsInv
    <3>2. ArmedFor(q) \subseteq Conn
      BY DEF ArmedFor
    <3>3. CASE q = p
      <4>1. ArmedFor(q)' = ArmedFor(q) \ {c} /\ c \in ArmedFor(q)
        BY <1>1, <1>3, <3>3 DEF ArmedFor
      <4>2. Cardinality(ArmedFor(q) \ {c}) = Cardinality(ArmedFor(q)) - 1
        BY <3>2, <4>1, SomeConnections
      <4>3. Cardinality(ArmedFor(q)) \in Nat
        BY <3>2, SomeConnections
      <4>4. unspent'[q] = unspent[q] - 1
        BY <2>1, <3>3
      <4> QED
        BY <3>1, <4>1, <4>2, <4>3, <4>4
    <3>4. CASE q # p
      <4>1. ArmedFor(q)' = ArmedFor(q)
        BY <1>1, <3>4 DEF ArmedFor
      <4> QED
        BY <2>1, <3>1, <3>4, <4>1
    <3> QED
      BY <3>3, <3>4
  <2> QED
    BY <1>1, <2>1, <2>2 DEF DialogsInv
<1> QED
  BY <1>2, <1>3 DEF HandleDialog

LEMMA DialogsInvariant == Spec => []DialogsInv
<1>1. Init => DialogsInv
  <2> SUFFICES ASSUME Init PROVE DialogsInv
    OBVIOUS
  <2>1. \A p \in Page : ArmedFor(p) = {} /\ unspent[p] = 0
    BY DEF Init, ArmedFor
  <2>2. \A p \in Page : Cardinality(ArmedFor(p)) <= unspent[p]
    BY <2>1, FS_EmptySet
  <2>3. armed \in [Conn -> SUBSET Page] /\ unspent \in [Page -> Int]
    BY DEF Init
  <2> QED
    BY <2>2, <2>3 DEF DialogsInv
<1>2. DialogsInv /\ [Next]_vars => DialogsInv'
  <2> SUFFICES ASSUME DialogsInv, [Next]_vars PROVE DialogsInv'
    OBVIOUS
  <2>1. ASSUME UNCHANGED <<armed, unspent>> PROVE DialogsInv'
    BY <2>1 DEF DialogsInv, ArmedFor
  <2>2. ASSUME NEW c \in Conn, Attach(c) \/ ListTabs(c) PROVE DialogsInv'
    BY <2>1, <2>2 DEF Attach, ListTabs, dialogVars
  <2>3. ASSUME NEW c \in Conn, Detach(c) PROVE DialogsInv'
    <3>1. /\ armed' \in [Conn -> SUBSET Page] /\ UNCHANGED unspent
          /\ \A d \in Conn : armed'[d] \subseteq armed[d]
      BY <2>3 DEF Detach, DialogsInv
    <3> QED
      BY <3>1, OrdersDropped
  <2>4. ASSUME NEW c \in Conn, NEW p \in Page,
               \/ OpenKeeper(c, p) \/ OpenTab(c, p) \/ Read(c, p) \/ Navigate(c, p)
               \/ \E n \in Elements : Act(c, p, n)
        PROVE  DialogsInv'
    BY <2>1, <2>4 DEF OpenKeeper, OpenTab, Read, Navigate, Act, dialogVars
  <2>5. ASSUME NEW c \in Conn, NEW p \in Page, CloseTab(c, p) PROVE DialogsInv'
    BY <2>5, PageGoneFine DEF CloseTab
  <2>6. ASSUME NEW c \in Conn, NEW p \in Page, NEW accept \in BOOLEAN, Arm(c, p, accept)
        PROVE  DialogsInv'
    BY <2>6, ArmFine
  <2>7. ASSUME NEW c \in Conn, NEW p \in Page, HandleDialog(c, p) PROVE DialogsInv'
    BY <2>7, HandleFine
  <2>8. ASSUME NEW p \in Page,
               \/ DialogOpens(p) \/ LinkFollowed(p) \/ AnsweredByHand(p)
               \/ \E e \in Elements : ElementGoes(p, e)
        PROVE  DialogsInv'
    BY <2>1, <2>8 DEF DialogOpens, LinkFollowed, AnsweredByHand, ElementGoes, dialogVars
  <2>9. ASSUME NEW p \in Page, ClosedByHand(p) PROVE DialogsInv'
    BY <2>9, PageGoneFine DEF ClosedByHand
  <2>10. CASE UNCHANGED vars
    BY <2>1, <2>10 DEF vars, dialogVars
  <2> QED
    BY <2>2, <2>3, <2>4, <2>5, <2>6, <2>7, <2>8, <2>9, <2>10 DEF Next, SessionStep
<1> QED
  BY <1>1, <1>2, PTL DEF Spec

(* However many connections take a dialog's event for theirs, no page has  *)
(* more dialogs accepted than it was ordered to (#answerDialog).           *)
THEOREM OneAcceptEach == Spec => []OneArmOneAccept
<1>1. DialogsInv => OneArmOneAccept
  <2> SUFFICES ASSUME DialogsInv, NEW p \in Page PROVE unspent[p] >= 0
    BY DEF OneArmOneAccept
  <2>1. ArmedFor(p) \subseteq Conn
    BY DEF ArmedFor
  <2>2. Cardinality(ArmedFor(p)) \in Nat
    BY <2>1, SomeConnections
  <2> QED
    BY <2>2 DEF DialogsInv
<1> QED
  BY <1>1, DialogsInvariant, PTL
=============================================================================
