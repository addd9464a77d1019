------------------------------ MODULE MCSession ------------------------------
(***************************************************************************)
(* Small instances of Session and of Secrets, two sides of one running     *)
(* browser that share no state: `side' says which is followed.             *)
(***************************************************************************)
EXTENDS Session, Secrets, TLC

CONSTANTS q1, q2, pw, user

VARIABLE side

Symmetry == Permutations(Conn) \cup Permutations(Page)

-----------------------------------------------------------------------------
(* Two secrets of a shop, and commands that answer about them well, late,  *)
(* with a failure, with an origin that is none, and with nothing readable. *)

Answer(ends, code, value, origins, fields) ==
  [ends |-> ends, code |-> code,
   printed |-> [value |-> value, origins |-> origins, fields |-> fields]]

Origin(scheme, bare) == [scheme |-> scheme, bare |-> bare, origin |-> "shop"]
Shop == {Origin("https", TRUE)}

AnswersFor(s, fields) ==
  {Answer("in time", 0, s, Shop, fields), Answer("late", 0, s, Shop, fields),
   Answer("in time", 1, s, Shop, fields),
   Answer("in time", 0, s, {Origin("https", FALSE)}, fields),
   [ends |-> "in time", code |-> 0, printed |-> Null]}

MCAnswers == (pw :> AnswersFor(pw, Null)) @@ (user :> AnswersFor(user, {"username", "otp"}))
MCHome == (pw :> [origins |-> {"shop"}, fields |-> {"password"}])
       @@ (user :> [origins |-> {"shop"}, fields |-> {"username", "otp"}])

(* A log-in page; one without a password; a frame of the shop in another's *)
(* page, beside a frame of its own; and a frame that has no origin.        *)

Facts(tag, type, autocomplete, hinted) ==
  [tag |-> tag, type |-> type, autocomplete |-> autocomplete, hinted |-> hinted]
Password == Facts("input", "password", {}, FALSE)
UserName == Facts("input", "text", {}, TRUE)
Code == Facts("input", "", {"one-time-code"}, FALSE)
Area == Facts("textarea", "", {}, TRUE)
Element(facts, frames) == [facts |-> facts, frames |-> frames]

MCDocument ==
  {<<Element(Password, <<"shop">>), Element(UserName, <<"shop">>)>>,
   <<Element(UserName, <<"shop">>), Element(Area, <<"shop">>)>>,
   <<Element(Password, <<"shop", "other">>), Element(Code, <<"shop", "shop">>)>>,
   <<Element(Password, <<Null, "shop">>)>>}

PutIn(ref, value, mode) == [ref |-> ref, value |-> value, mode |-> mode]
MCForms ==
  {<<PutIn(1, pw, "fill")>>, <<PutIn(2, user, "type"), PutIn(1, pw, "fill")>>,
   <<PutIn(1, Null, "fill")>>}

-----------------------------------------------------------------------------
MCInit == side \in {"session", "secrets"} /\ Init /\ SecretsInit

MCNext ==
  \/ side = "session" /\ Next /\ UNCHANGED <<side, secretsVars>>
  \/ side = "secrets" /\ SecretsNext /\ UNCHANGED <<side, vars>>

MCSpec == MCInit /\ [][MCNext]_<<side, vars, secretsVars>>
=============================================================================
