------------------------------- MODULE Arguments -------------------------------
(***************************************************************************)
(* What the bridge makes of the arguments of a call (service/bridge.ts):   *)
(* the tool surface sends values of any type, the command line sends texts *)
(* and Yes, and the service is to see the same request.                    *)
(*                                                                         *)
(* A value is a record with its type and, for a text, what it reads as:    *)
(* texts the rules tell apart have fields of their own.  The arguments of  *)
(* a call are a function from the names that were given.                   *)
(***************************************************************************)
EXTENDS Integers, SequencesExt

None       == [type |-> "none"]      \* undefined
Nil        == [type |-> "null"]
Yes        == [type |-> "boolean", is |-> TRUE]
No         == [type |-> "boolean", is |-> FALSE]
Num(n)     == [type |-> "number", number |-> n]
NaN        == [type |-> "number", nan |-> TRUE]
List(s)    == [type |-> "list", items |-> s]
Object(f)  == [type |-> "object", fields |-> f]

Text(w)    == [type |-> "text", word |-> w]
Digits(n)  == [type |-> "text", digits |-> n]          \* "12"
Sides(a,b) == [type |-> "text", sides |-> <<a, b>>]    \* "390x844"
Pair(r,v)  == [type |-> "text", pair |-> <<r, v>>]     \* "e1=value"
Words(s)   == [type |-> "text", words |-> s]           \* "console,network"
Prose(n)   == [type |-> "text", length |-> n]          \* n characters
Ref(n)     == [type |-> "text", ref |-> n]             \* "e12"
Address(s) == [type |-> "text", scheme |-> s]          \* "https://..."
Pattern(k) == [type |-> "text", pattern |-> k]         \* "/.../", and whether it compiles
Secret(w)  == [type |-> "text", secret |-> w]          \* "{{secret:w}}"
Key(c)     == [type |-> "text", key |-> c]             \* the key of claim c
\* The name of a file to upload: where it leads, and the bytes found there.
File(to, n) == [type |-> "text", leads |-> to, bytes |-> n]

Empty == Text("")
Blank == Text(" ")

IsText(v)   == v.type = "text"
IsBlank(v)  == v \in {Empty, Blank}
IsObject(v) == v.type \in {"object", "list", "null"}   \* typeof v === 'object'
Field(v, n) == IF v.type = "object" /\ n \in DOMAIN v.fields THEN v.fields[n] ELSE None

\* The fields that have a value, as the bridge leaves out the others.
Present(f) == Restrict(f, {n \in DOMAIN f : f[n] # None})

-----------------------------------------------------------------------------
(* Reading one argument.                                                   *)

\* The first of its names that was given.
Argument(args, names) ==
  LET given == SelectSeq(names, LAMBDA n : n \in DOMAIN args)
  IN IF given = << >> THEN None ELSE args[Head(given)]

KeyNames == <<"lease_key", "leaseKey", "key", "lease">>

AsString(v)         == IF IsText(v) THEN v ELSE Empty
AsOptionalString(v) == IF IsText(v) /\ v # Empty THEN v ELSE None

\* JavaScript's Number(v).
ToNumber(v) ==
  CASE v.type = "number"                 -> v
    [] v.type = "text" /\ "digits" \in DOMAIN v -> Num(v.digits)
    [] v \in {Empty, Blank, Nil, No}     -> Num(0)
    [] v = Yes                           -> Num(1)
    [] OTHER                             -> NaN

AsSeconds(v) == ToNumber(v)
AsBoolean(v) == v \in {Yes, Text("true")}

AsIntegerAsSent(v) == v

\* A text with anything in it is read as a number; the rest is left for the
\* rule to refuse.
AsInteger(v) == IF IsText(v) /\ ~IsBlank(v) THEN ToNumber(v) ELSE v

\* artifactsFrom: the words between the commas.
ArtifactsFrom(v) ==
  CASE ~IsText(v)            -> v
    [] "words" \in DOMAIN v  -> List([i \in DOMAIN v.words |-> Text(v.words[i])])
    [] v \in {Empty, Blank}  -> List(<< >>)
    [] OTHER                 -> List(<<v>>)

-----------------------------------------------------------------------------
(* Reading an action.  A tool may send it whole as `request`; both         *)
(* surfaces may send its parts.                                            *)

PathsFrom(args) ==
  LET given == Argument(args, <<"paths">>)
      flag  == Argument(args, <<"path">>)
  IN CASE given.type = "list" -> given
       [] given.type # "list" /\ flag = None -> given
       [] OTHER -> IF flag.type = "list" THEN flag ELSE List(<<flag>>)

ViewportFrom(args) ==
  LET given  == Argument(args, <<"viewport">>)
      width  == Argument(args, <<"width">>)
      height == Argument(args, <<"height">>)
      value  == Argument(args, <<"value">>)
      Of(w, h) == Object(Present([width |-> AsInteger(w), height |-> AsInteger(h)]))
  IN CASE given # None -> given
       [] given = None /\ (width # None \/ height # None) -> Of(width, height)
       [] OTHER -> IF "sides" \in DOMAIN value THEN Of(value.sides[1], value.sides[2]) ELSE None

\* acceptFrom: one of the flags, or the word.
AcceptFrom(args, given) ==
  LET accept  == Argument(args, <<"accept">>)
      dismiss == Argument(args, <<"dismiss">>)
      word    == IF IsText(given) THEN given ELSE Argument(args, <<"value">>)
      Set(flag) == flag = Empty \/ AsBoolean(flag)
  IN CASE accept # None /\ dismiss # None -> None
       [] accept # None /\ dismiss = None -> IF Set(accept) THEN Yes ELSE None
       [] accept = None /\ dismiss # None -> IF Set(dismiss) THEN No ELSE None
       [] OTHER -> IF word = Text("accept") THEN Yes ELSE IF word = Text("dismiss") THEN No ELSE None

ResponseFrom(args) ==
  LET given  == Argument(args, <<"response">>)
      prompt == Argument(args, <<"prompt_text", "promptText">>)
      accept == AcceptFrom(args, given)
  IN IF IsObject(given) \/ accept = None THEN given
     ELSE Object(Present([accept |-> accept, promptText |-> IF IsText(prompt) THEN prompt ELSE None]))

FieldsFrom(args) ==
  LET given == Argument(args, <<"fields">>)
      flag  == Argument(args, <<"field">>)
      pairs == IF flag.type = "list" THEN flag.items ELSE IF flag = None THEN << >> ELSE <<flag>>
      Split(pair) ==
        CASE ~IsText(pair) -> pair
          [] "pair" \in DOMAIN pair -> Object([ref |-> pair.pair[1], value |-> pair.pair[2]])
          [] OTHER -> Object([ref |-> pair])
  IN IF given.type = "list" \/ pairs = << >> THEN given
     ELSE List([i \in DOMAIN pairs |-> Split(pairs[i])])

\* MEDIA_PREFERENCE_SPELLINGS
Spellings ==
  [colourScheme  |-> <<"colourScheme", "colour_scheme", "colorScheme", "color_scheme">>,
   reducedMotion |-> <<"reducedMotion", "reduced_motion">>,
   forcedColours |-> <<"forcedColours", "forced_colours", "forcedColors", "forced_colors">>]

PreferencesFrom(args) ==
  LET given == Argument(args, <<"preferences">>)
      named == Present([n \in DOMAIN Spellings |-> Argument(args, Spellings[n])])
  IN IF given # None THEN given
     ELSE IF DOMAIN named = {} THEN None ELSE Object(named)

ActionFrom(args) ==
  LET whole  == Argument(args, <<"request">>)
      action == Argument(args, <<"action">>)
  IN CASE whole # None -> whole
       [] whole = None /\ action = None -> None
       [] OTHER -> Object(Present(
            [action |-> action,
             ref |-> Argument(args, <<"ref", "target">>),
             value |-> Argument(args, <<"value">>),
             targetRef |-> Argument(args, <<"target_ref", "targetRef">>),
             viewport |-> ViewportFrom(args), preferences |-> PreferencesFrom(args),
             response |-> ResponseFrom(args), fields |-> FieldsFrom(args),
             paths |-> PathsFrom(args)]))

-----------------------------------------------------------------------------
(* What the service is asked, by operation.                                *)

\* The key the call carries, if it does.
KeyIn(args) == AsOptionalString(Argument(args, KeyNames))

ClaimAsked(args) ==
  [sessionId |-> AsString(Argument(args, <<"session_id", "sessionId">>)),
   browser |-> AsOptionalString(Argument(args, <<"browser">>)),
   purpose |-> AsString(Argument(args, <<"purpose">>)),
   storageSeed |-> Argument(args, <<"storage_seed", "storageSeed">>)]

ReadAsked(args) ==
  [artifacts |-> ArtifactsFrom(Argument(args, <<"what", "artifacts">>)),
   find |-> Argument(args, <<"find">>)]

\* A selector that is not a text is left out, as is an empty name of a capture.
CaptureAsked(args) ==
  LET fullPage == Argument(args, <<"full_page", "fullPage">>)
      selector == Argument(args, <<"selector">>)
  IN [fullPage |-> IF fullPage # None /\ AsBoolean(fullPage) THEN Yes ELSE No,
      selector |-> IF IsText(selector) THEN selector ELSE None,
      compareTo |-> AsOptionalString(Argument(args, <<"compare_to", "compareTo">>)),
      compareToKey |-> AsOptionalString(Argument(args, <<"compare_to_key", "compareToKey">>)),
      tier |-> Argument(args, <<"tier">>), reason |-> Argument(args, <<"reason">>)]

SignInAsked(args) ==
  LET seconds == Argument(args, <<"request_seconds", "requestSeconds">>)
  IN [what |-> AsString(Argument(args, <<"what", "signing_into", "signingInto">>)),
      requestSeconds |-> IF seconds = None THEN None ELSE AsSeconds(seconds)]

\* submitFeedback: digits are a rating, anything else is as it came.
FeedbackAsked(args) ==
  LET rating == Argument(args, <<"rating">>)
  IN [rating |-> IF "digits" \in DOMAIN rating THEN Num(rating.digits) ELSE rating,
      category |-> Argument(args, <<"category">>), note |-> Argument(args, <<"note">>)]

\* serviceFor's dispatch.
Asked(op, args) ==
  Present(
    CASE op = "claim"    -> ClaimAsked(args)
      [] op = "navigate" -> [url |-> Argument(args, <<"url">>),
                             waitMs |-> AsInteger(Argument(args, <<"wait_ms", "waitMs">>))]
      [] op = "act"      -> [request |-> ActionFrom(args)]
      [] op = "read"     -> ReadAsked(args)
      [] op = "evaluate" -> [expression |-> Argument(args, <<"expression">>)]
      [] op = "capture"  -> CaptureAsked(args)
      [] op = "sign_in"  -> SignInAsked(args)
      [] op = "feedback" -> FeedbackAsked(args)
      [] OTHER           -> << >>)
=============================================================================
