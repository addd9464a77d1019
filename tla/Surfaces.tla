------------------------------- MODULE Surfaces -------------------------------
(***************************************************************************)
(* The two ways a call comes in: the tools a session is offered            *)
(* (tool/tools.ts, tool/session.ts) and the command line (cli/index.ts,    *)
(* cli/commands.ts, cli/adapter.ts).  Either makes an operation and its    *)
(* arguments of what a caller wrote, or answers by itself.                 *)
(***************************************************************************)
EXTENDS Rules

-----------------------------------------------------------------------------
(* Tools.                                                                  *)

\* TOOL_DEFINITIONS: the arguments each tool declares, with their types.
LeaseTools ==
  [claim       |-> [session_id |-> "string", browser |-> "string", purpose |-> "string",
                    storage_seed |-> "array"],
   status      |-> [lease_key |-> "string"],
   release     |-> [lease_key |-> "string"],
   tab_replace |-> [lease_key |-> "string"]]

ActingTools ==
  [navigate |-> [lease_key |-> "string", url |-> "string", wait_ms |-> "integer"],
   act      |-> [lease_key |-> "string", action |-> "string", target |-> "string",
                 value |-> "string", paths |-> "array", request |-> "object"]]

ReadingTools ==
  [read     |-> [lease_key |-> "string", what |-> "string", find |-> "string"],
   evaluate |-> [lease_key |-> "string", expression |-> "string"],
   capture  |-> [lease_key |-> "string", selector |-> "string", full_page |-> "boolean",
                 compare_to |-> "string", tier |-> "string", reason |-> "string"]]

OtherTools ==
  [sign_in |-> [action |-> "string", lease_key |-> "string", what |-> "string",
                request_seconds |-> "integer"],
   doctor  |-> << >>]

Declared == LeaseTools @@ ActingTools @@ ReadingTools @@ OtherTools

Tools == DOMAIN Declared

\* The one tool with actions: each is an operation, and some arguments are for
\* one of them only.
SignInActions   == [request |-> "sign_in", done |-> "sign_in_done"]
ForRequestsOnly == {"what", "request_seconds"}

\* undeclaredArguments
Undeclared(tool, args) == DOMAIN args \ DOMAIN Declared[tool]

ActionOf(args) ==
  LET action == Argument(args, <<"action">>)
  IN IF "word" \in DOMAIN action THEN action.word ELSE "none"

\* resolveAction: no action, or arguments of the other one.
ActionMistake(tool, args) ==
  /\ tool = "sign_in"
  /\ \/ ActionOf(args) \notin DOMAIN SignInActions
     \/ ActionOf(args) = "done" /\ DOMAIN args \cap ForRequestsOnly # {}

\* What a tool call asks for.
ToolOperation(tool, args) == IF tool = "sign_in" THEN SignInActions[ActionOf(args)] ELSE tool
ToolArguments(tool, args) ==
  IF tool = "sign_in" THEN Restrict(args, DOMAIN args \ {"action"}) ELSE args

-----------------------------------------------------------------------------
(* The command line.  A word is a text; one that begins with -- has a      *)
(* name, which is plain if it is spelled like an option, and a value if it *)
(* is written --name=value.                                                *)

Flag(parts)           == [type |-> "text", flag |-> parts, plain |-> TRUE, given |-> None]
FlagWith(parts, v)    == [type |-> "text", flag |-> parts, plain |-> TRUE, given |-> v]
IsFlag(word)          == "flag" \in DOMAIN word
LooksLikeFlag(word)   == IsFlag(word) /\ word.plain

\* normaliseKey: --wait-ms is wait_ms.
NormaliseKey(parts) ==
  FoldLeft(LAMBDA name, part : name \o "_" \o part, Head(parts), Tail(parts))

Repeatable == {"field", "path"}

\* record: the last of a name counts, unless it may be repeated.
Recorded(args, name, v) ==
  LET value == IF name \notin Repeatable THEN v
               ELSE List((IF name \in DOMAIN args THEN args[name].items ELSE << >>) \o <<v>>)
  IN (name :> value) @@ args

\* parseArguments: an option written without = takes the word after it, unless
\* that looks like an option.
ParseArguments(rest) ==
  LET Read(so, i) ==
        LET word == rest[i]
            bare == i = Len(rest) \/ LooksLikeFlag(rest[IF i = Len(rest) THEN i ELSE i + 1])
            With(v, taken) == [args |-> Recorded(so.args, NormaliseKey(word.flag), v), taken |-> taken]
        IN CASE so.taken \/ ~IsFlag(word) -> [so EXCEPT !.taken = FALSE]
             [] ~so.taken /\ IsFlag(word) /\ word.given # None -> With(word.given, FALSE)
             [] OTHER -> IF bare THEN With(Yes, FALSE) ELSE With(rest[i + 1], TRUE)
  IN FoldLeft(Read, [args |-> << >>, taken |-> FALSE], [i \in DOMAIN rest |-> i]).args

\* OPERATION_COMMANDS
OperationCommands ==
  (<<"claim">> :> "claim") @@ (<<"status">> :> "status") @@ (<<"release">> :> "release")
    @@ (<<"tab", "replace">> :> "tab_replace") @@ (<<"navigate">> :> "navigate")
    @@ (<<"act">> :> "act") @@ (<<"read">> :> "read") @@ (<<"evaluate">> :> "evaluate")
    @@ (<<"capture">> :> "capture") @@ (<<"sign", "in">> :> "sign_in")
    @@ (<<"sign", "in", "done">> :> "sign_in_done") @@ (<<"feedback">> :> "feedback")

\* STANDALONE_COMMANDS
StandaloneCommands ==
  {<<w>> : w \in {"snapshot", "doctor", "login", "init", "diffs", "image", "captures", "reconcile",
                  "events"}}

StartsWith(argv, words) ==
  Len(words) <= Len(argv) /\ \A i \in DOMAIN words : argv[i] = Text(words[i])

AnyCommand(argv) ==
  LET fits == {words \in DOMAIN OperationCommands \cup StandaloneCommands : StartsWith(argv, words)}
  IN IF fits = {} THEN << >> ELSE CHOOSE words \in fits : \A w \in fits : Len(w) >= Len(words)

\* parseCommand: the command with the most words, or none.
ParseCommand(argv) ==
  LET fits == {words \in DOMAIN OperationCommands \cup StandaloneCommands : StartsWith(argv, words)}
  IN IF fits = {} THEN << >> ELSE CHOOSE words \in fits : \A w \in fits : Len(w) <= Len(words)

Holds(argv, word) == word \in ToSet(argv)

\* run, for help and the version, wherever the word stands.
Questions == {Flag(<<"help">>), Text("-h"), Flag(<<"version">>), Text("-v")}
IsQuestion(argv) == \E word \in Questions : Holds(argv, word)

IsReadingFeedback(rest) == \A word \in ToSet(rest) : IsFlag(word) => word.flag # <<"rating">>

\* The operation a command line stands for, or "none".
CommandOperation(argv) ==
  LET words == ParseCommand(argv)
      op    == IF words \in DOMAIN OperationCommands THEN OperationCommands[words] ELSE "none"
  IN IF IsQuestion(argv)
        \/ (op = "feedback" /\ IsReadingFeedback(SubSeq(argv, Len(words) + 1, Len(argv))))
     THEN "none" ELSE op

IsMalformed(argv) == ~IsQuestion(argv) /\ argv # << >> /\ ParseCommand(argv) = << >>

\* A claim may ask to wait for its turn; the word is not an argument.
Waits(argv) == CommandOperation(argv) = "claim" /\ Holds(argv, Flag(<<"wait">>))

CommandArguments(argv) ==
  LET rest == SubSeq(argv, Len(ParseCommand(argv)) + 1, Len(argv))
  IN ParseArguments(IF Waits(argv) THEN SelectSeq(rest, LAMBDA w : w # Flag(<<"wait">>)) ELSE rest)

\* refuseFilters, for reading feedback back.
FilterRules(args) ==
  LET Whole(name) == LET v == Argument(args, <<name>>) IN
                     IF "digits" \in DOMAIN v THEN Num(v.digits) ELSE v
      rating   == Whole("rating")
      limit    == Whole("limit")
      category == Argument(args, <<"category">>)
  IN <<Rule("rating_out_of_range", rating # None /\ ~IsWhole(rating, 1, 5)),
       Rule("unknown_category", category # None /\ category \notin FeedbackCategories),
       Rule("bad_limit", limit # None /\ ~("number" \in DOMAIN limit /\ limit.number >= 1))>>

HasBadFilters(argv) ==
  LET words == ParseCommand(argv)
      rest  == SubSeq(argv, Len(words) + 1, Len(argv))
  IN /\ ~IsQuestion(argv) /\ words = <<"feedback">> /\ IsReadingFeedback(rest)
     /\ FirstBroken(FilterRules(ParseArguments(rest))) # "none"

-----------------------------------------------------------------------------
(* The same call on either surface.                                        *)

\* What becomes of a call: its key, the rule that refuses it, what is refused
\* of it later, and what is done.
Outcome(op, args) ==
  LET asked == Asked(op, args)
      rule  == Mistake(op, asked)
  IN [key |-> KeyIn(args), rule |-> rule, late |-> LateMistake(op, asked),
      effect |-> IF rule = "none" THEN Effect(op, asked) ELSE << >>]

ByTool(tool, args) == Outcome(ToolOperation(tool, args), ToolArguments(tool, args))
ByCommand(argv)    == Outcome(CommandOperation(argv), CommandArguments(argv))

\* How the command line spells an argument.
Spelling ==
  [lease_key |-> <<"lease", "key">>, session_id |-> <<"session", "id">>,
   browser |-> <<"browser">>, purpose |-> <<"purpose">>, url |-> <<"url">>,
   wait_ms |-> <<"wait", "ms">>, action |-> <<"action">>, target |-> <<"target">>,
   value |-> <<"value">>, paths |-> <<"path">>, what |-> <<"what">>, find |-> <<"find">>,
   expression |-> <<"expression">>, selector |-> <<"selector">>,
   full_page |-> <<"full", "page">>, compare_to |-> <<"compare", "to">>, tier |-> <<"tier">>,
   reason |-> <<"reason">>, request_seconds |-> <<"request", "seconds">>]

\* A value as a word.
Written(v) ==
  CASE "number" \in DOMAIN v -> Digits(v.number)
    [] v = Yes               -> Text("true")
    [] v = No                -> Text("false")
    [] OTHER                 -> v

\* One argument, with = or as two words; a list is an option per item.
WrittenOption(name, v, joined) ==
  LET values == IF v.type = "list" THEN v.items ELSE <<v>>
  IN FlattenSeq([i \in DOMAIN values |->
       IF joined THEN <<FlagWith(Spelling[name], Written(values[i]))>>
       ELSE <<Flag(Spelling[name]), Written(values[i])>>])

\* A value that, as a word by itself, is read as an option or as a question.
ReadsAsOption(v) == LooksLikeFlag(v) \/ v \in Questions

ValuesIn(args) == UNION {IF v.type = "list" THEN ToSet(v.items) ELSE {v} : v \in Range(args)}

CommandOf(op) == CHOOSE words \in DOMAIN OperationCommands : OperationCommands[words] = op

\* A tool call, as a command line.
WrittenCall(tool, args, joined) ==
  LET op    == ToolOperation(tool, args)
      given == ToolArguments(tool, args)
      words == CommandOf(op)
      names == SetToSeq(DOMAIN given)
  IN [i \in DOMAIN words |-> Text(words[i])]
       \o FlattenSeq([i \in DOMAIN names |-> WrittenOption(names[i], given[names[i]], joined)])

\* The options the command line documents for an action.
DocumentedOptions(request) ==
  LET At(n)  == Field(request, n)
      Option(parts, v) == IF v = None THEN << >> ELSE <<FlagWith(parts, Written(v))>>
      response == At("response")
      fields == Items(At("fields"))
      paths  == Items(At("paths"))
  IN Option(<<"action">>, At("action")) \o Option(<<"target">>, At("ref"))
     \o Option(<<"value">>, At("value")) \o Option(<<"target", "ref">>, At("targetRef"))
     \o Option(<<"width">>, Field(At("viewport"), "width"))
     \o Option(<<"height">>, Field(At("viewport"), "height"))
     \o Option(<<"colour", "scheme">>, Field(At("preferences"), "colourScheme"))
     \o Option(<<"reduced", "motion">>, Field(At("preferences"), "reducedMotion"))
     \o Option(<<"forced", "colours">>, Field(At("preferences"), "forcedColours"))
     \o (CASE Field(response, "accept") = Yes -> <<Flag(<<"accept">>)>>
           [] Field(response, "accept") = No  -> <<Flag(<<"dismiss">>)>>
           [] OTHER -> << >>)
     \o Option(<<"prompt", "text">>, Field(response, "promptText"))
     \o [i \in DOMAIN fields |->
           FlagWith(<<"field">>, Pair(Field(fields[i], "ref"), Field(fields[i], "value")))]
     \o [i \in DOMAIN paths |-> FlagWith(<<"path">>, paths[i])]
=============================================================================
