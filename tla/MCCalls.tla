-------------------------------- MODULE MCCalls --------------------------------
(***************************************************************************)
(* A small instance of Calls: one line of each kind that is told apart,    *)
(* one action of each verb and kind of field, and calls of every tool with *)
(* arguments that obey the rules, break one, or are at a bound.            *)
(***************************************************************************)
EXTENDS Calls

MCRegular == <<"work", "home">>
MCPrivate == <<"aside">>

NoLease == Key("unknown")
Site    == Address("https:")

-----------------------------------------------------------------------------
Message(tool, args) ==
  [surface |-> "tool", shape |-> "whole", method |-> "tools/call", tool |-> tool, args |-> args]

Command(words) == [surface |-> "command", words |-> words]

ClaimCall == [session_id |-> Text("me"), purpose |-> Prose(40)]
Entry     == Object([origin |-> Site, area |-> Text("local"), key |-> Text("token"), value |-> Prose(20)])

SessionLines ==
  LET status == Message("status", << >>) IN
  {[status EXCEPT !.shape = s] : s \in {"no id", "bad id", "no method"}}
    \cup {[status EXCEPT !.method = m] : m \in {"initialize", "other"}}
    \cup {status, Message("none", << >>), Message("release", << >>), Message("doctor", << >>),
          Message("status", [lease_key |-> NoLease, wait |-> Yes]),
          Message("sign_in", [action |-> Text("done"), lease_key |-> NoLease, what |-> Prose(20)]),
          Message("navigate", [lease_key |-> NoLease, url |-> Address("file:")]),
          Message("claim", << >>), Message("claim", ClaimCall),
          Message("claim", [storage_seed |-> List(<<Entry>>)] @@ ClaimCall)}

LeaseLines(c) ==
  {Message(tool, [lease_key |-> Key(c)]) : tool \in {"tab_replace", "release", "status"}}
    \cup {Message("navigate", [lease_key |-> Key(c), url |-> Site]),
          Message("navigate", [lease_key |-> Key(c), url |-> Site, wait_ms |-> Num(120001)]),
          Message("capture", [lease_key |-> Key(c), tier |-> Text("max")]),
          Message("sign_in", [lease_key |-> Key(c), action |-> Text("done")])}

ShellLines ==
  {Command(<<Text("claim"), Flag(<<"session", "id">>), Text("me"),
             FlagWith(<<"purpose">>, Prose(40)), Flag(<<"wait">>)>>),
   Command(<<Text("claim"), Flag(<<"help">>)>>), Command(<<Text("open")>>),
   Command(<<Text("feedback"), FlagWith(<<"limit">>, Text("all"))>>),
   Command(<<Text("feedback"), FlagWith(<<"rating">>, Digits(4)),
             FlagWith(<<"category">>, Text("no-path")), FlagWith(<<"note">>, Prose(60))>>)}
    \cup UNION {{Command(words \o <<Flag(<<"lease", "key">>), Key(c)>>) :
                   words \in {<<Text("tab"), Text("replace")>>, <<Text("release")>>,
                             <<Text("act"), FlagWith(<<"action">>, Text("click")),
                               FlagWith(<<"target">>, Ref(1))>>}} : c \in Claim}

MCLines == SessionLines \cup UNION {LeaseLines(c) : c \in Claim} \cup ShellLines

-----------------------------------------------------------------------------
Action(verb, rest) == Object([action |-> Text(verb)] @@ rest)

MCActions ==
  LET form(n) == List([i \in 1 .. n |-> Object([ref |-> Ref(i), value |-> Text("x")])]) IN
  {Action(verb, [ref |-> Ref(1)]) : verb \in {"click", "hover", "check", "scroll"}}
    \cup {Action(verb, [ref |-> Ref(1), value |-> value]) :
            verb \in {"type", "fill", "select", "press"}, value \in {Text("a"), Empty, Text("true"), Digits(7)}}
    \cup {Action("type", [ref |-> Ref(1), value |-> Secret("password")]),
          Action("press", [value |-> Text("Tab")]), Action("scroll", << >>),
          Action("drag", [ref |-> Ref(1), targetRef |-> Ref(2)])}
    \cup {Action("resize", [viewport |-> Object([width |-> Num(w), height |-> Num(h)])]) :
            w \in {1, 390, MaxViewportSide}, h \in {1, 844}}
    \cup {Action("emulate", [preferences |-> Object(p)]) :
            p \in {[colourScheme |-> Text("dark")], [reducedMotion |-> Text("reduce")],
                   [colourScheme |-> Text("light"), forcedColours |-> Text("active")]}}
    \cup {Action("dialog", [response |-> Object(r)]) :
            r \in {[accept |-> Yes], [accept |-> No], [accept |-> Yes, promptText |-> Text("name")]}}
    \cup {Action("fill_form", [fields |-> form(n)]) : n \in {1, 2, MaxFormFields}}
    \cup {Action("upload", [ref |-> Ref(1), paths |-> List(paths)]) :
            paths \in {<<File("file", 1)>>, [i \in 1 .. MaxUploadFiles |-> File("file", 3)]}}

-----------------------------------------------------------------------------
Made(tool, args) == [tool |-> tool, args |-> args]

\* Values with dashes: ones that are read as options or questions, and one that
\* is not spelled like an option.
Dashed ==
  {Flag(<<"help">>), Flag(<<"i">>), FlagWith(<<"full", "page">>, Text("true")), Text("-h"),
   [Flag(<<"I">>) EXCEPT !.plain = FALSE]}

MCToolCalls ==
  {[tool |-> "claim", args |-> [session_id |-> s, purpose |-> Prose(n)] @@ b] :
     s \in {Empty, Text("me")}, n \in {2, 3, 200, 201},
     b \in {<< >>} \cup {[browser |-> Text(w)] : w \in {"", "regular", "private", "home", "other"}}
              \cup {[browser |-> v] : v \in Dashed}}
  \cup {Made(tool, << >>) : tool \in {"status", "release", "tab_replace"}}
  \cup {Made("navigate", [url |-> url] @@ wait) :
          url \in {Site, Address("file:"), Text("about:blank"), Blank, Secret("s")},
          wait \in {<< >>} \cup {[wait_ms |-> Num(n)] : n \in {-1, 0, 1, 120000, 120001}}}
  \cup {Made("act", [action |-> Text(verb)] @@ rest) :
          verb \in PageActions \cup {"jump"},
          rest \in {<< >>, [target |-> Ref(1)], [target |-> Text("#id")],
                    [target |-> Ref(1), value |-> Text("accept")], [value |-> Text("dismiss")],
                    [target |-> Ref(1), value |-> Secret("s")], [target |-> Ref(1), value |-> Secret("")],
                    [value |-> Sides(Digits(390), Digits(844))], [value |-> Sides(Digits(0), Text("tall"))],
                    [target |-> Ref(1), paths |-> List(<<File("file", 10), File("file", 11)>>)],
                    [target |-> Ref(1), paths |-> List([i \in 1 .. 9 |-> File("file", 1)])],
                    [target |-> Ref(1), paths |-> List(<<File("file", 9), File("linked out", 1)>>)],
                    [target |-> Ref(1), paths |-> List(<<File("out", 1)>>)],
                    [target |-> Ref(1), paths |-> List(<<File("absolute", 1)>>)]}}
  \cup {Made("act", [action |-> Text(verb), target |-> Ref(1), value |-> v]) :
          verb \in {"type", "press", "dialog"}, v \in Dashed}
  \cup {Made("act", [action |-> Text("upload"), target |-> Ref(1), paths |-> List(<<v, v>>)]) : v \in Dashed}
  \cup {Made("read", [find |-> v]) : v \in Dashed}
  \cup {Made("read", what @@ find) :
          what \in {<< >>} \cup {[what |-> w] : w \in {Text("network"), Text("html"), Empty,
                                                         Words(<<"cookies", "console">>)}},
          find \in {<< >>} \cup {[find |-> f] : f \in {Text("Pay"), Blank, Prose(201), Pattern("compiles"),
                                                         Pattern("empty"), Pattern("broken")}}}
  \cup {Made("evaluate", [expression |-> e]) : e \in {Prose(4096), Prose(4097), Blank, Secret("s")} \cup Dashed}
  \cup {Made("capture", [selector |-> v, reason |-> v]) : v \in Dashed}
  \cup {Made("capture", picture @@ tier @@ reason) :
          picture \in {<< >>, [full_page |-> Yes], [full_page |-> No], [selector |-> Text("#id")],
                       [full_page |-> Yes, selector |-> Empty], [compare_to |-> Text("c1")],
                       [compare_to |-> Empty]},
          tier \in {<< >>} \cup {[tier |-> Text(t)] : t \in {"detail", "max", "default"}},
          reason \in {<< >>} \cup {[reason |-> Prose(n)] : n \in {7, 8, 200}}}
  \cup {Made("sign_in", [action |-> Text("request"), what |-> what] @@ seconds) :
          what \in {Blank, Prose(2), Prose(3), Prose(200)},
          seconds \in {<< >>} \cup {[request_seconds |-> Num(n)] : n \in {0, 1, 900, 901}}}
  \cup {Made("sign_in", [action |-> Text("done")])}

ASSUME \A made \in MCToolCalls :
  /\ Undeclared(made.tool, made.args) = {} /\ ~ActionMistake(made.tool, made.args)

Symmetry == Permutations(Server) \cup Permutations(Claim) \cup Permutations(Page)
=============================================================================
