--------------------------------- MODULE Rules ---------------------------------
(***************************************************************************)
(* The rules the arguments of a call are held to, in the order they are    *)
(* looked at, and what is done by a call that breaks none                  *)
(* (service/pages.ts, service/operations/, service/storage-seed.ts,        *)
(* service/secrets.ts, uploads/resolve.ts, capture/pipeline.ts,            *)
(* feedback/).                                                             *)
(*                                                                         *)
(* Sizes of files are in MiB.  Which tab has received a secret, and what a *)
(* page does with an action, are left out.                                 *)
(***************************************************************************)
EXTENDS Arguments

CONSTANTS
  Regular, Private,    \* the names of the configured browsers, in order
  HasUploadRoot,       \* is there a directory uploads are read from?
  HasSecretResolver,
  LeaseSeconds

ASSUME RulesAssumption ==
  /\ Regular \in Seq(STRING) /\ Private \in Seq(STRING) /\ Regular # << >> /\ Private # << >>
  /\ HasUploadRoot \in BOOLEAN /\ HasSecretResolver \in BOOLEAN
  /\ LeaseSeconds \in Nat \ {0}

\* A rule, and whether the call at hand breaks it.
Rule(name, broken) == [name |-> name, broken |-> broken]

\* The rule a call is refused by is the first it breaks.
FirstBroken(rules) ==
  LET broken == SelectSeq(rules, LAMBDA r : r.broken)
  IN IF broken = << >> THEN "none" ELSE Head(broken).name

Of(asked, name) == IF name \in DOMAIN asked THEN asked[name] ELSE None

Length(v) ==
  CASE "word" \in DOMAIN v   -> Len(v.word)
    [] "length" \in DOMAIN v -> v.length
    [] OTHER                 -> 8   \* texts of the other kinds are a few characters long

IsFilled(v)         == IsText(v) /\ ~IsBlank(v)
IsWhole(v, low, up) == "number" \in DOMAIN v /\ v.number \in low .. up
IsBetween(v, low, up) == IsText(v) /\ Length(v) \in low .. up
Items(v)            == IF v.type = "list" THEN v.items ELSE << >>
ToItems(v)          == ToSet(Items(v))
IsAbsent(v)         == v \in {None, Nil}

-----------------------------------------------------------------------------
(* Secrets.                                                                *)

Parts(v) ==
  CASE v.type = "list"   -> ToItems(v)
    [] v.type = "object" -> {v.fields[n] : n \in DOMAIN v.fields}
    [] OTHER             -> {}

\* stringsWithin.  No argument nests deeper than the fields of a form or the
\* entries of a seed, three steps down: a text is at one of four depths.
TextsWithin(v) ==
  LET Deeper(values) == UNION {Parts(x) : x \in values}
      Texts(values)  == {x \in values : x.type = "text"}
  IN Texts({v}) \cup Texts(Parts(v)) \cup Texts(Deeper(Parts(v)))
       \cup Texts(Deeper(Deeper(Parts(v))))

LooksLikeSentinel(v) == "secret" \in DOMAIN v
IsSentinel(v)        == LooksLikeSentinel(v) /\ v.secret # ""   \* the whole value, well formed
ContainsSentinel(v)  == \E text \in TextsWithin(v) : LooksLikeSentinel(text)

-----------------------------------------------------------------------------
(* Actions.                                                                *)

\* What an action of the driver carries.
Carries ==
  [click |-> {"ref"}, hover |-> {"ref"}, check |-> {"ref"},
   type |-> {"ref", "value"}, fill |-> {"ref", "value"}, select |-> {"ref", "value"},
   press |-> {"ref", "value"}, scroll |-> {"ref"}, resize |-> {"viewport"},
   emulate |-> {"preferences"}, dialog |-> {"response"}, fill_form |-> {"fields"},
   drag |-> {"ref", "targetRef"}, upload |-> {"ref", "paths"}]

PageActions == DOMAIN Carries

MaxViewportSide == 16384
MaxFormFields   == 64
MaxUploadFiles  == 8
MaxUploadMiB      == 10
MaxUploadTotalMiB == 25

MediaPreferences ==
  [colourScheme  |-> {Text("light"), Text("dark"), Text("no-preference")},
   reducedMotion |-> {Text("reduce"), Text("no-preference")},
   forcedColours |-> {Text("active"), Text("none")}]

Verb(request) ==
  LET action == Field(request, "action")
  IN IF "word" \in DOMAIN action THEN action.word ELSE "none"

\* requireRef
RefRules(v) ==
  <<Rule("act.ref_required", ~IsFilled(v)), Rule("act.ref_shaped", "ref" \notin DOMAIN v)>>

OptionalRefRules(v) == IF v = None THEN << >> ELSE RefRules(v)

ValueRules(v) == <<Rule("act.value_required", ~IsText(v))>>

ViewportRules(v) ==
  <<Rule("act.viewport_bounded",
         \E side \in {"width", "height"} : ~IsWhole(Field(v, side), 1, MaxViewportSide))>>

PreferenceRules(v) ==
  LET named == {n \in DOMAIN MediaPreferences : Field(v, n) # None} IN
  <<Rule("act.emulate_preference_named",
         named = {} \/ \E n \in named : Field(v, n) \notin MediaPreferences[n])>>

\* Prompt text is typed before accepting.
ResponseRules(v) ==
  LET accept == Field(v, "accept")
      prompt == Field(v, "promptText")
  IN <<Rule("act.dialog_answer_named",
            \/ accept \notin {Yes, No}
            \/ prompt # None /\ ~(IsText(prompt) /\ accept = Yes))>>

FormRules(v) ==
  <<Rule("act.form_fields_bounded", Len(Items(v)) \notin 1 .. MaxFormFields)>>
    \o FlattenSeq([i \in DOMAIN Items(v) |->
         RefRules(Field(Items(v)[i], "ref")) \o ValueRules(Field(Items(v)[i], "value"))])

DragRules(ref, targetRef) ==
  RefRules(ref) \o RefRules(targetRef) \o <<Rule("act.drag_ends_differ", ref = targetRef)>>

PathRules(v) ==
  LET paths == ToItems(v) IN
  <<Rule("act.upload_paths_required", paths = {}),
    Rule("act.upload_paths_bounded", Len(Items(v)) > MaxUploadFiles),
    Rule("act.upload_path_shape",
         \E path \in paths :
           ~IsFilled(path) \/ ("leads" \in DOMAIN path /\ path.leads = "absolute"))>>

\* validateAction
ShapeRules(request) ==
  LET verb  == Verb(request)
      At(n) == Field(request, n)
      known == verb \in PageActions
  IN <<Rule("act.action_known", ~known)>> \o
     CASE ~known -> << >>
       [] verb \in {"click", "hover", "check"} -> RefRules(At("ref"))
       [] verb \in {"type", "fill", "select"}  -> RefRules(At("ref")) \o ValueRules(At("value"))
       [] verb = "press"     -> OptionalRefRules(At("ref")) \o ValueRules(At("value"))
       [] verb = "scroll"    -> OptionalRefRules(At("ref"))
       [] verb = "resize"    -> ViewportRules(At("viewport"))
       [] verb = "emulate"   -> PreferenceRules(At("preferences"))
       [] verb = "dialog"    -> ResponseRules(At("response"))
       [] verb = "fill_form" -> FormRules(At("fields"))
       [] verb = "drag"      -> DragRules(At("ref"), At("targetRef"))
       [] verb = "upload"    -> RefRules(At("ref")) \o PathRules(At("paths"))

\* The parts of an object the service takes over.
Only(v, names) == IF v.type = "object" THEN Object(Restrict(v.fields, names \cap DOMAIN v.fields)) ELSE v

\* The action handed to the driver: what its verb carries, and no more.
Performed(request) ==
  LET verb == Verb(request)
      Kept(n) ==
        LET v == Field(request, n) IN
        CASE n = "viewport"    -> Only(v, {"width", "height"})
          [] n = "preferences" -> Only(v, DOMAIN MediaPreferences)
          [] n = "response"    -> Only(v, {"accept", "promptText"})
          [] n = "fields"      -> List([i \in DOMAIN Items(v) |-> Only(Items(v)[i], {"ref", "value"})])
          [] OTHER             -> v
  IN Object(Present([n \in {"action"} \cup (Carries[verb] \cap DOMAIN request.fields) |-> Kept(n)]))

\* A secret is the whole of a value that is typed, or it is nowhere.
MaySecret(request) ==
  CASE Verb(request) \in {"type", "fill"} -> {Field(request, "value")}
    [] Verb(request) = "fill_form" -> {Field(entry, "value") : entry \in ToItems(Field(request, "fields"))}
    [] OTHER -> {}

SecretRules(request) ==
  LET sentinels == {text \in TextsWithin(request) : LooksLikeSentinel(text)} IN
  <<Rule("act.secret_placement",
         \E text \in sentinels : text \notin MaySecret(request) \/ ~IsSentinel(text)),
    Rule("act.secret_resolver_configured", sentinels # {} /\ ~HasSecretResolver)>>

Bytes(path) == IF "leads" \in DOMAIN path /\ path.leads \in {"file", "linked out"} THEN path.bytes ELSE 0

\* readUploadFiles: one file after another.  A name or a link that leads out
\* of the root is refused, and so is what is not a file.
FileRules(paths) ==
  LET Total(n) == FoldLeft(LAMBDA sum, i : sum + Bytes(paths[i]), 0, [i \in 1 .. n |-> i])
      Leads(path) == IF "leads" \in DOMAIN path THEN path.leads ELSE "nothing"
  IN FlattenSeq([n \in DOMAIN paths |->
       <<Rule("act.upload_path_contained", Leads(paths[n]) = "out"),
         Rule("act.upload_file_readable", Leads(paths[n]) \in {"nothing", "directory"}),
         Rule("act.upload_bytes_bounded", Bytes(paths[n]) > MaxUploadMiB),
         Rule("act.upload_bytes_bounded", Total(n) > MaxUploadTotalMiB),
         Rule("act.upload_path_contained", Leads(paths[n]) = "linked out")>>])

\* decideAct, up to the admission of the call.
ActRules(asked) ==
  LET request == Of(asked, "request")
      shape   == ShapeRules(request)
  IN IF FirstBroken(shape) # "none" THEN shape
     ELSE LET performed == Performed(request) IN
          <<Rule("act.upload_root_configured", Verb(request) = "upload" /\ ~HasUploadRoot)>>
            \o SecretRules(performed) \o FileRules(Items(Field(performed, "paths")))

-----------------------------------------------------------------------------
(* The other page operations.                                              *)

AllowedSchemes == {"http:", "https:"}

\* validateNavigationTarget, and after the admission validateNavigationWait.
NavigateRules(asked) ==
  LET url  == Of(asked, "url")
      wait == Of(asked, "waitMs")
  IN <<Rule("navigate.scheme_allowed",
            ~(\/ url = Text("about:blank")
              \/ "scheme" \in DOMAIN url /\ url.scheme \in AllowedSchemes)),
       Rule("navigate.secret_placement", ContainsSentinel(url)),
       Rule("navigate.wait_bounded", ~IsAbsent(wait) /\ ~IsWhole(wait, 1, LeaseSeconds * 1000))>>

ReadArtifacts == <<"snapshot", "console", "network", "cookies">>

FindMaxLength == 200

\* resolveReadArtifacts and resolveSnapshotFilter.
ReadRules(asked) ==
  LET artifacts == Of(asked, "artifacts")
      find      == Of(asked, "find")
  IN <<Rule("read.artifact_known",
            /\ ~IsAbsent(artifacts)
            /\ \/ artifacts.type # "list"
               \/ \E word \in ToItems(artifacts) : word \notin {Text(a) : a \in ToSet(ReadArtifacts)}),
       Rule("read.find_shape",
            /\ ~IsAbsent(find)
            /\ \/ ~IsFilled(find) \/ Length(find) > FindMaxLength
               \/ "pattern" \in DOMAIN find /\ find.pattern # "compiles")>>

\* The snapshot comes with every read, and the artefacts in one order.
Collected(artifacts) ==
  LET asked == {Text("snapshot")} \cup ToItems(artifacts)
  IN SelectSeq(ReadArtifacts, LAMBDA a : Text(a) \in asked)

MaxExpressionBytes == 4096

EvaluateRules(asked) ==
  LET expression == Of(asked, "expression") IN
  <<Rule("evaluate.expression_bounded",
         ~IsFilled(expression) \/ Length(expression) > MaxExpressionBytes),
    Rule("evaluate.secret_placement", ContainsSentinel(expression))>>

CaptureRules(asked) ==
  LET tier == Of(asked, "tier") IN
  <<Rule("capture.exclusive_mode", asked.fullPage = Yes /\ Of(asked, "selector") # None),
    Rule("capture.tier_known", ~IsAbsent(tier) /\ tier \notin {Text("detail"), Text("max")})>>

\* refuseArgumentMistakes comes after the commit: the call has been accepted,
\* and the picture is not taken.
CaptureLateRules(asked) ==
  <<Rule("capture.reason_required",
         /\ Of(asked, "tier") = Text("max")
         /\ ~(IsFilled(Of(asked, "reason")) /\ IsBetween(Of(asked, "reason"), 8, 200)))>>

-----------------------------------------------------------------------------
(* Claims, sign-ins and feedback.                                          *)

\* resolveBrowser: none, a kind, or a name.
ResolveBrowser(browser) ==
  LET names == ToSet(Regular) \cup ToSet(Private) IN
  CASE browser \in {None, Text("regular")} -> Regular[1]
    [] browser = Text("private")           -> Private[1]
    [] OTHER -> IF "word" \in DOMAIN browser /\ browser.word \in names THEN browser.word ELSE "none"

MaxSeedEntries    == 16
MaxSeedValueBytes == 4096

SeedEntryRules(entry) ==
  LET origin == Field(entry, "origin")
      key    == Field(entry, "key")
      value  == Field(entry, "value")
  IN <<Rule("claim.seed_shape", entry.type # "object"),
       Rule("claim.seed_origin_allowed",
            ~("scheme" \in DOMAIN origin /\ origin.scheme \in AllowedSchemes)),
       Rule("claim.seed_area_allowed", Field(entry, "area") \notin {Text("local"), Text("session")}),
       Rule("claim.seed_shape", ~IsText(key) \/ key = Empty),
       Rule("claim.seed_value_string", ~IsText(value)),
       Rule("claim.seed_bounded", Length(value) > MaxSeedValueBytes)>>

\* validateStorageSeed
SeedRules(seed) ==
  IF IsAbsent(seed) THEN << >>
  ELSE <<Rule("claim.seed_shape", seed.type # "list"),
         Rule("claim.seed_bounded", Len(Items(seed)) > MaxSeedEntries),
         Rule("claim.secret_placement", ContainsSentinel(seed))>>
       \o FlattenSeq([i \in DOMAIN Items(seed) |-> SeedEntryRules(Items(seed)[i])])

\* decideClaim, before capacity is looked at.
ClaimRules(asked) ==
  <<Rule("claim.session_bounded", Length(asked.sessionId) < 1),
    Rule("claim.browser_known", ResolveBrowser(Of(asked, "browser")) = "none"),
    Rule("claim.purpose_bounded", ~IsBetween(asked.purpose, 3, 200))>>
    \o SeedRules(Of(asked, "storageSeed"))

\* A blank is trimmed away.
SignInRules(asked) ==
  <<Rule("signin.what_bounded", ~IsFilled(asked.what) \/ ~IsBetween(asked.what, 3, 200))>>

SignInRequestSeconds == 900

\* A wait is cut to the longest, and never made longer.
SignInWait(asked) ==
  LET seconds == Of(asked, "requestSeconds") IN
  IF "number" \in DOMAIN seconds /\ seconds.number \in 1 .. SignInRequestSeconds
  THEN seconds.number ELSE SignInRequestSeconds

FeedbackCategories ==
  {Text(w) : w \in {"refusal-unclear", "no-path", "worked-around", "surprised-me", "worked-well"}}

\* refuseSubmission
FeedbackRules(asked) ==
  <<Rule("feedback.rating_in_scale", ~IsWhole(Of(asked, "rating"), 1, 5)),
    Rule("feedback.category_known", Of(asked, "category") \notin FeedbackCategories),
    Rule("feedback.note_bounded", ~IsBetween(Of(asked, "note"), 20, 2000))>>

-----------------------------------------------------------------------------
\* The rule that refuses a call, or "none".
Mistake(op, asked) ==
  FirstBroken(
    CASE op = "claim"    -> ClaimRules(asked)
      [] op = "navigate" -> NavigateRules(asked)
      [] op = "act"      -> ActRules(asked)
      [] op = "read"     -> ReadRules(asked)
      [] op = "evaluate" -> EvaluateRules(asked)
      [] op = "capture"  -> CaptureRules(asked)
      [] op = "sign_in"  -> SignInRules(asked)
      [] op = "feedback" -> FeedbackRules(asked)
      [] OTHER           -> << >>)

\* The mistake that is found when the browser is about to do the work.
LateMistake(op, asked) == IF op = "capture" THEN FirstBroken(CaptureLateRules(asked)) ELSE "none"

\* What a call does that makes none.
Effect(op, asked) ==
  CASE op = "act"     -> Performed(asked.request)
    [] op = "read"    -> [artifacts |-> Collected(Of(asked, "artifacts")), find |-> Of(asked, "find")]
    [] op = "claim"   -> asked @@ [on |-> ResolveBrowser(Of(asked, "browser"))]
    [] op = "sign_in" -> [what |-> asked.what, seconds |-> SignInWait(asked)]
    [] OTHER          -> asked
=============================================================================
