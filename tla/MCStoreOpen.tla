---------------------------- MODULE MCStoreOpen ----------------------------
(* Three processes that reach the store, two of the newest build that do   *)
(* not agree on the budget and one of an older build; and one whose        *)
(* settings are wrong in one way or another each time it is started.       *)
EXTENDS StoreOpen

MCBuild == [p \in Proc |-> IF p = "old" THEN 6 ELSE Expected]

Path(dirs)  == [blank |-> FALSE, nul |-> FALSE, path |-> dirs,
                place |-> [share |-> FALSE, realShare |-> FALSE, volume |-> "local"]]
Digits(n)   == [digits |-> TRUE, value |-> n]
Name(n)     == [name |-> n, length |-> 4, wellFormed |-> TRUE]

Healthy ==
  [database |-> Unset, artifacts |-> Unset, profiles |-> Unset, upload |-> Unset,
   resolver |-> Unset, tabs |-> Digits(4), leaseSeconds |-> Unset,
   queueSeconds |-> Unset, readinessSeconds |-> Unset, regular |-> Unset,
   private |-> Unset, binaries |-> [name \in {} |-> Unset],
   comparison |-> [key \in DOMAIN ComparisonNumbers |-> Unset]]

\* A mounted share; zero; one name for both kinds; uploads through a link into
\* the profiles; a binary that is not there.
Wrong ==
  {[Healthy EXCEPT !.database = Path(<<"share", "broker.db">>)],
   [Healthy EXCEPT !.queueSeconds = Digits(0)],
   [Healthy EXCEPT !.regular = <<Name("work"), Name("private")>>],
   [Healthy EXCEPT !.upload = Path(<<"link">>)],
   [Healthy EXCEPT !.binaries = [name \in {"regular"} |-> Path(<<"opt">>)]]}

Wide == [Healthy EXCEPT !.tabs = Digits(8), !.upload = Path(<<"srv">>)]

\* A tolerance of one and a half.
Tolerant ==
  [Wide EXCEPT !.comparison.colourTolerance =
     [blank |-> FALSE, finite |-> TRUE, thousandths |-> 1500]]

MCEnvironments ==
  [p \in Proc |-> CASE p = "far" -> Wrong [] p = "wide" -> {Wide, Tolerant} [] OTHER -> {Healthy}]

Paths == {Own(name) : name \in {"broker.db", "artefacts", "profiles"}}
           \cup {<<"data", "browser-broker">>, <<"share", "broker.db">>, <<"share">>,
                 <<"link">>, <<"srv">>, <<"opt">>}
MCReal == [path \in Paths |-> IF path = <<"link">> THEN Own("profiles") ELSE path]
MCPlatform ==
  [path \in Paths |-> [share |-> FALSE, realShare |-> FALSE,
                       volume |-> IF path = <<"share", "broker.db">> THEN "NFS" ELSE "local"]]

\* All is well, or everything beside the store is not.
Well ==
  [file |-> [readWrite |-> TRUE], stranded |-> {}, automation |-> TRUE,
   artifacts |-> [writable |-> TRUE], profiles |-> Null, keeper |-> Null,
   discovery |-> [recorded |-> TRUE, answered |-> Null], profile |-> [cookies |-> 3],
   signIn |-> [state |-> "running", owner |-> Null, ownerRuns |-> FALSE]]
Unwell ==
  [Well EXCEPT !.stranded = {[closeFailed |-> FALSE]}, !.automation = FALSE,
     !.artifacts = [writable |-> FALSE], !.profile = [cookies |-> 0],
     !.discovery = [recorded |-> TRUE, answered |-> TRUE, reported |-> 1, expected |-> 2],
     !.keeper = FALSE, !.signIn = [state |-> "signing-in", owner |-> 1, ownerRuns |-> FALSE]]
MCMachine == {Well, Unwell}

Browsers(v) ==
  {[name |-> k, kind |-> IF v < 9 THEN Null ELSE k, state |-> s, pid |-> s # "stopped"]
     : k \in {"private"}, s \in {"stopped", "running"}}
Claims(v) ==
  {[id |-> i, created |-> t, state |-> s, reason |-> FALSE, ended |-> s = "released",
    activated |-> s = "active", arrival |-> IF v < 3 THEN Null ELSE 3 - i]
     : i \in {1, 2}, t \in {1, 2}, s \in {"queued"}}
Pages(v) ==
  {[state |-> s, driver |-> s # "opening", page |-> IF s = "opening" THEN Null ELSE 1]
     : s \in {"opening", "closed"}}
Events == {[kind |-> "claim_queued", outcome |-> "allow", guard |-> FALSE]}

Rows(v) ==
  {[browsers |-> {b}, claims |-> {c, d}, tabs |-> {t}, events |-> Events,
    next |-> IF v < 3 THEN Null ELSE 2, budget |-> Null, dangling |-> x]
     : b \in Browsers(v), t \in Pages(v), x \in BOOLEAN,
       c \in {c \in Claims(v) : c.id = 1}, d \in {c \in Claims(v) : c.id = 2}}

MCContent ==
  {[version |-> 0, db |-> NoRows]}
    \cup UNION {{[version |-> v, db |-> rows] : rows \in Rows(v)} : v \in {2, 8}}
=============================================================================
