-------------------------------- MODULE Queries --------------------------------
(***************************************************************************)
(* The command lines that read the records back: `broker events`           *)
(* (cli/operations-commands.ts), `broker captures` (cli/telemetry.ts) and  *)
(* `broker diffs` (cli/diffs.ts), each with a parser of its own.           *)
(*                                                                         *)
(* A line is a sequence of words: a flag, a flag with a value joined to it *)
(* by "=", or a value, which is a text and may spell a number or a list.   *)
(* Numbers are whole, an instant is a number of the clock, and no flag     *)
(* stands where an instant should.                                         *)
(***************************************************************************)
EXTENDS Schema, Sequences, SequencesExt

Flag(name)      == [flag |-> name]
FlagIs(name, v) == [flag |-> name, value |-> v]
Word(text)      == [text |-> text]
Number(n)       == [text |-> n, number |-> n]
Words(texts)    == [text |-> texts, list |-> texts]
Empty           == [text |-> "", list |-> {}, number |-> 0]

IsFlag(word)   == "flag" \in DOMAIN word
IsJoined(word) == "value" \in DOMAIN word

\* A flag without a value is TRUE in the code.
Bare == [bare |-> TRUE]

\* The line is refused, or asks for help: nothing is read.
Nothing == [ok |-> FALSE]

-----------------------------------------------------------------------------
(* parseFlags: unknown flags are refused, words that follow no flag are    *)
(* passed over, and a flag given twice is what it was given last.          *)

EventFlags ==
  {"kind", "outcome", "guard", "session-id", "claim-id", "since", "before", "limit"}

UniversalFlags == {"json", "help"}

FlagsIn(rest) == {i \in DOMAIN rest : IsFlag(rest[i])}

\* The value joined to the flag in this place, or the word after it if that is
\* no flag.
ValueAt(rest, i) ==
  IF IsJoined(rest[i]) THEN rest[i].value
  ELSE IF i < Len(rest) /\ i + 1 \notin FlagsIn(rest) THEN rest[i + 1] ELSE Bare

LastPlace(rest, name) ==
  CHOOSE i \in FlagsIn(rest) :
    /\ rest[i].flag = name
    /\ \A j \in FlagsIn(rest) : rest[j].flag = name => j <= i

ParseFlags(rest) ==
  [name \in {rest[i].flag : i \in FlagsIn(rest)} |-> ValueAt(rest, LastPlace(rest, name))]

Unknown(rest) ==
  {i \in FlagsIn(rest) : rest[i].flag \notin EventFlags \cup UniversalFlags}

\* A flag that stands where a value does is a text like any other.
AsString(given, name) ==
  IF name \notin DOMAIN given \/ given[name] = Bare THEN Null
  ELSE IF "text" \in DOMAIN given[name] THEN given[name].text ELSE given[name]

\* A text that is not a number is as good as none.
AsNumber(given, name) ==
  IF name \notin DOMAIN given \/ "number" \notin DOMAIN given[name]
  THEN Null ELSE given[name].number

\* A list of kinds without one is no filter.
KindsAsked(given) ==
  IF AsString(given, "kind") = Null THEN {}
  ELSE IF "list" \in DOMAIN given["kind"] THEN given["kind"].list \ {""} ELSE {given["kind"].text}

OrderNewest(given) == "newest"

\* What came after a point is read in the order it happened, anything else
\* from the newest back.
OrderAsked(given) == IF "since" \in DOMAIN given THEN "oldest" ELSE "newest"

\* runEventsCommand.
ParseEvents(rest) ==
  LET given == ParseFlags(rest)
  IN IF Unknown(rest) # {} THEN Nothing
     ELSE [ok |-> TRUE, kinds |-> KindsAsked(given),
           outcome |-> AsString(given, "outcome"), guard |-> AsString(given, "guard"),
           session |-> AsString(given, "session-id"), claim |-> AsString(given, "claim-id"),
           since |-> AsNumber(given, "since"), before |-> AsNumber(given, "before"),
           limit |-> AsNumber(given, "limit"), order |-> OrderAsked(given)]

-----------------------------------------------------------------------------
(* The two parsers that take their words one by one: the word after a flag *)
(* that has a value is its value, and no word is passed over.              *)

Give(line, name, v) ==
  [ok |-> line.ok, after |-> Null,
   given |-> [n \in DOMAIN line.given \cup {name} |-> IF n = name THEN v ELSE line.given[n]]]

TakeWord(valued, alone, Fits(_, _), line, word) ==
  LET name == IF IsFlag(word) /\ ~IsJoined(word) THEN word.flag ELSE Null
  IN IF line.after # Null /\ Fits(line.after, word)
     THEN Give(line, line.after, word)
     ELSE IF line.after # Null THEN [line EXCEPT !.ok = FALSE, !.after = Null]
     ELSE IF name \in alone THEN Give(line, name, Bare)
     ELSE IF name \in valued THEN [line EXCEPT !.after = name]
     ELSE [line EXCEPT !.ok = FALSE]

Take(argv, valued, alone, Fits(_, _)) ==
  LET line[i \in 0 .. Len(argv)] ==
        IF i = 0 THEN [ok |-> TRUE, after |-> Null, given |-> << >>]
        ELSE TakeWord(valued, alone, Fits, line[i - 1], argv[i])
  IN line[Len(argv)]

AsksNothing(line, argv) == ~line.ok \/ line.after # Null \/ Flag("help") \in ToSet(argv)

CapturesFits(name, word) == name = "limit" => "number" \in DOMAIN word

\* parseCapturesArguments: what a window's captures cost, what was made of one
\* capture, or what was most compared against.
ParseCaptures(argv) ==
  LET line   == Take(argv, {"since", "until", "lease", "capture", "limit"},
                     {"json", "targets"}, CapturesFits)
      given  == line.given
      Has(f) == f \in DOMAIN given
      modes  == {f \in {"capture", "targets"} : Has(f)}
      window == \E f \in {"since", "until", "lease"} : Has(f)
  IN IF AsksNothing(line, argv) \/ Cardinality(modes) > 1 \/ (modes # {} /\ window)
     THEN Nothing
     ELSE [ok |-> TRUE,
           mode |-> IF modes = {} THEN "rollup" ELSE CHOOSE f \in modes : TRUE,
           capture |-> AsString(given, "capture"), limit |-> AsNumber(given, "limit"),
           since |-> AsNumber(given, "since"), until |-> AsNumber(given, "until"),
           claim |-> AsString(given, "lease")]

DiffsFits(name, word) ==
  /\ ~IsFlag(word)
  /\ name = "limit" => "number" \in DOMAIN word /\ word.number >= 1

\* parseDiffsArguments: comparisons by the capture they were made from, the
\* one they were made against, and their lease.
ParseDiffs(argv) ==
  LET line  == Take(argv, {"capture", "target", "lease", "limit"}, {"json"}, DiffsFits)
      given == line.given
  IN IF AsksNothing(line, argv) THEN Nothing
     ELSE [ok |-> TRUE, source |-> AsString(given, "capture"),
           target |-> AsString(given, "target"), claim |-> AsString(given, "lease"),
           limit |-> AsNumber(given, "limit")]
=============================================================================
