------------------------------ MODULE Settings ------------------------------
(***************************************************************************)
(* What a process makes of its environment variables before it opens       *)
(* anything (config/environment.ts), and whether the store it is pointed   *)
(* at is on this machine (store/location.ts, store/network-path.ts); and   *)
(* of the numbers of comparisons, which are read only once it serves       *)
(* (diff/settings.ts).                                                     *)
(*                                                                         *)
(* A raw value is Unset or a record of what the reader looks at; a path is *)
(* the sequence of its directories.  Everything unreadable is one refusal. *)
(***************************************************************************)
EXTENDS Integers, Sequences, SequencesExt, FiniteSets

CONSTANTS
  Unset,          \* a variable nobody set
  LargestExact,   \* Number.MAX_SAFE_INTEGER
  Real,           \* Real[path]: the path with its links followed
  Files,          \* the paths that are regular files
  Platform        \* Platform[path]: what the platform says of where a path is

ASSUME SettingsAssumption == LargestExact \in Nat

BrowserNameMaximum == 32
BrowsersPerKind == 3

Own(file) == <<"data", "browser-broker", file>>

Fallback ==
  [database |-> Own("broker.db"), artifacts |-> Own("artefacts"),
   profiles |-> Own("profiles"), tabs |-> 15, regular |-> {"regular"},
   private |-> {"private"}]

-----------------------------------------------------------------------------
(* Reading one variable.                                                   *)

ReadablePath(raw) == raw # Unset => ~raw.blank /\ ~raw.nul

\* parseCommandLine: at least one word, its quotes closed.
IsCommandLine(raw) == raw.words > 0 /\ raw.closed

ReadableCommand(raw) == raw # Unset => IsCommandLine(raw) /\ ~raw.nul

ReadableInteger(raw) ==
  raw # Unset => raw.digits /\ raw.value \in 1 .. LargestExact

\* Names between commas: none empty, too long, ill-formed or given twice.
ReadableNames(raw) ==
  raw # Unset =>
     /\ Len(raw) \in 1 .. BrowsersPerKind
     /\ \A i \in DOMAIN raw : raw[i].length \in 1 .. BrowserNameMaximum /\ raw[i].wellFormed
     /\ \A i, j \in DOMAIN raw : raw[i].name = raw[j].name => i = j

\* A configured browser binary has to be there now: it is never looked for
\* elsewhere.
ReadableBinary(raw) == ReadablePath(raw) /\ (raw # Unset => raw.path \in Files)

PathOr(raw, fallback) == IF raw = Unset THEN fallback ELSE raw.path
NumberOr(raw, fallback) == IF raw = Unset THEN fallback ELSE raw.value
NamesOr(raw, fallback) == IF raw = Unset THEN fallback ELSE {raw[i].name : i \in DOMAIN raw}

-----------------------------------------------------------------------------
(* Reading all of them.                                                    *)

Regular(e) == NamesOr(e.regular, Fallback.regular)
Private(e) == NamesOr(e.private, Fallback.private)
TabBudget(e) == NumberOr(e.tabs, Fallback.tabs)
DatabasePath(e) == PathOr(e.database, Fallback.database)

\* One path inside the other, or the same.
Overlaps(one, other) == IsPrefix(one, other) \/ IsPrefix(other, one)

\* Both as written and with links followed.
Forms(path) == {path, Real[path]}

\* What an upload root may not overlap: profiles, artifacts, the store's
\* directory.
Reserved(e) == {PathOr(e.profiles, Fallback.profiles),
                PathOr(e.artifacts, Fallback.artifacts), Front(DatabasePath(e))}

UploadRootIsApart(e) ==
  e.upload # Unset =>
    \A reserved \in Reserved(e) :
      \A one \in Forms(e.upload.path), other \in Forms(reserved) : ~Overlaps(one, other)

\* readEnvironment refuses the process, or answers.
Readable(e) ==
  /\ \A raw \in {e.database, e.artifacts, e.profiles, e.upload} : ReadablePath(raw)
  /\ ReadableCommand(e.resolver)
  /\ \A raw \in {e.tabs, e.leaseSeconds, e.queueSeconds, e.readinessSeconds} :
       ReadableInteger(raw)
  /\ ReadableNames(e.regular) /\ ReadableNames(e.private)
  /\ Regular(e) \cap Private(e) = {}
  /\ UploadRootIsApart(e)
  /\ \A name \in (Regular(e) \cup Private(e)) \cap DOMAIN e.binaries :
       ReadableBinary(e.binaries[name])

-----------------------------------------------------------------------------
(* The numbers of comparisons.                                             *)

Bounded(integer, minimum, maximum) ==
  [integer |-> integer, minimum |-> minimum, maximum |-> maximum]

\* DIFF_DECLARATIONS
ComparisonNumbers ==
  [colourTolerance     |-> Bounded(FALSE, 0, 1),
   minimumRegionArea   |-> Bounded(TRUE, 0, LargestExact),
   maximumRegions      |-> Bounded(TRUE, 1, LargestExact),
   regionMergeDistance |-> Bounded(TRUE, 0, LargestExact),
   cropPadding         |-> Bounded(TRUE, 0, LargestExact)]

\* readNumber, of a number given in thousandths: set and blank is not unset.
ReadableNumber(raw, number) ==
  raw # Unset =>
    /\ ~raw.blank /\ raw.finite
    /\ number.integer => raw.thousandths % 1000 = 0
    /\ raw.thousandths \in 1000 * number.minimum .. 1000 * number.maximum

ComparisonsReadable(e) ==
  \A key \in DOMAIN ComparisonNumbers : ReadableNumber(e.comparison[key], ComparisonNumbers[key])

-----------------------------------------------------------------------------
(* Where the store is.                                                     *)

NetworkVolumes == {"SMB", "SMB2", "CIFS", "NFS", "AFS", "AFS (OpenAFS)", "NCP",
                   "FUSE", "FUSE (control)", "GPFS", "OCFS2"}

\* A share by its path, a share once resolved, or a volume of a network
\* filesystem.  What the platform cannot say is not held against the path.
OnNetwork(place) == place.share \/ place.realShare \/ place.volume \in NetworkVolumes

\* The path is judged as configured and as derived.
StoreIsElsewhere(e) ==
  \/ IF e.database = Unset THEN FALSE ELSE OnNetwork(e.database.place)
  \/ OnNetwork(Platform[DatabasePath(e)])
=============================================================================
