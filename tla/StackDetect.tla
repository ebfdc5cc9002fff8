----------------------------- MODULE StackDetect ----------------------------
(***************************************************************************)
(* packages/stack-detect: the scan of the working tree for the stack       *)
(* profile.  A path is a sequence of names; walkFiles descends depth first *)
(* and its recursion is the stack of entries still to visit.               *)
(***************************************************************************)
EXTENDS Naturals, Sequences, SequencesExt, FiniteSets

CONSTANTS
  Tree,           \* Tree[d]: the entries of directory d, in the order of readdir
  ExcludedNames,  \* names of directories that end in one of the excluded names
  LanguageOf,     \* LanguageOf[f]: the language of file f (EXTENSION_MAP), or NoLanguage
  NoLanguage,
  HintsOf,        \* HintsOf[f]: what file f hints at if it is a marker (MARKER_FILES)
  MaxFiles        \* DetectStackOptions.maxFiles (10,000)

ASSUME StackAssumption == MaxFiles \in Nat \ {0}

VARIABLES
  todo,     \* entries to visit
  scanned,  \* files found so far
  unread    \* history: directories that readdir could not read

scanVars == <<todo, scanned, unread>>

Directories == DOMAIN Tree

Entries == UNION {ToSet(Tree[d]) : d \in Directories}

TreeFiles == Entries \ Directories

\* Every path is listed by the directory above it, up to the root.
ASSUME TreeAssumption ==
  /\ <<>> \in Directories
  /\ \A d \in Directories : Tree[d] \in Seq(ToSet(Tree[d]))
  /\ \A p \in Entries :
       /\ p \in Seq(ToSet(p))
       /\ \A k \in 1..Len(p) : /\ SubSeq(p, 1, k - 1) \in Directories
                               /\ SubSeq(p, 1, k) \in ToSet(Tree[SubSeq(p, 1, k - 1)])

\* The patterns exclude what is below such a directory, not the directory itself.
Excluded(path) == \E i \in 1..(Len(path) - 1) : path[i] \in ExcludedNames

ScanInit ==
  /\ todo = << <<>> >>
  /\ scanned = <<>>
  /\ unread = {}

ScanFull == Len(scanned) >= MaxFiles

ScanDone == todo = <<>> \/ ScanFull

Visit(path) ==
  \/ /\ Excluded(path)
     /\ todo' = Tail(todo)
     /\ UNCHANGED <<scanned, unread>>
  \/ /\ ~Excluded(path) /\ path \in Directories
     /\ todo' = Tree[path] \o Tail(todo)
     /\ UNCHANGED <<scanned, unread>>
  \/ /\ ~Excluded(path) /\ path \in Directories
     /\ todo' = Tail(todo)
     /\ unread' = unread \cup {path}
     /\ UNCHANGED scanned
  \/ /\ ~Excluded(path) /\ path \notin Directories
     /\ todo' = Tail(todo)
     /\ scanned' = Append(scanned, path)
     /\ UNCHANGED unread

ScanStep == ~ScanDone /\ Visit(Head(todo))

-----------------------------------------------------------------------------
(* The profile: a file counts for the language of its extension, the marker *)
(* files hint at tools, and the first language of the list is the one with  *)
(* the most files, or of several such the one met first.                    *)

Seen(language) == {i \in DOMAIN scanned : LanguageOf[scanned[i]] = language}

SeenMore(k, l) ==
  \/ Cardinality(Seen(k)) > Cardinality(Seen(l))
  \/ /\ Cardinality(Seen(k)) = Cardinality(Seen(l))
     /\ \E i \in Seen(k) : \A j \in Seen(l) : i < j

CountLanguages == {LanguageOf[f] : f \in ToSet(scanned)} \ {NoLanguage}

PrimaryLanguage ==
  IF CountLanguages = {} THEN NoLanguage
  ELSE CHOOSE l \in CountLanguages : \A k \in CountLanguages \ {l} : SeenMore(l, k)

DetectFromMarkers == UNION {HintsOf[f] : f \in ToSet(scanned)}

Profile ==
  [primaryLanguage |-> PrimaryLanguage, hints |-> DetectFromMarkers,
   filesScanned |-> Len(scanned), scanTruncated |-> ScanFull]
============================================================================
