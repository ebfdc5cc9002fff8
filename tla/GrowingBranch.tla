--------------------------- MODULE GrowingBranch ----------------------------
(***************************************************************************)
(* What the delivery of a job promises about the branch of its pull        *)
(* request: the branch only grows, whoever pushes to it; its tip always    *)
(* has the files of the repository and those of the bundle; an attempt     *)
(* that reports success has a commit on the branch, where it stays; and    *)
(* every attempt that starts ends.                                         *)
(***************************************************************************)
CONSTANTS
  Attempts,  \* attempts to deliver the job
  Base,      \* files of the repository
  Bundle     \* files of the bundle

VARIABLES
  held,      \* commits on the branch
  content,   \* files of its tip
  waiting,   \* attempts under way
  reported   \* commits that were reported as delivered

vars == <<held, content, waiting, reported>>

Init == held = {} /\ content = {} /\ waiting = {} /\ reported = {}

Grow ==
  /\ held \subseteq held' /\ held' # held
  /\ content \cup Base \cup Bundle \subseteq content'

Push == Grow /\ UNCHANGED <<waiting, reported>>

Start(a) ==
  /\ a \notin waiting
  /\ waiting' = waiting \cup {a}
  /\ UNCHANGED <<held, content, reported>>

Deliver(a) ==
  /\ a \in waiting
  /\ waiting' = waiting \ {a}
  /\ \E c \in held : reported' = reported \cup {c}
  /\ UNCHANGED <<held, content>>

\* The answer to a push may be lost.
Fail(a) ==
  /\ a \in waiting
  /\ waiting' = waiting \ {a}
  /\ Grow \/ UNCHANGED <<held, content>>
  /\ UNCHANGED reported

Next == Push \/ \E a \in Attempts : Start(a) \/ Deliver(a) \/ Fail(a)

Spec == Init /\ [][Next]_vars

AttemptsEnd == \A a \in Attempts : a \in waiting ~> a \notin waiting
============================================================================
