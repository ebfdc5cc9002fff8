----------------------------- MODULE CommitWalk -----------------------------
(***************************************************************************)
(* What the walk over a history promises, whatever its agents and its      *)
(* files do: the commits are handled one by one in the order of the walk,  *)
(* each commit with a Jira key is processed once and no other commit is,   *)
(* a walk that ends well has handled them all, and every walk ends.        *)
(***************************************************************************)
EXTENDS Naturals, Sequences

VARIABLES
  linked,     \* linked[i]: the i-th commit of the walk has a Jira key
  position,   \* commits handled so far
  processed,  \* those of them that were processed, by their place in the walk
  outcome     \* "walking", "ended" or "failed"

vars == <<linked, position, processed, outcome>>

Init ==
  /\ linked \in Seq(BOOLEAN)
  /\ position = 0
  /\ processed = <<>>
  /\ outcome = "walking"

Handle ==
  /\ outcome = "walking"
  /\ position < Len(linked)
  /\ position' = position + 1
  /\ processed' = IF linked[position'] THEN Append(processed, position') ELSE processed
  /\ UNCHANGED <<linked, outcome>>

End ==
  /\ outcome = "walking"
  /\ position = Len(linked)
  /\ outcome' = "ended"
  /\ UNCHANGED <<linked, position, processed>>

Fail ==
  /\ outcome = "walking"
  /\ outcome' = "failed"
  /\ UNCHANGED <<linked, position, processed>>

Next == Handle \/ End \/ Fail

Spec == Init /\ [][Next]_vars

Ends == <>(outcome # "walking")
============================================================================
