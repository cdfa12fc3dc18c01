----------------------------- MODULE ChildOrder -----------------------------
(***************************************************************************)
(* What the child-class list of one TClassCounter promises its users       *)
(* (spec 4.3 and 8.5, scenario S3): an ordered collection of distinct      *)
(* child classes that changes only by appending a class it does not hold   *)
(* yet (pushNewChildClass after a miss) or by moving a class that was hit  *)
(* one place toward the head (the LFU promotion of findChildClass).        *)
(* Lookups that change nothing are stuttering steps.                       *)
(***************************************************************************)
EXTENDS Sequences, Functions

CONSTANT Classes

VARIABLE order   \* the child classes, head first

Init == order = <<>>

\* A miss for class c: the new edge goes to the tail.
AddChild(c) ==
  /\ c \notin Range(order)
  /\ order' = Append(order, c)

\* A hit at position i that overtakes its predecessor.
Promote(i) ==
  /\ i \in 2..Len(order)
  /\ order' = [order EXCEPT ![i - 1] = order[i], ![i] = order[i - 1]]

Next ==
  \/ \E c \in Classes : AddChild(c)
  \/ \E i \in 2..Len(order) : Promote(i)

Spec == Init /\ [][Next]_order

\* No class is listed twice.
Distinct == IsInjective(order)

=============================================================================
