-------------------------- MODULE MCReconciliation --------------------------
(* Constants of Reconciliation for model checking. *)
EXTENDS Reconciliation, TLC

CONSTANTS p1, p2, e1, e2, e3

Some(edits) == SetToBag({Typed(x) : x \in edits})

\* The edits two peers start with differ in their second bit only; what comes
\* later, an edit or a snapshot, is on the other side of the trie.
Bits(h, i) ==
    CASE h = Typed(e1) -> 0
      [] h = Typed(e2) -> i - 1
      [] h = Typed(e3) -> 2 - i
      [] OTHER -> 1

Holding(xs, ys) == (p1 :> Some(xs)) @@ (p2 :> Some(ys))

\* Three edits to search for and none to type; a late joiner, and one to type.
SpreadOrLate == {Holding({e1, e3}, {e2}), Holding({e1, e2}, {})}

============================================================================
