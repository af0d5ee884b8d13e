-------------------------------- MODULE Lists ---------------------------------
(***************************************************************************)
(* What stays of a linked list when the nodes that are not in a set are    *)
(* unlinked from it, as the loops of mdns.c do that walk a list with the   *)
(* node before the current one in hand.  It is SelectSeq for a set, as a   *)
(* function of the part of the list that was walked, so that proofs can    *)
(* follow the walk.  And how many things there are when each of some       *)
(* owners has its number of them, as a number of pairs, of which the       *)
(* library has theorems.                                                   *)
(***************************************************************************)
EXTENDS Naturals, Sequences, FiniteSets

Keep(list, nodes) ==
  LET kept[i \in 0..Len(list)] ==
        IF i = 0 THEN <<>>
        ELSE IF list[i] \in nodes THEN Append(kept[i - 1], list[i])
        ELSE kept[i - 1]
  IN  kept[Len(list)]

\* Each owner x with its f[x] things.
Things(f) == UNION {{x} \X (1..f[x]) : x \in DOMAIN f}

Total(f) == Cardinality(Things(f))
=============================================================================
