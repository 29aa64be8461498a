------------------------------- MODULE Selection -------------------------------
(***************************************************************************)
(* Picking out of a sequence in order: what a loop over a vector that      *)
(* copies some of its elements makes.  The library's SelectSeq says the    *)
(* same; the prover takes it for an unknown symbol.                        *)
(***************************************************************************)
EXTENDS Integers, Sequences

(* The numbers of `set` up to n, in ascending order.                        *)
Ascending(set, n) ==
  LET upTo[i \in 0 .. n] == IF i = 0 THEN <<>>
                            ELSE IF i \in set THEN Append(upTo[i - 1], i) ELSE upTo[i - 1]
  IN upTo[n]

(* The elements of a sequence at some indices, in order.                    *)
Picked(sequence, indices) ==
  LET order == Ascending(indices, Len(sequence))
  IN [k \in DOMAIN order |-> sequence[order[k]]]

=============================================================================
