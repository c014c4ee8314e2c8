------------------------------- MODULE Lists --------------------------------
(***************************************************************************)
(* The one operation on std::list that the object graph and the            *)
(* transaction generator share: a pass over a list that keeps, in order,   *)
(* the elements it is looking for.  It is SelectSeq with a set for the     *)
(* test, written as a recursive function so that it can be reasoned about. *)
(***************************************************************************)
EXTENDS Integers, Sequences

Filter(s, T) ==
    LET kept[i \in 0 .. Len(s)] ==
          IF i = 0 THEN << >>
          ELSE IF s[i] \in T THEN Append(kept[i - 1], s[i]) ELSE kept[i - 1]
    IN  kept[Len(s)]
=============================================================================
