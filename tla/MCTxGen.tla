------------------------------ MODULE MCTxGen -------------------------------
(***************************************************************************)
(* Instances of TxGen for TLC.  The edges between each two of the objects  *)
(* are drawn from one of two pools, one rich in ordering edges, the other  *)
(* in kinds of edges; an object's list follows the order of the names.     *)
(***************************************************************************)
EXTENDS TxGen, FiniteSets

CONSTANTS a, b, c, d, OrderPool, MixedPool, GoalTypes

(* Filter is SelectSeq, on the lists of up to four elements of a set of three. *)
ASSUME FilterIsSelectSeq ==
    \A n \in 0 .. 4 : \A s \in [1 .. n -> 1 .. 3], T \in SUBSET (1 .. 3) :
        LET InT(x) == x \in T IN Filter(s, T) = SelectSeq(s, InT)

MCObjects == {a, b, c}
MCOrder == <<a, b, c>>

Pairs(S) == {p \in S \X S : p[1] # p[2]}

(* The lists of a choice of an edge type, or none, for each pair. *)
Lists(f) ==
    [o \in MCObjects |->
        LET Has(p) == <<o, p>> \in DOMAIN f /\ f[<<o, p>>] # {}
            to     == SelectSeq(MCOrder, Has)
        IN  [k \in DOMAIN to |-> [to |-> to[k], type |-> f[<<o, to[k]>>]]]]

AllPairs(pool) == {Lists(f) : f \in [Pairs(MCObjects) -> pool \cup {{}}]}

MCEdgeLists == AllPairs(OrderPool) \cup AllPairs(MixedPool)

MCGoals == {[object |-> a, type |-> t] : t \in GoalTypes}

(* The objective wants three objects, and is in an order cycle with each. *)
FourObjects == {a, b, c, d}
FourOrder == <<b, a, c, d>>

Star ==
    LET Wants(o) == [to |-> o, type |-> {"AddStartNonreq", "After"}]
    IN  {[o \in FourObjects |-> IF o = a THEN <<Wants(d), Wants(c), Wants(b)>>
                                ELSE <<[to |-> a, type |-> {"After"}]>>]}
=============================================================================
