----------------------------- MODULE MCJobSched -----------------------------
(***************************************************************************)
(* Instances of JobSched for TLC: three objects, and families of order     *)
(* graphs and of transactions from which Init and tx_enqueue choose.       *)
(***************************************************************************)
EXTENDS JobSchedRefines, SequencesExt

CONSTANTS a, b, c

MCObjects == {a, b, c}
MCOrder == <<a, b, c>>

(* The graph with the kAfter edges E, those of D being there twice. *)
Graph(E, D) ==
    [edges    |-> [o \in MCObjects |-> {p \in MCObjects : <<o, p>> \in E}],
     edges_to |-> [p \in MCObjects |->
                     LET From(S) == SelectSeq(MCOrder, LAMBDA o : <<o, p>> \in S)
                     IN  From(E) \o Reverse(From(D))]]

(* Every order among three objects, whatever the order of the std::map. *)
Acyclic(E) == \E rank \in [MCObjects -> 1 .. 3] : \A e \in E : rank[e[2]] < rank[e[1]]
Dags == {E \in SUBSET {e \in MCObjects \X MCObjects : e[1] # e[2]} : Acyclic(E)}

AllDags == {Graph(E, D) : E \in Dags, D \in {{}}}
AllDagsWithRepeats == UNION {{Graph(E, D) : D \in {{}, E}} : E \in Dags}

(* A chain, a fork, a join and a repeated edge, against and along the map. *)
SomeGraphs ==
    {Graph({<<b, a>>, <<c, b>>}, {}), Graph({<<a, b>>, <<b, c>>}, {}),
     Graph({<<b, a>>, <<c, a>>}, {}), Graph({<<a, b>>, <<a, c>>}, {}),
     Graph({<<b, a>>, <<c, b>>}, {<<b, a>>})}

(* What the jobs of a transaction may be. *)
Specs(types) == [MCObjects -> types]
StartStopRestart == Specs({"none", "start", "stop", "restart"})
StartVerify == Specs({"start", "verify"})

(* A transaction that starts two objects and does op to the third. *)
OneOther(op) == {spec \in Specs({"start", op}) : \E o \in MCObjects :
                    spec = [p \in MCObjects |-> IF p = o THEN op ELSE "start"]}
StartsAndOneOther == OneOther("start") \cup OneOther("stop") \cup OneOther("restart")
=============================================================================
