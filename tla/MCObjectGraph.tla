---------------------------- MODULE MCObjectGraph ---------------------------
(***************************************************************************)
(* Instances of ObjectGraph for TLC: three names, and all file systems in  *)
(* which a unit says one thing, or nothing, about each of the others.      *)
(***************************************************************************)
EXTENDS ObjectGraph

CONSTANTS a, b, c, Sayings, Linking

MCNames == {a, b, c}
MCNameOrder == <<a, b, c>>

(* The directives of a unit that says f[m] about each m. *)
Deps(f) == [d \in Range(depTypes) |-> {m \in DOMAIN f : d \in f[m]}]

UnitsOf(n) ==
    {[kind |-> "missing", deps |-> Deps([m \in {} |-> {}])]}
      \cup {[kind |-> "file", deps |-> Deps(f)] : f \in [MCNames \ {n} -> Sayings \cup {{}}]}
      \cup (IF Linking THEN [kind : {"link"}, to : MCNames \ {n}] ELSE {})

MCFileSystems ==
    {[n \in MCNames |-> IF n = a THEN x ELSE IF n = b THEN y ELSE z] :
        x \in UnitsOf(a), y \in UnitsOf(b), z \in UnitsOf(c)}

MCScripts == {<< >>, <<a>>, <<b, a>>}
=============================================================================
