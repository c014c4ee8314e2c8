------------------------------- MODULE MCBoot -------------------------------
(***************************************************************************)
(* An instance of Boot for TLC: three names, and all file systems in which *)
(* a unit is missing, or says one thing, or nothing, of each of the others.*)
(***************************************************************************)
EXTENDS Boot

CONSTANTS a, b, c, Sayings, MoreOfDefault

MCNames == {a, b, c}
MCNameOrder == <<a, b, c>>
MCJobsOrder == <<b, a, c>>

Directives == {"Before", "After", "Requires", "Wants", "PartOf", "BindsTo", "Requisite",
               "Upholds", "Conflicts", "PropagatesReloadTo", "ReloadPropagatedFrom"}

(* The directives of a unit that says f[m] about each m. *)
Deps(f) == [d \in Directives |-> {m \in DOMAIN f : d \in f[m]}]

SayingsOf(n) == Sayings \cup {{}} \cup (IF n = DefaultName THEN MoreOfDefault ELSE {})

UnitsOf(n) ==
    {[kind |-> "missing", deps |-> Deps([m \in {} |-> {}])]}
      \cup {[kind |-> "file", deps |-> Deps(f)] : f \in [MCNames \ {n} -> SayingsOf(n)]}

MCFileSystems ==
    {[n \in MCNames |-> IF n = a THEN x ELSE IF n = b THEN y ELSE z] :
        x \in UnitsOf(a), y \in UnitsOf(b), z \in UnitsOf(c)}

MCScripts == {<<c>>, <<b, a>>}
=============================================================================
