-------------------------- MODULE JobSchedRefines ---------------------------
(***************************************************************************)
(* JobSched implements JobOrder.  The work and the status of an object are *)
(* those of its job in the front transaction; a job is running from the    *)
(* call of start() for its present type on, whether or not running_jobs    *)
(* still has it, and however often start() is called.                      *)
(***************************************************************************)
EXTENDS JobSched

work == [o \in Objects |-> IF transactions = << >> THEN "none" ELSE Jobs[o].type]

Begun(o) == starts[o] # << >> /\ starts[o][Len(starts[o])] = Jobs[o].type

status ==
    [o \in Objects |->
        IF work[o] = "none" THEN "none"
        ELSE CASE Jobs[o].state = "success" -> "succeeded"
               [] Jobs[o].state = "awaiting" -> IF Begun(o) THEN "running" ELSE "waiting"
               [] OTHER -> "failed"]

Abstract == INSTANCE JobOrder WITH after <- edges, Types <- JobTypes

(***************************************************************************)
(* Whatever the nesting of calls, repeated starts, timeouts and late       *)
(* answers do: a job begins only when those ahead of it have succeeded,    *)
(* and its state moves once, from running to its result.                   *)
(***************************************************************************)
ImplementsJobOrder == Abstract!Spec

(***************************************************************************)
(* With a restarter that answers success within start(), moreover, every   *)
(* job that can begin does begin and is carried out.                       *)
(***************************************************************************)
CarriesOutJobOrder == Abstract!FairSpec
=============================================================================
