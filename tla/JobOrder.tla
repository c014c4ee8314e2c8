------------------------------ MODULE JobOrder ------------------------------
(***************************************************************************)
(* What the Job Scheduler promises, without call stack, ids, timers or     *)
(* wakeups: the jobs of a transaction are partially ordered and carried    *)
(* out one by one, a job beginning once those ahead of it have succeeded.  *)
(***************************************************************************)
CONSTANTS
    Objects,   \* the schedulable objects
    Types      \* what may be done to an object

VARIABLES
    after,     \* the objects each object is ordered after
    work,      \* what is to be done to each object, or "none"
    status     \* how far that is

vars == <<after, work, status>>

Statuses == {"none", "waiting", "running", "succeeded", "failed"}

TypeOK ==
    /\ after \in [Objects -> SUBSET Objects]
    /\ work \in [Objects -> Types \cup {"none"}]
    /\ status \in [Objects -> Statuses]

Init ==
    /\ after \in [Objects -> SUBSET Objects]
    /\ work = [o \in Objects |-> "none"]
    /\ status = [o \in Objects |-> "none"]

(* Stopping is not waited for, nor is the stopping half of a restart. *)
Ahead(o) == {p \in after[o] : work[p] \notin {"none", "stop", "restart"}}

(* A transaction is taken up; there is only one. *)
TakeUp ==
    /\ \A o \in Objects : status[o] = "none"
    /\ work' \in [Objects -> Types \cup {"none"}]
    /\ status' = [o \in Objects |-> IF work'[o] = "none" THEN "none" ELSE "waiting"]
    /\ UNCHANGED after

Begin(o) ==
    /\ status[o] = "waiting"
    /\ \A p \in Ahead(o) : status[p] = "succeeded"
    /\ status' = [status EXCEPT ![o] = "running"]
    /\ UNCHANGED <<after, work>>

(* A restart that has succeeded is to be started. *)
Succeed(o) ==
    /\ status[o] = "running"
    /\ \/ /\ work[o] = "restart"
          /\ work' = [work EXCEPT ![o] = "start"]
          /\ status' = [status EXCEPT ![o] = "waiting"]
       \/ /\ work[o] # "restart"
          /\ status' = [status EXCEPT ![o] = "succeeded"]
          /\ UNCHANGED work
    /\ UNCHANGED after

Fail(o) ==
    /\ status[o] = "running"
    /\ status' = [status EXCEPT ![o] = "failed"]
    /\ UNCHANGED <<after, work>>

Next == TakeUp \/ \E o \in Objects : Begin(o) \/ Succeed(o) \/ Fail(o)

Spec == Init /\ [][Next]_vars

(* A job that can begin does, and does not run for ever. *)
FairSpec ==
    /\ Spec
    /\ \A o \in Objects : WF_vars(Begin(o)) /\ WF_vars(Succeed(o) \/ Fail(o))
=============================================================================
