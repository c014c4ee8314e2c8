------------------------------- MODULE TxGen --------------------------------
(***************************************************************************)
(* The Transaction Generator (class Transaction, scheduler/txgen.cc): from *)
(* one job on one object to a set of jobs, in the three phases of the      *)
(* constructor.                                                            *)
(*                                                                         *)
(*   submit  job_submit() adds the job and, recursively, those its object's*)
(*           edges ask for, each with a requirement on it                  *)
(*   verify  verify_acyclic() looks for cycles of kAfter edges among the   *)
(*           objects with jobs, and deletes jobs to break them             *)
(*   merge   merge_jobs() leaves one job for each object                   *)
(*                                                                         *)
(* A job is identified by its object and type: job_submit() makes at most  *)
(* one job of a type for an object.  reqs and reqs_on of the jobs, which   *)
(* point at each other, are one set of requirements.                       *)
(***************************************************************************)
EXTENDS Integers, Sequences, Functions, Lists

CONSTANTS
    Objects,     \* the schedulable objects
    Order,       \* their order in the std::map Transaction::jobs
    EdgeLists,   \* the edges the object graph may hold
    Goals        \* the jobs a transaction may be asked for

JobTypes == {"start", "verify", "stop", "reload", "restart", "trystart",
             "tryrestart", "tryreload", "reloadorstart", "restartorstart"}

(* The flags of Edge::Type that transaction generation looks at. *)
EdgeKinds == {"AddStart", "AddStartNonreq", "AddVerify", "AddStop", "AddStopNonreq",
              "PropagatesStopTo", "PropagatesRestartTo", "PropagatesReloadTo", "After"}

Edge == [to : Objects, type : SUBSET EdgeKinds]

Job == [object : Objects, type : JobTypes]

Requirement == [from : Job, to : Job, required : BOOLEAN, goal_required : BOOLEAN]

ASSUME TxGenAssumption ==
    /\ Order \in Seq(Objects)
    /\ \A o \in Objects : \E k \in DOMAIN Order : Order[k] = o
    /\ EdgeLists \subseteq [Objects -> Seq(Edge)]
    /\ Goals \subseteq Job

VARIABLES
    edges,          \* Schedulable::edges, in list order
    objective,      \* Transaction::objective
    jobs,           \* Transaction::jobs, the types of the jobs of each object
    goal_required,  \* the jobs whose goal_required is set
    reqs,           \* Job::reqs and Job::reqs_on of all jobs
    phase,
    agenda,         \* submit: the edges still to be visited, innermost call first
    cursor,         \* verify, merge: the position of the loop over Transaction::jobs
    path,           \* verify: the objects on the path, each with its next edge
    removed         \* history: the objects whose jobs try_remove_cycle() deleted

vars == <<edges, objective, jobs, goal_required, reqs, phase, agenda, cursor,
          path, removed>>

Phases == {"submit", "verify", "merge", "done", "cyclical", "unmergeable"}

Visit == [from : Job, to : Objects, op : JobTypes, required : BOOLEAN]

TypeOK ==
    /\ edges \in [Objects -> Seq(Edge)]
    /\ objective \in Job
    /\ jobs \in [Objects -> Seq(JobTypes)]
    /\ goal_required \subseteq Job
    /\ reqs \subseteq Requirement
    /\ phase \in Phases
    /\ agenda \in Seq(Visit)
    /\ cursor \in 1 .. Len(Order) + 1
    /\ phase # "verify" => path = << >>
    /\ path \in Seq([object : Objects, next : Nat])
    /\ removed \subseteq Objects

(* A job of the transaction. *)
InTx(j) == \E k \in DOMAIN jobs[j.object] : jobs[j.object][k] = j.type

JobsOf(o) == {[object |-> o, type |-> jobs[o][k]] : k \in DOMAIN jobs[o]}

HasJobs(o) == jobs[o] # << >>

-----------------------------------------------------------------------------
(* Submission                                                              *)

(* One foreach_edge() with an EdgeVisitor: the edges of that type, in order. *)
Pass(j, type, op, required) ==
    LET es == Filter(edges[j.object], {e \in Edge : type \in e.type})
    IN  [k \in DOMAIN es |-> [from |-> j, to |-> es[k].to, op |-> op, required |-> required]]

(* Mutant: the last test of job_submit() is an else if. *)
Visits_ElseIf(j) ==
    IF j.type \in {"start", "restart", "tryrestart"}
      THEN Pass(j, "AddStart", "start", TRUE)
             \o Pass(j, "AddStartNonreq", "start", FALSE)
             \o Pass(j, "AddVerify", "verify", TRUE)
             \o Pass(j, "AddStop", "stop", TRUE)
             \o Pass(j, "AddStopNonreq", "stop", FALSE)
      ELSE IF j.type = "stop" THEN Pass(j, "PropagatesStopTo", "stop", TRUE)
      ELSE IF j.type \in {"reload", "tryreload"}
             THEN Pass(j, "PropagatesReloadTo", "tryreload", TRUE)
      ELSE << >>

(* Mutant: the last test of job_submit() lets start jobs through. *)
Visits_StartPropagates(j) ==
    (IF j.type \in {"start", "restart", "tryrestart"}
       THEN Pass(j, "AddStart", "start", TRUE)
              \o Pass(j, "AddStartNonreq", "start", FALSE)
              \o Pass(j, "AddVerify", "verify", TRUE)
              \o Pass(j, "AddStop", "stop", TRUE)
              \o Pass(j, "AddStopNonreq", "stop", FALSE)
              \o Pass(j, "PropagatesRestartTo", "tryrestart", TRUE)
       ELSE IF j.type = "stop" THEN Pass(j, "PropagatesStopTo", "stop", TRUE)
       ELSE IF j.type \in {"reload", "tryreload"}
              THEN Pass(j, "PropagatesReloadTo", "tryreload", TRUE)
       ELSE << >>)

(* The edges that job_submit() visits for a job it has just made. *)
Visits(j) ==
    (IF j.type \in {"start", "restart", "tryrestart"}
       THEN Pass(j, "AddStart", "start", TRUE)
              \o Pass(j, "AddStartNonreq", "start", FALSE)
              \o Pass(j, "AddVerify", "verify", TRUE)
              \o Pass(j, "AddStop", "stop", TRUE)
              \o Pass(j, "AddStopNonreq", "stop", FALSE)
       ELSE IF j.type = "stop" THEN Pass(j, "PropagatesStopTo", "stop", TRUE)
       ELSE IF j.type \in {"reload", "tryreload"}
              THEN Pass(j, "PropagatesReloadTo", "tryreload", TRUE)
       ELSE << >>)
    \o (IF j.type \in {"restart", "tryrestart"}
          THEN Pass(j, "PropagatesRestartTo", "tryrestart", TRUE)
          ELSE << >>)

Init ==
    /\ edges \in EdgeLists
    /\ objective \in Goals
    /\ jobs = [o \in Objects |-> IF o = objective.object THEN <<objective.type>> ELSE << >>]
    /\ goal_required = {objective}
    /\ reqs = {}
    /\ phase = "submit"
    /\ agenda = Visits(objective)
    /\ cursor = 1
    /\ path = << >>
    /\ removed = {}

(* Mutant: a job is taken to exist when its object has an entry in jobs. *)
job_submit_ExistsByObject ==
    /\ phase = "submit"
    /\ agenda # << >>
    /\ LET v    == Head(agenda)
           sj   == [object |-> v.to, type |-> v.op]
           goal == v.from \in goal_required /\ v.required
       IN  /\ goal_required' = IF goal THEN goal_required \cup {sj} ELSE goal_required
           /\ reqs' = reqs \cup {[from |-> v.from, to |-> sj, required |-> v.required,
                                  goal_required |-> goal]}
           /\ jobs' = IF InTx(sj) THEN jobs ELSE [jobs EXCEPT ![v.to] = Append(@, v.op)]
           /\ agenda' = (IF HasJobs(v.to) THEN << >> ELSE Visits(sj)) \o Tail(agenda)
    /\ UNCHANGED <<edges, objective, phase, cursor, path, removed>>

(* Mutant: a job that exists already is not marked as required for the goal. *)
job_submit_ExistsUnmarked ==
    /\ phase = "submit"
    /\ agenda # << >>
    /\ LET v    == Head(agenda)
           sj   == [object |-> v.to, type |-> v.op]
           goal == v.from \in goal_required /\ v.required
       IN  /\ goal_required' = IF goal /\ ~InTx(sj) THEN goal_required \cup {sj} ELSE goal_required
           /\ reqs' = reqs \cup {[from |-> v.from, to |-> sj, required |-> v.required,
                                  goal_required |-> goal]}
           /\ jobs' = IF InTx(sj) THEN jobs ELSE [jobs EXCEPT ![v.to] = Append(@, v.op)]
           /\ agenda' = (IF InTx(sj) THEN << >> ELSE Visits(sj)) \o Tail(agenda)
    /\ UNCHANGED <<edges, objective, phase, cursor, path, removed>>

(* Mutant: what a goal-required job asks for is goal-required, required or not. *)
job_submit_GoalFromRequirer ==
    /\ phase = "submit"
    /\ agenda # << >>
    /\ LET v    == Head(agenda)
           sj   == [object |-> v.to, type |-> v.op]
           goal == v.from \in goal_required
       IN  /\ goal_required' = IF goal THEN goal_required \cup {sj} ELSE goal_required
           /\ reqs' = reqs \cup {[from |-> v.from, to |-> sj, required |-> v.required,
                                  goal_required |-> goal]}
           /\ jobs' = IF InTx(sj) THEN jobs ELSE [jobs EXCEPT ![v.to] = Append(@, v.op)]
           /\ agenda' = (IF InTx(sj) THEN << >> ELSE Visits(sj)) \o Tail(agenda)
    /\ UNCHANGED <<edges, objective, phase, cursor, path, removed>>

(***************************************************************************)
(* EdgeVisitor::operator(): submit the job on the far end of the edge, and *)
(* require it.  A job that exists already is only marked, its own edges    *)
(* are not visited again.  add_req() comes after the recursion in the code *)
(* but nothing looks at requirements before the submission is over.        *)
(***************************************************************************)
job_submit ==
    /\ phase = "submit"
    /\ agenda # << >>
    /\ LET v    == Head(agenda)
           sj   == [object |-> v.to, type |-> v.op]
           goal == v.from \in goal_required /\ v.required
       IN  /\ goal_required' = IF goal THEN goal_required \cup {sj} ELSE goal_required
           /\ reqs' = reqs \cup {[from |-> v.from, to |-> sj, required |-> v.required,
                                  goal_required |-> goal]}
           /\ \/ /\ InTx(sj)
                 /\ agenda' = Tail(agenda)
                 /\ UNCHANGED jobs
              \/ /\ ~InTx(sj)
                 /\ jobs' = [jobs EXCEPT ![v.to] = Append(@, v.op)]
                 /\ agenda' = Visits(sj) \o Tail(agenda)
    /\ UNCHANGED <<edges, objective, phase, cursor, path, removed>>

submitted ==
    /\ phase = "submit"
    /\ agenda = << >>
    /\ phase' = "verify"
    /\ UNCHANGED <<edges, objective, jobs, goal_required, reqs, agenda, cursor,
                   path, removed>>

-----------------------------------------------------------------------------
(* Deletion of jobs                                                        *)

(***************************************************************************)
(* Transaction::get_del_list(): the function returns as soon as it has     *)
(* found the job in the list of its object, where it always is, so the     *)
(* loop over the jobs requiring it is not reached.                         *)
(***************************************************************************)
get_del_list(j) == {j}

(* The lists of jobs after the deletion. *)
Without(gone) ==
    [o \in Objects |-> Filter(jobs[o], {t \in JobTypes : [object |-> o, type |-> t] \notin gone})]

(* Mutant: the destructor of a job forgets the requirements on it. *)
Destroy_LeavesReqsOn(gone) ==
    /\ reqs' = {r \in reqs : r.from \notin gone}
    /\ goal_required' = goal_required \ gone

(* The destructors of deleted jobs: no requirement from or on them is left. *)
Destroy(gone) ==
    /\ reqs' = {r \in reqs : r.from \notin gone /\ r.to \notin gone}
    /\ goal_required' = goal_required \ gone

object_del_jobs(o) ==
    LET gone == UNION {get_del_list(j) : j \in JobsOf(o)}
    IN  /\ jobs' = Without(gone)
        /\ Destroy(gone)

-----------------------------------------------------------------------------
(* Ordering cycles                                                         *)

(* Mutant: objects without jobs are followed too. *)
After_AnyObject(o) == Filter(edges[o], {e \in Edge : "After" \in e.type})

(* Mutant: the visitor stops at the first edge. *)
After_FirstOnly(o) ==
    LET es == Filter(edges[o], {e \in Edge : "After" \in e.type /\ HasJobs(e.to)})
    IN  IF es = << >> THEN es ELSE <<es[1]>>

(* The objects with jobs that o has kAfter edges to, in list order. *)
After(o) == Filter(edges[o], {e \in Edge : "After" \in e.type /\ HasJobs(e.to)})

OnPath(o) == \E k \in DOMAIN path : path[k].object = o

(* Mutant: the requirements on the jobs are not looked at. *)
object_requires_all_jobs_ObjectiveOnly(o) == objective \in JobsOf(o)

(* Transaction::object_requires_all_jobs() *)
object_requires_all_jobs(o) ==
    \E j \in JobsOf(o) :
        \/ j = objective
        \/ \E r \in reqs : r.to = j /\ r.goal_required

(* The loop of verify_acyclic() takes up its next object. *)
verify_object ==
    /\ phase = "verify"
    /\ path = << >>
    /\ \/ /\ cursor <= Len(Order)
          /\ \/ /\ HasJobs(Order[cursor])
                /\ path' = <<[object |-> Order[cursor], next |-> 1]>>
                /\ UNCHANGED cursor
             \/ /\ ~HasJobs(Order[cursor])
                /\ cursor' = cursor + 1
                /\ UNCHANGED path
          /\ UNCHANGED phase
       \/ /\ cursor > Len(Order)
          /\ phase' = "merge"
          /\ cursor' = 1
          /\ UNCHANGED path
    /\ UNCHANGED <<edges, objective, jobs, goal_required, reqs, agenda, removed>>

(* object_creates_cycle() goes on with the last object of the path. *)
Top == path[Len(path)]

Deeper ==
    /\ phase = "verify"
    /\ path # << >>
    /\ Top.next <= Len(After(Top.object))

(* OrderVisitor leads to an object that is not on the path yet. *)
path_push ==
    /\ Deeper
    /\ LET to == After(Top.object)[Top.next].to
       IN  /\ ~OnPath(to)
           /\ path' = Append([path EXCEPT ![Len(path)].next = @ + 1],
                             [object |-> to, next |-> 1])
    /\ UNCHANGED <<edges, objective, jobs, goal_required, reqs, phase, agenda,
                   cursor, removed>>

(* No edge of the last object leads to a cycle: path.pop_back(). *)
path_pop ==
    /\ phase = "verify"
    /\ path # << >>
    /\ Top.next > Len(After(Top.object))
    /\ path' = SubSeq(path, 1, Len(path) - 1)
    /\ cursor' = IF Len(path) = 1 THEN cursor + 1 ELSE cursor
    /\ UNCHANGED <<edges, objective, jobs, goal_required, reqs, phase, agenda, removed>>

(* Mutant: the path is not declared afresh in each turn of the loop. *)
try_remove_cycle_KeepsPath ==
    /\ Deeper
    /\ OnPath(After(Top.object)[Top.next].to)
    /\ LET spare == {k \in DOMAIN path : ~object_requires_all_jobs(path[k].object)}
       IN  \/ \E k \in spare :
                 /\ \A i \in spare : i <= k
                 /\ object_del_jobs(path[k].object)
                 /\ removed' = removed \cup {path[k].object}
                 /\ path' = SubSeq(path, 1, Len(path) - 1)
                 /\ cursor' = IF Len(path) = 1 THEN cursor + 1 ELSE cursor
                 /\ UNCHANGED phase
           \/ /\ spare = {}
              /\ phase' = "cyclical"
              /\ UNCHANGED <<jobs, goal_required, reqs, removed, cursor, path>>
    /\ UNCHANGED <<edges, objective, agenda>>

(* Mutant: the loop is restarted after each cycle, resolved or not. *)
try_remove_cycle_Restarts ==
    /\ Deeper
    /\ OnPath(After(Top.object)[Top.next].to)
    /\ LET spare == {k \in DOMAIN path : ~object_requires_all_jobs(path[k].object)}
       IN  \/ \E k \in spare :
                 /\ \A i \in spare : i <= k
                 /\ object_del_jobs(path[k].object)
                 /\ removed' = removed \cup {path[k].object}
           \/ /\ spare = {}
              /\ UNCHANGED <<jobs, goal_required, reqs, removed>>
    /\ path' = << >>
    /\ cursor' = 1
    /\ UNCHANGED <<edges, objective, agenda, phase>>

(***************************************************************************)
(* An edge leads back to the path.  try_remove_cycle() deletes the jobs of *)
(* the last object of the path that the goal does not need; the loop of    *)
(* verify_acyclic() then goes on with the next object (the label restart   *)
(* is not used).                                                           *)
(***************************************************************************)
try_remove_cycle ==
    /\ Deeper
    /\ OnPath(After(Top.object)[Top.next].to)
    /\ LET spare == {k \in DOMAIN path : ~object_requires_all_jobs(path[k].object)}
       IN  \/ \E k \in spare :
                 /\ \A i \in spare : i <= k
                 /\ object_del_jobs(path[k].object)
                 /\ removed' = removed \cup {path[k].object}
                 /\ cursor' = cursor + 1
                 /\ UNCHANGED phase
           \/ /\ spare = {}
              /\ phase' = "cyclical"
              /\ UNCHANGED <<jobs, goal_required, reqs, removed, cursor>>
    /\ path' = << >>
    /\ UNCHANGED <<edges, objective, agenda>>

-----------------------------------------------------------------------------
(* Merging                                                                 *)

(* Transaction::merge_matrix, read below its diagonal; kStop merges with nothing. *)
Rank == [t \in JobTypes |->
           CASE t = "start" -> 0 [] t = "verify" -> 1 [] t = "stop" -> 2
             [] t = "reload" -> 3 [] t = "restart" -> 4 [] t = "trystart" -> 5
             [] t = "tryrestart" -> 6 [] t = "tryreload" -> 7
             [] t = "reloadorstart" -> 8 [] OTHER -> 9]

merge_matrix(a, b) ==
    IF "stop" \in {a, b} THEN "invalid" ELSE
    CASE a \in {"verify", "reload"} -> "start"
      [] a = "restart" -> "restart"
      [] a = "trystart" -> IF b = "reload" THEN "reloadorstart"
                           ELSE IF b = "restart" THEN "restart" ELSE "start"
      [] a = "tryrestart" -> IF b = "reload" THEN "tryrestart"
                             ELSE IF b = "restart" THEN "restart" ELSE "restartorstart"
      [] a = "tryreload" -> IF b \in {"reload", "restart"} THEN b
                            ELSE IF b = "tryrestart" THEN "restartorstart"
                            ELSE "reloadorstart"
      [] a = "reloadorstart" -> IF b = "restart" THEN "restartorstart" ELSE "reloadorstart"
      [] OTHER -> "restartorstart"

merged_job_type(a, b) ==
    IF a = b THEN a
    ELSE IF Rank[a] > Rank[b] THEN merge_matrix(a, b) ELSE merge_matrix(b, a)

(***************************************************************************)
(* merge_job_into() and pop_front(): the first job's requirements, and its *)
(* being required for the goal, pass to the second one, which keeps its    *)
(* own type.                                                               *)
(***************************************************************************)
merge_job_into(j1, j2) ==
    LET Now(j) == IF j = j1 THEN j2 ELSE j
    IN  /\ reqs' = {[r EXCEPT !.from = Now(@), !.to = Now(@)] : r \in reqs}
        /\ goal_required' = {Now(j) : j \in goal_required}
        /\ jobs' = [jobs EXCEPT ![j1.object] = Tail(@)]

(* Mutant: the test of goal_required is on the wrong job. *)
to_delete_Swapped(j1, j2) ==
    IF j1 \notin goal_required /\ j2 \notin goal_required
      THEN IF j2.type = "stop" THEN j2 ELSE j1
      ELSE IF j1 \notin goal_required THEN j2 ELSE j1

(* Which of two jobs that cannot be merged goes: the one the goal can spare. *)
to_delete(j1, j2) ==
    IF j1 \notin goal_required /\ j2 \notin goal_required
      THEN IF j2.type = "stop" THEN j2 ELSE j1
      ELSE IF j2 \notin goal_required THEN j2 ELSE j1

(* Mutant: one turn for each object, not a loop. *)
merge_jobs_OneTurn ==
    /\ phase = "merge"
    /\ cursor <= Len(Order)
    /\ LET o  == Order[cursor]
           j1 == [object |-> o, type |-> jobs[o][1]]
           j2 == [object |-> o, type |-> jobs[o][2]]
       IN  \/ /\ Len(jobs[o]) > 1
              /\ merged_job_type(j1.type, j2.type) # "invalid"
              /\ merge_job_into(j1, j2)
           \/ /\ ~(Len(jobs[o]) > 1 /\ merged_job_type(j1.type, j2.type) # "invalid")
              /\ UNCHANGED <<jobs, goal_required, reqs>>
    /\ cursor' = cursor + 1
    /\ UNCHANGED <<edges, objective, agenda, path, removed, phase>>

(* A turn of the loop of merge_jobs() over the list of one object. *)
merge_jobs ==
    /\ phase = "merge"
    /\ cursor <= Len(Order)
    /\ LET o  == Order[cursor]
           j1 == [object |-> o, type |-> jobs[o][1]]
           j2 == [object |-> o, type |-> jobs[o][2]]
       IN  \/ /\ Len(jobs[o]) > 1
              /\ \/ /\ merged_job_type(j1.type, j2.type) # "invalid"
                    /\ merge_job_into(j1, j2)
                    /\ UNCHANGED phase
                 \/ /\ merged_job_type(j1.type, j2.type) = "invalid"
                    /\ {j1, j2} \subseteq goal_required
                    /\ phase' = "unmergeable"
                    /\ UNCHANGED <<jobs, goal_required, reqs>>
                 \/ /\ merged_job_type(j1.type, j2.type) = "invalid"
                    /\ ~({j1, j2} \subseteq goal_required)
                    /\ LET gone == get_del_list(to_delete(j1, j2))
                       IN  /\ jobs' = Without(gone)
                           /\ Destroy(gone)
                    /\ UNCHANGED phase
              /\ UNCHANGED cursor
           \/ /\ Len(jobs[o]) <= 1
              /\ cursor' = cursor + 1
              /\ UNCHANGED <<jobs, goal_required, reqs, phase>>
    /\ UNCHANGED <<edges, objective, agenda, path, removed>>

merged ==
    /\ phase = "merge"
    /\ cursor > Len(Order)
    /\ phase' = "done"
    /\ UNCHANGED <<edges, objective, jobs, goal_required, reqs, agenda, cursor,
                   path, removed>>

(* The constructor has returned, or thrown. *)
Finished ==
    /\ phase \in {"done", "cyclical", "unmergeable"}
    /\ UNCHANGED vars

Step ==
    \/ job_submit \/ submitted
    \/ verify_object \/ path_push \/ path_pop \/ try_remove_cycle
    \/ merge_jobs \/ merged

Next == Step \/ Finished

Spec == Init /\ [][Next]_vars

FairSpec == Spec /\ WF_vars(Step)

-----------------------------------------------------------------------------
(* Properties                                                              *)

(***************************************************************************)
(* Requirements connect jobs of the transaction, and only those are marked *)
(* as required for the goal: deleting jobs of a cycle, deleting unmergeable*)
(* jobs and merging leave no pointer to a job that is gone.                *)
(***************************************************************************)
ReqsConnectJobs ==
    /\ \A r \in reqs : InTx(r.from) /\ InTx(r.to)
    /\ \A j \in goal_required : InTx(j)

(***************************************************************************)
(* While jobs are submitted, whatever the edges of a job ask for is either *)
(* required by it already or still to be visited: stopping at jobs that    *)
(* exist leaves nothing out.                                               *)
(***************************************************************************)
NothingLeftOut ==
    phase = "submit" =>
        \A o \in Objects : \A j \in JobsOf(o) : \A k \in DOMAIN Visits(j) :
            LET v == Visits(j)[k]
            IN  \/ \E i \in DOMAIN agenda : agenda[i] = v
                \/ \E r \in reqs : /\ r.from = j
                                   /\ r.to = [object |-> v.to, type |-> v.op]
                                   /\ r.required = v.required

(* The submission is over and no job has been deleted. *)
Fresh == phase = "verify" /\ cursor = 1 /\ path = << >> /\ removed = {}

(* What each type of edge is for: the jobs it serves, the job it asks for. *)
Starts == {"start", "restart", "tryrestart"}

Demand ==
    [AddStart            |-> [by |-> Starts, op |-> "start", required |-> TRUE],
     AddStartNonreq      |-> [by |-> Starts, op |-> "start", required |-> FALSE],
     AddVerify           |-> [by |-> Starts, op |-> "verify", required |-> TRUE],
     AddStop             |-> [by |-> Starts, op |-> "stop", required |-> TRUE],
     AddStopNonreq       |-> [by |-> Starts, op |-> "stop", required |-> FALSE],
     PropagatesStopTo    |-> [by |-> {"stop"}, op |-> "stop", required |-> TRUE],
     PropagatesRestartTo |-> [by |-> {"restart", "tryrestart"}, op |-> "tryrestart",
                              required |-> TRUE],
     PropagatesReloadTo  |-> [by |-> {"reload", "tryreload"}, op |-> "tryreload",
                              required |-> TRUE]]

(* The types of edges that ask for something on behalf of j, or require it. *)
Asking(j, onlyRequired) ==
    {k \in DOMAIN Demand : j.type \in Demand[k].by /\ (Demand[k].required \/ ~onlyRequired)}

(* The jobs the edges of j's object ask for, or only those they require. *)
Asks(j, onlyRequired) ==
    UNION {{[object |-> e.to, type |-> Demand[k].op] : k \in e.type \cap Asking(j, onlyRequired)} :
              e \in Range(edges[j.object])}

(* All jobs reached from the objective; a chain has at most this many jobs. *)
Closure(onlyRequired) ==
    LET R[n \in 0 .. 6 * Len(Order)] ==
          IF n = 0 THEN {objective}
          ELSE LET S == R[n - 1] IN S \cup UNION {Asks(j, onlyRequired) : j \in S}
    IN  R[6 * Len(Order)]

(* The jobs of a transaction are those reached from its objective, no more. *)
SubmissionIsClosure == Fresh => UNION {JobsOf(o) : o \in Objects} = Closure(FALSE)

(* The edges that object.h calls required; it calls propagated jobs not required. *)
Requiring == {"AddStart", "AddVerify", "AddStop"}

(* What edges of these types ask for on behalf of j. *)
AsksBy(j, types) ==
    UNION {{[object |-> e.to, type |-> Demand[k].op] : k \in e.type \cap types \cap Asking(j, FALSE)} :
              e \in Range(edges[j.object])}

(***************************************************************************)
(* Jobs, other than the objective, that are asked for without being        *)
(* required, or by such a job: when one of them turns out to be required   *)
(* too, the jobs that it requires may have been met, unmarked, before.     *)
(***************************************************************************)
Loose ==
    LET all == Closure(FALSE)
        merely == (UNION {AsksBy(j, DOMAIN Demand \ Requiring) : j \in all}) \ {objective}
        Closed(X) == merely \subseteq X /\ \A j \in X : Asks(j, FALSE) \subseteq X \cup {objective}
    IN  {j \in all : \A X \in SUBSET all : Closed(X) => j \in X} \ {objective}

(* The objective, and all that is required by jobs that are not Loose. *)
Aims == {objective} \cup UNION {AsksBy(j, Requiring) : j \in Closure(FALSE) \ Loose}

(***************************************************************************)
(* No set of objects with jobs in which each is ordered after another one  *)
(* (or itself) of the set: the order graph has no cycle.                   *)
(***************************************************************************)
Acyclic ==
    \A S \in SUBSET {o \in Objects : HasJobs(o)} :
        S # {} => \E o \in S : \A e \in Range(edges[o]) : "After" \in e.type => e.to \notin S

(* verify_acyclic() finds a cycle if there is one. *)
AcyclicUnlessRemoved == phase \in {"merge", "done"} /\ removed = {} => Acyclic

(* Jobs are deleted, or the transaction rejected, only if there is a cycle. *)
RemovedOnlyFromCyclic ==
    [][removed' # removed \/ (phase' = "cyclical" /\ phase = "verify") => ~Acyclic]_vars

(* The order graph of a transaction that verify_acyclic() accepts is acyclic. *)
VerifiedAcyclic == phase \in {"merge", "done"} => Acyclic

(***************************************************************************)
(* An object with a job that is marked as required for the goal keeps such *)
(* a job: breaking cycles, deleting unmergeable jobs and merging never cost*)
(* the goal a job it is known to need.                                     *)
(***************************************************************************)
GoalObjectsKept ==
    [][\A j \in goal_required : \E k \in goal_required' : k.object = j.object]_vars

(* Merging leaves what the job scheduler relies on: one job per object, and one *)
(* for the object of the objective.                                             *)
OneJobEach ==
    phase = "done" => /\ \A o \in Objects : Len(jobs[o]) <= 1
                      /\ HasJobs(objective.object)

(***************************************************************************)
(* What the transaction is for survives cycles and merging: on the object  *)
(* of each aim one job is left, a stop job for a stop job only, of the     *)
(* type aimed at or of another type that edges demand of that object (a    *)
(* merged job keeps the second job's own type).                            *)
(***************************************************************************)
AimsMet ==
    phase = "done" =>
        \A d \in Aims : \E type \in JobTypes :
            /\ jobs[d.object] = <<type>>
            /\ [object |-> d.object, type |-> type] \in Closure(FALSE)
            /\ type = "stop" <=> d.type = "stop"

(* Transaction generation comes to an end. *)
Terminates == <>(phase \in {"done", "cyclical", "unmergeable"})
=============================================================================
