-------------------------------- MODULE Boot --------------------------------
(***************************************************************************)
(* A whole run of the daemon, main() of cmd/schedulerd/schedulerd.cc: the  *)
(* start-up script and the load queue fill the object graph (ObjectGraph), *)
(* tx_enqueue() generates the transaction that starts DefaultName (TxGen)  *)
(* and runs it with the target restarter (JobSched), and main() exits.     *)
(*                                                                         *)
(* Each part is an instance with its own variables.  What passes between   *)
(* them is translated here: the edges of the object graph into those that  *)
(* the other two look at, the jobs that are left by merging into the jobs  *)
(* the scheduler runs.  The unit files have no symbolic links, so that one *)
(* object belongs to a name and the name stands for the object.            *)
(***************************************************************************)
EXTENDS Integers, Sequences, Functions, Lists

CONSTANTS
    Names, NameOrder, FileSystems, Scripts, DefaultName,   \* of ObjectGraph
    JobsOrder,  \* the order of the objects in the std::map Transaction::jobs
    MaxTimers   \* of Evloop

VARIABLES
    files, objects, m_aliases, m_loadqueue, to_bind, to_add, script, ready,
    graph, objective, jobs, goal_required, reqs, phase, agenda, cursor, path, removed,
    m_timers, kq, after, wakes, transactions, running_jobs, last_jobid, calls,
    asked, crashed, starts,
    exited      \* main() has called exit()

load_vars == <<files, objects, m_aliases, m_loadqueue, to_bind, to_add, script, ready>>
tx_vars == <<graph, objective, jobs, goal_required, reqs, phase, agenda, cursor, path, removed>>
job_vars == <<m_timers, kq, after, wakes, transactions, running_jobs, last_jobid, calls,
              asked, crashed, starts>>
vars == <<load_vars, tx_vars, job_vars, exited>>

NoOrder == [edges |-> [n \in Names |-> {}], edges_to |-> [n \in Names |-> << >>]]

G == INSTANCE ObjectGraph

T == INSTANCE TxGen WITH
        Objects <- Names, Order <- JobsOrder, EdgeLists <- {}, Goals <- {}, edges <- graph

J == INSTANCE JobSched WITH
        Objects <- Names, Order <- JobsOrder, OrderGraphs <- {NoOrder}, TxSpecs <- {},
        MaxTx <- 1, Answers <- {"within"}, Results <- {"success"},
        edges <- after, edges_to <- wakes

ASSUME BootAssumption ==
    /\ NameOrder \in Seq(Names)
    /\ \A n \in Names : \E k \in DOMAIN NameOrder : NameOrder[k] = n
    /\ JobsOrder \in Seq(Names)
    /\ \A n \in Names : \E k \in DOMAIN JobsOrder : JobsOrder[k] = n
    /\ FileSystems \subseteq [Names -> G!Unit]
    /\ \A fs \in FileSystems, n \in Names : fs[n].kind # "link"
    /\ Scripts \subseteq Seq(Names)
    /\ DefaultName \in Names
    /\ MaxTimers \in Nat \ {0}

Init ==
    /\ G!Init
    /\ J!Init
    /\ graph = [n \in Names |-> << >>]
    /\ objective = [object |-> DefaultName, type |-> "start"]
    /\ jobs = [n \in Names |-> << >>]
    /\ goal_required = {}
    /\ reqs = {}
    /\ phase = "idle"
    /\ agenda = << >>
    /\ cursor = 1
    /\ path = << >>
    /\ removed = {}
    /\ exited = FALSE

-----------------------------------------------------------------------------
(* The script is evaluated, then the load queue is emptied. *)
load ==
    /\ G!Step
    /\ UNCHANGED <<tx_vars, job_vars, exited>>

(* Schedulable::edges and edges_to of the object a name leads to. *)
EdgesFrom(n) == IF n \in DOMAIN m_aliases THEN objects[m_aliases[n]].edges ELSE << >>
EdgesTo(n) == IF n \in DOMAIN m_aliases THEN objects[m_aliases[n]].edges_to ELSE << >>

(* The edges as transaction generation looks at them. *)
TxEdges ==
    [n \in Names |-> [k \in DOMAIN EdgesFrom(n) |->
        [to |-> EdgesFrom(n)[k].to, type |-> EdgesFrom(n)[k].type \cap T!EdgeKinds]]]

(* The kAfter edges as the job scheduler does: from an object, and to it. *)
OrderEdges(es) == Filter(es, {e \in Range(es) : "After" \in e.type})

OrderFrom == [n \in Names |-> {e.to : e \in Range(OrderEdges(EdgesFrom(n)))}]

OrderTo == [n \in Names |-> LET es == OrderEdges(EdgesTo(n)) IN [k \in DOMAIN es |-> es[k].from]]

(***************************************************************************)
(* tx_enqueue() makes the Transaction, whose constructor submits the job   *)
(* that main() asks for.  The object graph does not change from here on.   *)
(***************************************************************************)
new_transaction ==
    /\ ready
    /\ phase = "idle"
    /\ graph' = TxEdges
    /\ after' = OrderFrom
    /\ wakes' = OrderTo
    /\ jobs' = [jobs EXCEPT ![objective.object] = <<objective.type>>]
    /\ goal_required' = {objective}
    /\ phase' = "submit"
    /\ UNCHANGED objective
    /\ agenda' = T!Visits(objective)'
    /\ UNCHANGED <<load_vars, reqs, cursor, path, removed, m_timers, kq,
                   transactions, running_jobs, last_jobid, calls, asked, crashed, starts,
                   exited>>

(* The rest of the constructor. *)
generate ==
    /\ T!Step
    /\ UNCHANGED <<load_vars, job_vars, exited>>

(* tx_enqueue() puts the transaction into the queue and runs its leaves. *)
enqueue ==
    /\ phase = "done"
    /\ J!tx_enqueue([n \in Names |-> IF jobs[n] = << >> THEN "none" ELSE Head(jobs[n])])
    /\ UNCHANGED <<load_vars, tx_vars, exited>>

(* The jobs are run: TargetRestarter answers from within start(). *)
run ==
    /\ J!tx_enqueue_leaves \/ J!start_others \/ J!start_answers("success")
    /\ UNCHANGED <<load_vars, tx_vars, exited>>

(* tx_enqueue() has returned to main(), which does not enter the event loop. *)
exit ==
    /\ transactions # << >>
    /\ J!InEventLoop
    /\ ~exited
    /\ exited' = TRUE
    /\ UNCHANGED <<load_vars, tx_vars, job_vars>>

(* Nobody catches what the constructor throws. *)
Rejected == phase \in {"cyclical", "unmergeable"}

Over ==
    /\ exited \/ Rejected \/ crashed
    /\ UNCHANGED vars

Step == load \/ new_transaction \/ generate \/ enqueue \/ run \/ exit

Next == Step \/ Over

Spec == Init /\ [][Next]_vars

(* The daemon is one thread that nothing blocks. *)
FairSpec == Spec /\ WF_vars(Step)

-----------------------------------------------------------------------------
(* What the unit files ask for                                             *)

IsLoaded(n) == n \in DOMAIN m_aliases /\ objects[m_aliases[n]].state = "offline"

(* The units that the directive d of n names, if n has been loaded. *)
Says(n, d) == IF IsLoaded(n) THEN files[n].deps[d] ELSE {}

(* n is to wait for m; a later directive on the same unit replaces Before=. *)
SaysAfter(n, m) ==
    \/ m \in Says(n, "After")
    \/ n \in Says(m, "Before") /\ \A d \in G!Replacing : n \notin Says(m, d)

(* What a job that is needed needs in turn, going by the directives. *)
Needs(j) ==
    IF j.type = "start"
      THEN [object : UNION {Says(j.object, d) : d \in {"Requires", "BindsTo"}}, type : {"start"}]
             \cup [object : Says(j.object, "Conflicts"), type : {"stop"}]
             \cup [object : Says(j.object, "Requisite"), type : {"verify"}]
      ELSE [object : {n \in Names : \E d \in {"Requires", "BindsTo", "PartOf", "Requisite"} :
                                       j.object \in Says(n, d)}, type : {j.type} \cap {"stop"}]

(* The jobs there may be for the default unit's sake. *)
Wanted == [object : Names, type : {"start", "verify", "stop"}]

(* All that starting the default unit needs: the least set that has what its jobs need. *)
Needed ==
    LET Closed == {X \in SUBSET Wanted : objective \in X /\ \A j \in X : Needs(j) \subseteq X}
    IN  {j \in Wanted : \A X \in Closed : j \in X}

(* The units that n cannot do without. *)
Requires(n) == Says(n, "Requires") \cup Says(n, "BindsTo")

(* The default unit, what it requires, what that requires, and so on. *)
Required ==
    LET Closed == {X \in SUBSET Names : DefaultName \in X /\ \A n \in X : Requires(n) \subseteq X}
    IN  {n \in Names : \A X \in Closed : n \in X}

(* The units that are merely wanted, by whatever unit, and what those want or require. *)
Doubtful ==
    LET wanted == UNION {Says(n, "Wants") \cup Says(n, "Upholds") : n \in Names}
        Closed == {X \in SUBSET Names : /\ wanted \ {DefaultName} \subseteq X
                                        /\ \A n \in X : Requires(n) \ {DefaultName} \subseteq X}
    IN  {n \in Names : \A X \in Closed : n \in X}

(* The order among the units of S makes them wait for each other. *)
Cyclic(S) == S # {} /\ \A n \in S : \E m \in S : SaysAfter(n, m)

-----------------------------------------------------------------------------
(* Properties                                                              *)

JobOf(n) == transactions[1][n]

(***************************************************************************)
(* The graph that loading leaves behind, whatever was mentioned before it  *)
(* was loaded or was loaded twice, is as the proofs about JobSched assume: *)
(* edges and edges_to agree on the order.                                  *)
(***************************************************************************)
GraphFitsScheduler ==
    \A n, m \in Names : m \in after[n] <=> n \in Range(wakes[m])

(***************************************************************************)
(* From the unit file to the call of start(): a unit that is After=        *)
(* another, or that another one is Before=, is started only once the job   *)
(* of that other one has succeeded; stop jobs are not waited for.          *)
(***************************************************************************)
OrderHonoured ==
    transactions # << >> =>
        \A n, m \in Names : starts[n] # << >> /\ SaysAfter(n, m) =>
            JobOf(m).type \in {"none", "stop"} \/ JobOf(m).state = "success"

(***************************************************************************)
(* Jobs are for units that have been read, or cannot be.  The exception is *)
(* the default unit, when the script has neither loaded nor mentioned it:  *)
(* main() then makes a placeholder whose turn in the queue never comes.    *)
(***************************************************************************)
JobsAreLoaded ==
    \A n \in Names : T!HasJobs(n) =>
        \/ IsLoaded(n)
        \/ files[n].kind = "missing"
        \/ n = DefaultName /\ m_loadqueue = <<n>> /\ \A m \in Names \ {n} : ~T!HasJobs(m)

(***************************************************************************)
(* The default unit is started by the time main() exits, and so is all that*)
(* it and the units it requires Requires= or BindsTo=, whatever cycles were*)
(* broken and whatever else conflicts with it.  Requirements of units that *)
(* are also wanted are excepted: a job that is met before it is known to be*)
(* required does not pass on that it is.  So are units of which a unit says*)
(* Requisite=, the merged job may be the one to verify.                    *)
(***************************************************************************)
RequiredUp ==
    exited =>
        \A n \in Required \ Doubtful : \A m \in {n} \cup Requires(n) :
            /\ \/ JobOf(m).type = "start"
               \/ JobOf(m).type = "verify" /\ \E u \in Names : m \in Says(u, "Requisite")
            /\ T!Acyclic => JobOf(m).state = "success"

(***************************************************************************)
(* The daemon gives up only on unit files that contradict themselves: what *)
(* the default unit needs is ordered in a cycle, or is needed stopped and  *)
(* also started, or active.  Units that are merely wanted never make it    *)
(* give up.                                                                *)
(***************************************************************************)
RejectedForCause ==
    Rejected =>
        \E needed \in {Needed} :
            \/ \E S \in SUBSET {j.object : j \in needed} : Cyclic(S)
            \/ \E n \in Names, type \in {"start", "verify"} :
                   [object : {n}, type : {type, "stop"}] \subseteq needed

(***************************************************************************)
(* When main() exits, though the event loop never ran, no job is waiting   *)
(* or running and no timer is left, unless verify_acyclic() let a cycle    *)
(* pass.                                                                   *)
(***************************************************************************)
CarriedOutAtExit == exited /\ T!Acyclic => J!CarriedOutOnReturn

(***************************************************************************)
(* log_job_complete() finds the name of each operation in job_op_root,     *)
(* which ends at kRestart: no start-up runs a job of a type beyond it.     *)
(***************************************************************************)
OperationsNamed == \A n \in Names : Range(starts[n]) \subseteq J!JobTypes

(* The daemon comes to an end: it exits, or gives up, and does not crash. *)
BootEnds == <>(exited \/ Rejected)
=============================================================================
