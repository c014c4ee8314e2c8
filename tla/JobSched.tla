------------------------------ MODULE JobSched ------------------------------
(***************************************************************************)
(* The Job Scheduler (class Scheduler, cmd/schedulerd/scheduler): how the  *)
(* jobs of the transaction at the front of the queue are run, answered by  *)
(* a restarter, timed out, and how a completion starts the jobs ordered    *)
(* after it.                                                               *)
(*                                                                         *)
(* The scheduler is single threaded but reentrant: job_run() calls the     *)
(* restarter, which may call job_complete() before start() returns, which  *)
(* runs further jobs, while the loops of the outer calls are still under   *)
(* way.  Nothing happens in a caller after such a call except the next     *)
(* turn of its loop, so the call stack is exactly the sequence of turns    *)
(* still to be made, innermost first: that sequence is `calls'.            *)
(*                                                                         *)
(*   leaf   a turn of the loop of tx_enqueue_leaves()                      *)
(*   other  a turn of the loop of job_complete() (label start_others), or  *)
(*          its check of the job that a restart was converted to           *)
(*   start  the call of Restarter::start() that job_run() ends with        *)
(*                                                                         *)
(* When `calls' is empty the program is back in the event loop (or in      *)
(* main), where a timer may elapse, JavaScript may call jobComplete, and   *)
(* another transaction may be enqueued.                                    *)
(***************************************************************************)
EXTENDS Evloop, Sequences

CONSTANTS
    Objects,     \* the schedulable objects
    Order,       \* their order in the std::map Transaction::jobs
    OrderGraphs, \* the kAfter edges the object graph may hold
    TxSpecs,     \* what transaction generation may yield: a job type or "none"
    MaxTx,       \* bound: calls of tx_enqueue()
    Answers,     \* when a restarter answers: "within" start(), or "later"
    Results      \* what it answers

JobTypes == {"start", "verify", "stop", "reload", "restart"}

(* Task::State; kRunning is declared too but no code assigns it. *)
States == {"awaiting", "success", "failure", "timeout", "cancelled"}

(***************************************************************************)
(* edges[o] are the objects o has a kAfter edge to; edges_to[o] is the     *)
(* list of the objects with a kAfter edge to o, in list order, with        *)
(* repetitions (A saying Before=B and B saying After=A make two edges).    *)
(***************************************************************************)
ASSUME GraphAssumption ==
    /\ OrderGraphs # {}
    /\ \A g \in OrderGraphs :
          /\ g.edges \in [Objects -> SUBSET Objects]
          /\ g.edges_to \in [Objects -> Seq(Objects)]
          /\ \A o, p \in Objects :
                p \in g.edges[o] <=> \E k \in DOMAIN g.edges_to[p] : g.edges_to[p][k] = o

ASSUME JobSchedAssumption ==
    /\ Order \in Seq(Objects)
    /\ \A o \in Objects : \E k \in DOMAIN Order : Order[k] = o
    /\ TxSpecs \subseteq [Objects -> JobTypes \cup {"none"}]
    /\ MaxTx \in Nat
    /\ Answers \subseteq {"within", "later"}
    /\ Results \subseteq States \ {"awaiting"}

VARIABLES
    edges, edges_to,  \* the kAfter edges of the object graph
    transactions,     \* Scheduler::transactions
    running_jobs,     \* Scheduler::running_jobs, the job given by its object
    last_jobid,       \* Scheduler::last_jobid
    calls,            \* the turns the calls under way still have to make
    asked,            \* start() calls a restarter will answer later: <<id, n>>
    crashed,          \* the null entry of running_jobs was dereferenced
    starts            \* history: the job types start() was called for

sched_vars == <<edges, edges_to, transactions, running_jobs, last_jobid,
                calls, asked, crashed, starts>>
vars == <<evloop_vars, sched_vars>>

-----------------------------------------------------------------------------
(* Data: jobs and transactions                                             *)

Job == [type  : JobTypes \cup {"none"},
        state : States,
        id    : Int,
        timer : timerid_t \cup {0}]

(* A job as Transaction generation leaves it; type "none" means no job. *)
NewJob(type) == [type |-> type, state |-> "awaiting", id |-> -1, timer |-> 0]

(***************************************************************************)
(* The jobs of transactions.front(): after merging an object has at most   *)
(* one, the one object_job_for() returns.  No code pops the queue.         *)
(***************************************************************************)
Jobs == transactions[1]

WithFront(jobs) == [transactions EXCEPT ![1] = jobs]

HasJob(jobs, o) == jobs[o].type # "none"

Turn == [fn : {"leaf", "other", "start"}, o : Objects]

Turns(fn, objs) == [k \in DOMAIN objs |-> [fn |-> fn, o |-> objs[k]]]

InEventLoop == calls = << >> /\ ~crashed

(* The turn to be made next, of the given kind. *)
NextTurn(fn) == calls # << >> /\ Head(calls).fn = fn /\ ~crashed

TypeOK ==
    /\ Evloop_TypeOK
    /\ edges \in [Objects -> SUBSET Objects]
    /\ edges_to \in [Objects -> Seq(Objects)]
    /\ transactions \in Seq([Objects -> Job])
    /\ DOMAIN running_jobs \subseteq Int
    /\ running_jobs \in [DOMAIN running_jobs -> Objects]
    /\ last_jobid \in Nat
    /\ calls \in Seq(Turn)
    /\ asked \subseteq Int \X Nat
    /\ crashed \in BOOLEAN
    /\ starts \in [Objects -> Seq(JobTypes)]
    /\ transactions = << >> => calls = << >> /\ DOMAIN running_jobs = {}

Init ==
    /\ Evloop_Init
    /\ \E g \in OrderGraphs : edges = g.edges /\ edges_to = g.edges_to
    /\ transactions = << >>
    /\ running_jobs = [i \in {} |-> 0]
    /\ last_jobid = 0
    /\ calls = << >>
    /\ asked = {}
    /\ crashed = FALSE
    /\ starts = [o \in Objects |-> << >>]

-----------------------------------------------------------------------------
(* Running jobs                                                            *)

(***************************************************************************)
(* Job::after_order(): 1 when a job with a kAfter edge to the object of    *)
(* `other' has to wait for it.  Only the type of `other' is looked at.     *)
(***************************************************************************)
after_order(other) == IF other.type \in {"stop", "restart"} THEN -1 ELSE 1

(* Mutant of job_runnable: the state of the job itself is not looked at. *)
job_runnable_AnyState(jobs, o) ==
    /\ HasJob(jobs, o)
    /\ \A p \in edges[o] :
          HasJob(jobs, p) /\ after_order(jobs[p]) = 1 => jobs[p].state = "success"

(* Mutant of job_runnable: a job that is done is as good as a successful one. *)
job_runnable_DoneIsEnough(jobs, o) ==
    /\ HasJob(jobs, o)
    /\ jobs[o].state = "awaiting"
    /\ \A p \in edges[o] :
          HasJob(jobs, p) /\ after_order(jobs[p]) = 1 => jobs[p].state # "awaiting"

(* Scheduler::job_runnable(), and object_job_for() being non-null. *)
job_runnable(jobs, o) ==
    /\ HasJob(jobs, o)
    /\ jobs[o].state = "awaiting"
    /\ \A p \in edges[o] :
          HasJob(jobs, p) /\ after_order(jobs[p]) = 1 => jobs[p].state = "success"

(* Mutant of job_run: a job whose timer field is set gets no new timer. *)
job_run_TimerOnce(jobs, o, rest) ==
    LET id == jobs[o].id IN
    /\ running_jobs' = [i \in DOMAIN running_jobs \cup {id} |->
                           IF i = id THEN o ELSE running_jobs[i]]
    /\ \/ /\ jobs[o].timer = 0
          /\ \E t \in timerid_t :
                /\ add_timer(t, id)
                /\ transactions' = WithFront([jobs EXCEPT ![o].timer = t])
       \/ /\ jobs[o].timer # 0
          /\ transactions' = WithFront(jobs)
          /\ UNCHANGED evloop_vars
    /\ calls' = <<[fn |-> "start", o |-> o]>> \o rest
    /\ starts' = [starts EXCEPT ![o] = Append(@, jobs[o].type)]

(***************************************************************************)
(* Scheduler::job_run(), up to and including the call of start(), which    *)
(* becomes the next turn.  The state of the job stays "awaiting".          *)
(***************************************************************************)
job_run(jobs, o, rest) ==
    LET id == jobs[o].id IN
    \E t \in timerid_t :
        /\ running_jobs' = [i \in DOMAIN running_jobs \cup {id} |->
                               IF i = id THEN o ELSE running_jobs[i]]
        /\ add_timer(t, id)
        /\ transactions' = WithFront([jobs EXCEPT ![o].timer = t])
        /\ calls' = <<[fn |-> "start", o |-> o]>> \o rest
        /\ starts' = [starts EXCEPT ![o] = Append(@, jobs[o].type)]

RunIfRunnable(jobs, o, rest) ==
    \/ /\ job_runnable(jobs, o)
       /\ job_run(jobs, o, rest)
    \/ /\ ~job_runnable(jobs, o)
       /\ transactions' = WithFront(jobs)
       /\ calls' = rest
       /\ UNCHANGED <<evloop_vars, running_jobs, starts>>

(***************************************************************************)
(* Scheduler::tx_enqueue(): the new transaction goes to the back of the    *)
(* queue, the leaves that are enqueued are those of the front one.         *)
(***************************************************************************)
tx_enqueue(spec) ==
    /\ InEventLoop
    /\ Len(transactions) < MaxTx
    /\ transactions' = Append(transactions, [o \in Objects |-> NewJob(spec[o])])
    /\ calls' = Turns("leaf", Order)
    /\ UNCHANGED <<evloop_vars, edges, edges_to, running_jobs, last_jobid,
                   asked, crashed, starts>>

(* A turn of the loop of Scheduler::tx_enqueue_leaves(). *)
tx_enqueue_leaves ==
    /\ NextTurn("leaf")
    /\ LET o   == Head(calls).o
           new == HasJob(Jobs, o) /\ Jobs[o].id = -1
       IN  /\ last_jobid' = IF new THEN last_jobid + 1 ELSE last_jobid
           /\ RunIfRunnable([Jobs EXCEPT ![o].id = IF new THEN last_jobid ELSE @],
                            o, Tail(calls))
    /\ UNCHANGED <<edges, edges_to, asked, crashed>>

-----------------------------------------------------------------------------
(* Completion of jobs                                                      *)

(* Mutant of Settle: the loop at start_others stops at its first edge. *)
Settle_FirstEdgeOnly(jobs, id, res, rest) ==
    LET o         == running_jobs[id]
        restarted == res = "success" /\ jobs[o].type = "restart"
    IN  /\ running_jobs' = Restrict(running_jobs, DOMAIN running_jobs \ {id})
        /\ transactions' = WithFront([jobs EXCEPT
               ![o].state = IF restarted THEN "awaiting" ELSE res,
               ![o].type  = IF restarted THEN "start" ELSE @])
        /\ calls' = Turns("other", IF restarted \/ edges_to[o] = << >>
                                     THEN << >> ELSE <<Head(edges_to[o])>>) \o rest

(***************************************************************************)
(* What job_complete() does to the running job `id' once its timer has     *)
(* been seen to: the entry goes, the state is set, a successful restart    *)
(* becomes a start job that is run again if it is runnable, and then the   *)
(* jobs of the objects ordered after this one are looked at.               *)
(***************************************************************************)
Settle(jobs, id, res, rest) ==
    LET o         == running_jobs[id]
        restarted == res = "success" /\ jobs[o].type = "restart"
    IN  /\ running_jobs' = Restrict(running_jobs, DOMAIN running_jobs \ {id})
        /\ transactions' = WithFront([jobs EXCEPT
               ![o].state = IF restarted THEN "awaiting" ELSE res,
               ![o].type  = IF restarted THEN "start" ELSE @])
        /\ calls' = Turns("other", IF restarted THEN <<o>> \o edges_to[o] ELSE edges_to[o])
                       \o rest

(* Mutant of job_complete: the timer of the job is left armed. *)
job_complete_LeavesTimer(id, res, rest) ==
    \/ /\ id \in DOMAIN running_jobs
       /\ Settle(Jobs, id, res, rest)
       /\ UNCHANGED <<evloop_vars, crashed>>
    \/ /\ id \notin DOMAIN running_jobs
       /\ crashed' = TRUE
       /\ UNCHANGED <<evloop_vars, transactions, running_jobs, calls>>

(***************************************************************************)
(* Scheduler::job_complete().  running_jobs[id] makes a null entry for an  *)
(* id that is not there, and the null pointer is dereferenced at once.     *)
(***************************************************************************)
job_complete(id, res, rest) ==
    \/ /\ id \in DOMAIN running_jobs
       /\ LET timer == Jobs[running_jobs[id]].timer
          IN  \/ timer # 0 /\ del_timer(timer)
              \/ timer = 0 /\ UNCHANGED evloop_vars
       /\ Settle(Jobs, id, res, rest)
       /\ UNCHANGED crashed
    \/ /\ id \notin DOMAIN running_jobs
       /\ crashed' = TRUE
       /\ UNCHANGED <<evloop_vars, transactions, running_jobs, calls>>

(* A turn of the loop at start_others, or the check of a converted restart. *)
start_others ==
    /\ NextTurn("other")
    /\ RunIfRunnable(Jobs, Head(calls).o, Tail(calls))
    /\ UNCHANGED <<edges, edges_to, last_jobid, asked, crashed>>

(* Restarter::start() calls job_complete() itself: TargetRestarter does. *)
start_answers(res) ==
    /\ NextTurn("start")
    /\ "within" \in Answers
    /\ job_complete(Jobs[Head(calls).o].id, res, Tail(calls))
    /\ UNCHANGED <<edges, edges_to, last_jobid, asked, starts>>

(* Restarter::start() returns with the job under way, as JSRestarter may. *)
start_returns ==
    /\ NextTurn("start")
    /\ "later" \in Answers
    /\ LET o == Head(calls).o IN asked' = asked \cup {<<Jobs[o].id, Len(starts[o])>>}
    /\ calls' = Tail(calls)
    /\ UNCHANGED <<evloop_vars, edges, edges_to, transactions, running_jobs,
                   last_jobid, crashed, starts>>

(* JavaScript answers a start() call: the jobComplete method of @iw/scheduler. *)
jobComplete(a, res) ==
    /\ InEventLoop
    /\ a \in asked
    /\ asked' = asked \ {a}
    /\ job_complete(a[1], res, << >>)
    /\ UNCHANGED <<edges, edges_to, last_jobid, starts>>

(***************************************************************************)
(* Scheduler::job_timeout_cb(), called by the event loop: the timer field  *)
(* of the job is cleared (whichever timer elapsed), so job_complete()      *)
(* deletes no timer.                                                       *)
(***************************************************************************)
job_timeout_cb(t) ==
    /\ InEventLoop
    /\ handle_timer(t)
    /\ LET jid == m_timers[t]
       IN  \/ /\ jid \in DOMAIN running_jobs
              /\ Settle([Jobs EXCEPT ![running_jobs[jid]].timer = 0], jid, "timeout", << >>)
              /\ UNCHANGED crashed
           \/ /\ jid \notin DOMAIN running_jobs
              /\ crashed' = TRUE
              /\ UNCHANGED <<transactions, running_jobs, calls>>
    /\ UNCHANGED <<edges, edges_to, last_jobid, asked, starts>>

-----------------------------------------------------------------------------
(* The event loop with nothing to deliver, or the process gone. *)
Idle ==
    /\ calls = << >> \/ crashed
    /\ UNCHANGED vars

MakeTurn ==
    \/ tx_enqueue_leaves
    \/ start_others
    \/ \E res \in Results : start_answers(res)
    \/ start_returns

Next ==
    \/ \E spec \in TxSpecs : tx_enqueue(spec)
    \/ MakeTurn
    \/ \E a \in asked, res \in Results : jobComplete(a, res)
    \/ \E t \in timerid_t : job_timeout_cb(t)
    \/ Idle

Spec == Init /\ [][Next]_vars

(***************************************************************************)
(* The thread goes on with the calls it is in, and the kernel delivers     *)
(* every timer event.  Nothing makes a restarter answer.                   *)
(***************************************************************************)
Fairness ==
    /\ WF_vars(MakeTurn)
    /\ \A t \in timerid_t : WF_vars(job_timeout_cb(t))

FairSpec == Spec /\ Fairness

-----------------------------------------------------------------------------
(* Properties                                                              *)

(* The job of o in the front transaction is in running_jobs under its id. *)
Running(o) ==
    /\ Jobs[o].id \in DOMAIN running_jobs
    /\ running_jobs[Jobs[o].id] = o

(***************************************************************************)
(* No wakeup is lost: whenever the program is back in the event loop,      *)
(* every job that job_runnable() would let run is in running_jobs.         *)
(* Nothing looks at a waiting job again before some other job completes,   *)
(* so a runnable job missed by the loops of tx_enqueue_leaves() and        *)
(* job_complete() would wait for ever.                                     *)
(***************************************************************************)
NoLostWakeup ==
    InEventLoop /\ transactions # << >> =>
        \A o \in Objects : job_runnable(Jobs, o) => Running(o)

(***************************************************************************)
(* Why no wakeup is lost, in every state and not only in the event loop:   *)
(* a runnable job that is not running will still be looked at by one of    *)
(* the loops under way.  A job that ran under the id -1 may lose its entry *)
(* to another such job; it has no id yet, so that tx_enqueue_leaves() has  *)
(* still to reach it.                                                      *)
(***************************************************************************)
Pending(turns, o) == \E k \in DOMAIN turns : turns[k].o = o /\ turns[k].fn # "start"

LeafPending(turns, o) == \E k \in DOMAIN turns : turns[k] = [fn |-> "leaf", o |-> o]

WakeupInv ==
    transactions # << >> =>
        \A o \in Objects : job_runnable(Jobs, o) => Running(o) \/ Pending(calls, o)

IdInv ==
    transactions # << >> =>
        /\ \A o \in Objects : HasJob(Jobs, o) /\ Jobs[o].id = -1 => LeafPending(calls, o)
        /\ \A o \in Objects : Jobs[o].id \in -1 .. (last_jobid - 1)
        /\ \A o, p \in Objects : Jobs[o].id = Jobs[p].id /\ Jobs[o].id # -1 => o = p

(* Every kAfter edge is in the list its far end is woken from. *)
MirrorInv ==
    \A o, p \in Objects :
        p \in edges[o] => \E k \in DOMAIN edges_to[p] : edges_to[p][k] = o

(* The inductive invariant that proves NoLostWakeup, whatever restarter. *)
SchedInv == TypeOK /\ MirrorInv /\ IdInv /\ WakeupInv

(***************************************************************************)
(* A running job is timed: its timer field is the address of a live Timer  *)
(* that is still armed and that carries the id of this very job.           *)
(***************************************************************************)
RunningIsTimed ==
    \A id \in DOMAIN running_jobs :
        LET timer == Jobs[running_jobs[id]].timer
        IN  timer \in kq /\ m_timers[timer] = id

(* start() is called once for a job, and once more for the start job that  *)
(* a successful restart is converted to: never twice for the same job.     *)
StartedOnce == \A o \in Objects : IsInjective(starts[o])

(***************************************************************************)
(* No timer outlives its job, so that job_timeout_cb() never looks up a    *)
(* job that has completed: only a job started twice leaves one behind.     *)
(***************************************************************************)
TimersAreOfRunningJobs ==
    \A t \in kq : \E o \in Objects :
        /\ m_timers[t] = Jobs[o].id
        /\ m_timers[t] \in DOMAIN running_jobs \/ ~IsInjective(starts[o])

(***************************************************************************)
(* With a restarter that answers success within start() a transaction of   *)
(* acyclic order is carried out by tx_enqueue() itself: on its return all  *)
(* jobs have succeeded, nothing is running and no timer is left.           *)
(***************************************************************************)
CarriedOutOnReturn ==
    InEventLoop /\ transactions # << >> =>
        /\ \A o \in Objects : HasJob(Jobs, o) => Jobs[o].state = "success"
        /\ DOMAIN running_jobs = {}
        /\ DOMAIN m_timers = {}

(* The null entry of running_jobs is never dereferenced. *)
NoCrash == ~crashed

(* The jobs of the n-th transaction have all completed. *)
Settled(n) ==
    \A o \in Objects : HasJob(transactions[n], o) => transactions[n][o].state # "awaiting"

(* The transactions are a queue: each gets its turn and is carried out. *)
EveryTxSettles ==
    \A n \in 1 .. MaxTx : n \in DOMAIN transactions ~> (n \in DOMAIN transactions /\ Settled(n))

(***************************************************************************)
(* A job does not run for ever: it is answered or timed out (or the        *)
(* process crashes), even if its restarter never answers.                  *)
(***************************************************************************)
RunningEnds ==
    \A id \in 0 .. Len(Order) :
        id \in DOMAIN running_jobs ~> (id \notin DOMAIN running_jobs \/ crashed)

(***************************************************************************)
(* A job that completes without success is removed from the order graph    *)
(* and what was ordered after it runs or is cancelled: it does not wait    *)
(* for ever.                                                               *)
(***************************************************************************)
FailureUncovers ==
    \A o, p \in Objects :
        /\ transactions # << >>
        /\ p \in edges[o]
        /\ HasJob(Jobs, o)
        /\ Jobs[p].state \in {"failure", "timeout"}
        ~> \/ crashed \/ starts[o] # << >>
           \/ transactions # << >> /\ Jobs[o].state # "awaiting"
=============================================================================
