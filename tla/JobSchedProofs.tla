--------------------------- MODULE JobSchedProofs ---------------------------
(***************************************************************************)
(* Proofs about JobSched, for every set of objects, order graph,           *)
(* transaction and restarter: types, and that no wakeup is lost.           *)
(***************************************************************************)
EXTENDS JobSched, EvloopProofs, SequenceTheorems, TLAPS

-----------------------------------------------------------------------------
(* Facts about the operators of the model                                  *)

(* The turns of a list of objects are turns, one for each, in order. *)
LEMMA TurnsType ==
    ASSUME NEW fn \in {"leaf", "other", "start"}, NEW objs \in Seq(Objects)
    PROVE  /\ Turns(fn, objs) \in Seq(Turn)
           /\ DOMAIN Turns(fn, objs) = DOMAIN objs
           /\ \A k \in DOMAIN objs : Turns(fn, objs)[k] = [fn |-> fn, o |-> objs[k]]
<1>1. /\ Len(objs) \in Nat
      /\ DOMAIN objs = 1 .. Len(objs)
      /\ \A k \in 1 .. Len(objs) : objs[k] \in Objects
  BY LenProperties, ElementOfSeq
<1>2. \A k \in 1 .. Len(objs) : [fn |-> fn, o |-> objs[k]] \in Turn
  BY <1>1 DEF Turn
<1>3. Turns(fn, objs) \in Seq(Turn)
  BY <1>1, <1>2, IsASeq DEF Turns
<1> QED BY <1>1, <1>3 DEF Turns

(* Replacing the front transaction changes nothing else of the queue. *)
LEMMA WithFrontType ==
    ASSUME TypeOK, transactions # << >>, NEW jobs \in [Objects -> Job]
    PROVE  /\ WithFront(jobs) \in Seq([Objects -> Job])
           /\ WithFront(jobs) # << >>
           /\ WithFront(jobs)[1] = jobs
           /\ Jobs \in [Objects -> Job]
<1>1. /\ Len(transactions) \in Nat \ {0}
      /\ DOMAIN transactions = 1 .. Len(transactions)
      /\ transactions \in Seq([Objects -> Job])
  BY EmptySeq, LenProperties DEF TypeOK
<1>2. WithFront(jobs) \in Seq([Objects -> Job]) /\ Len(WithFront(jobs)) = Len(transactions)
  BY <1>1, ExceptSeq DEF WithFront
<1>3. WithFront(jobs)[1] = jobs
  BY <1>1, ExceptSeq DEF WithFront
<1>4. Jobs \in [Objects -> Job]
  BY <1>1, ElementOfSeq DEF Jobs
<1> QED BY <1>1, <1>2, <1>3, <1>4, EmptySeq

(* The next turn and the ones after it. *)
LEMMA HeadTurn ==
    ASSUME TypeOK, calls # << >>
    PROVE  /\ Head(calls) \in Turn
           /\ Head(calls).o \in Objects
           /\ Tail(calls) \in Seq(Turn)
           /\ \A k \in DOMAIN calls : calls[k] = Head(calls)
                 \/ \E j \in DOMAIN Tail(calls) : Tail(calls)[j] = calls[k]
           /\ transactions # << >>
<1>1. calls \in Seq(Turn) /\ Len(calls) \in Nat \ {0} /\ DOMAIN calls = 1 .. Len(calls)
  BY EmptySeq, LenProperties DEF TypeOK
<1>2. /\ Head(calls) \in Turn
      /\ Tail(calls) \in Seq(Turn)
      /\ Head(calls) = calls[1]
      /\ Len(Tail(calls)) = Len(calls) - 1
      /\ \A j \in 1 .. Len(Tail(calls)) : Tail(calls)[j] = calls[j + 1]
  BY <1>1, HeadTailProperties
<1>3. \A k \in 1 .. Len(calls) : k = 1 \/ (k - 1 \in 1 .. Len(Tail(calls)) /\ calls[k] = Tail(calls)[k - 1])
  BY <1>1, <1>2
<1>4. DOMAIN Tail(calls) = 1 .. Len(Tail(calls))
  BY <1>2, LenProperties
<1>5. transactions # << >>
  BY DEF TypeOK
<1> QED BY <1>1, <1>2, <1>3, <1>4, <1>5 DEF Turn

(* What is pending in either part of a call stack is pending in the whole. *)
LEMMA ConcatTurns ==
    ASSUME NEW s \in Seq(Turn), NEW t \in Seq(Turn)
    PROVE  /\ s \o t \in Seq(Turn)
           /\ \A k \in DOMAIN s : \E j \in DOMAIN (s \o t) : (s \o t)[j] = s[k]
           /\ \A k \in DOMAIN t : \E j \in DOMAIN (s \o t) : (s \o t)[j] = t[k]
<1>1. /\ s \o t \in Seq(Turn)
      /\ Len(s \o t) = Len(s) + Len(t)
      /\ \A i \in 1 .. Len(s) + Len(t) :
            (s \o t)[i] = IF i <= Len(s) THEN s[i] ELSE t[i - Len(s)]
  BY ConcatProperties
<1>2. /\ DOMAIN s = 1 .. Len(s) /\ Len(s) \in Nat
      /\ DOMAIN t = 1 .. Len(t) /\ Len(t) \in Nat
      /\ DOMAIN (s \o t) = 1 .. Len(s) + Len(t)
  BY <1>1, LenProperties
<1>3. \A k \in DOMAIN s : k \in DOMAIN (s \o t) /\ (s \o t)[k] = s[k]
  BY <1>1, <1>2
<1>4. \A k \in DOMAIN t : k + Len(s) \in DOMAIN (s \o t) /\ (s \o t)[k + Len(s)] = t[k]
  BY <1>1, <1>2
<1> QED BY <1>1, <1>3, <1>4

-----------------------------------------------------------------------------
(* What the two building blocks of the actions do                          *)

(***************************************************************************)
(* RunIfRunnable keeps types, changes no more of the jobs than a timer     *)
(* field, keeps the turns of the callers, and registers the job it runs    *)
(* without disturbing the entry of another id.                             *)
(***************************************************************************)
LEMMA RunStep ==
    ASSUME TypeOK, transactions # << >>, NEW o \in Objects,
           NEW jobs \in [Objects -> Job], NEW rest \in Seq(Turn),
           RunIfRunnable(jobs, o, rest)
    PROVE  /\ Evloop_TypeOK'
           /\ transactions' \in Seq([Objects -> Job])
           /\ transactions' # << >>
           /\ DOMAIN running_jobs' \subseteq Int
           /\ running_jobs' \in [DOMAIN running_jobs' -> Objects]
           /\ calls' \in Seq(Turn)
           /\ starts' \in [Objects -> Seq(JobTypes)]
           /\ \A p \in Objects : /\ Jobs'[p].type = jobs[p].type
                                 /\ Jobs'[p].state = jobs[p].state
                                 /\ Jobs'[p].id = jobs[p].id
           /\ \A k \in DOMAIN rest : \E j \in DOMAIN calls' : calls'[j] = rest[k]
           /\ job_runnable(jobs, o) => /\ jobs[o].id \in DOMAIN running_jobs'
                                       /\ running_jobs'[jobs[o].id] = o
           /\ \A i \in DOMAIN running_jobs :
                 i # jobs[o].id \/ ~job_runnable(jobs, o) =>
                     i \in DOMAIN running_jobs' /\ running_jobs'[i] = running_jobs[i]
<1> USE DEF RunIfRunnable
<1>1. CASE job_runnable(jobs, o) /\ job_run(jobs, o, rest)
  <2> DEFINE jobs2(t) == [jobs EXCEPT ![o].timer = t]
             start == <<[fn |-> "start", o |-> o]>>
  <2>1. PICK t \in timerid_t :
          /\ running_jobs' = [i \in DOMAIN running_jobs \cup {jobs[o].id} |->
                                 IF i = jobs[o].id THEN o ELSE running_jobs[i]]
          /\ add_timer(t, jobs[o].id)
          /\ transactions' = WithFront(jobs2(t))
          /\ calls' = start \o rest
          /\ starts' = [starts EXCEPT ![o] = Append(@, jobs[o].type)]
    BY <1>1 DEF job_run
  <2>2. jobs[o] \in Job /\ jobs[o].id \in Int /\ jobs[o].type \in JobTypes
    BY <1>1 DEF Job, job_runnable, HasJob
  <2>3. Evloop_TypeOK'
    BY <2>1, <2>2, TimerSteps DEF TypeOK
  <2>4. /\ jobs2(t) \in [Objects -> Job]
        /\ \A p \in Objects : /\ jobs2(t)[p].type = jobs[p].type
                              /\ jobs2(t)[p].state = jobs[p].state
                              /\ jobs2(t)[p].id = jobs[p].id
    BY <2>2 DEF Job
  <2>5. start \in Seq(Turn)
    BY DEF Turn
  <2> HIDE DEF jobs2, start
  <2>6. /\ transactions' \in Seq([Objects -> Job])
        /\ transactions' # << >>
        /\ Jobs' = jobs2(t)
    BY <2>1, <2>4, WithFrontType DEF Jobs
  <2>7. /\ DOMAIN running_jobs' = DOMAIN running_jobs \cup {jobs[o].id}
        /\ DOMAIN running_jobs' \subseteq Int
        /\ running_jobs' \in [DOMAIN running_jobs' -> Objects]
        /\ running_jobs'[jobs[o].id] = o
        /\ \A i \in DOMAIN running_jobs :
              i # jobs[o].id => running_jobs'[i] = running_jobs[i]
    BY <2>1, <2>2 DEF TypeOK
  <2>9. /\ calls' \in Seq(Turn)
        /\ \A k \in DOMAIN rest : \E j \in DOMAIN calls' : calls'[j] = rest[k]
    BY <2>1, <2>5, ConcatTurns
  <2>10. starts' \in [Objects -> Seq(JobTypes)]
    <3>1. Append(starts[o], jobs[o].type) \in Seq(JobTypes)
      BY <2>2, AppendProperties DEF TypeOK
    <3> QED BY <2>1, <3>1 DEF TypeOK
  <2> QED BY <1>1, <2>3, <2>4, <2>6, <2>7, <2>9, <2>10
<1>2. CASE ~job_runnable(jobs, o)
  <2>1. /\ transactions' = WithFront(jobs)
        /\ calls' = rest
        /\ UNCHANGED evloop_vars
        /\ UNCHANGED <<running_jobs, starts>>
    BY <1>2
  <2>2. /\ transactions' \in Seq([Objects -> Job])
        /\ transactions' # << >>
        /\ Jobs' = jobs
    BY <2>1, WithFrontType DEF Jobs
  <2>3. Evloop_TypeOK'
    BY <2>1, TimerSteps DEF TypeOK
  <2> QED BY <1>2, <2>1, <2>2, <2>3 DEF TypeOK
<1> QED BY <1>1, <1>2

(***************************************************************************)
(* Settle keeps types, removes just the one entry of running_jobs, changes *)
(* the job of that entry only, and leaves turns for that job if it is      *)
(* awaiting again and for all objects ordered after it.                    *)
(***************************************************************************)
LEMMA SettleStep ==
    ASSUME TypeOK, transactions # << >>, NEW id \in DOMAIN running_jobs,
           NEW o \in Objects, o = running_jobs[id],
           NEW jobs \in [Objects -> Job], NEW rest \in Seq(Turn),
           NEW res \in States \ {"awaiting"},
           Settle(jobs, id, res, rest)
    PROVE  /\ transactions' \in Seq([Objects -> Job])
           /\ transactions' # << >>
           /\ DOMAIN running_jobs' = DOMAIN running_jobs \ {id}
           /\ \A i \in DOMAIN running_jobs' : running_jobs'[i] = running_jobs[i]
           /\ running_jobs' \in [DOMAIN running_jobs' -> Objects]
           /\ calls' \in Seq(Turn)
           /\ o \in Objects
           /\ \A p \in Objects : p # o => Jobs'[p] = jobs[p]
           /\ \A p \in Objects : /\ Jobs'[p].id = jobs[p].id
                                 /\ HasJob(Jobs', p) => HasJob(jobs, p)
           /\ Jobs'[o].state = "awaiting" => Pending(calls', o)
           /\ \A k \in DOMAIN edges_to[o] : Pending(calls', edges_to[o][k])
           /\ \A k \in DOMAIN rest : \E j \in DOMAIN calls' : calls'[j] = rest[k]
<1> DEFINE restarted == res = "success" /\ jobs[o].type = "restart"
           objs == IF restarted THEN <<o>> \o edges_to[o] ELSE edges_to[o]
           job2 == [[jobs[o] EXCEPT !.state = IF restarted THEN "awaiting" ELSE res]
                             EXCEPT !.type = IF restarted THEN "start" ELSE @]
           jobs2 == [jobs EXCEPT ![o] = job2]
<1>1. o \in Objects /\ jobs[o] \in Job /\ edges_to[o] \in Seq(Objects)
  BY DEF TypeOK
<1>2. /\ running_jobs' = Restrict(running_jobs, DOMAIN running_jobs \ {id})
      /\ transactions' = WithFront(jobs2)
      /\ calls' = Turns("other", objs) \o rest
  BY <1>1 DEF Settle, Job
<1>3. /\ job2 \in Job
      /\ job2.id = jobs[o].id
      /\ job2.type # "none" => jobs[o].type # "none"
      /\ job2.state = "awaiting" => restarted
  BY <1>1, SMTT(30), ZenonT(30) DEF Job, States, JobTypes
<1>4. jobs2 \in [Objects -> Job]
  BY <1>1, <1>3
<1>5. /\ transactions' \in Seq([Objects -> Job])
      /\ transactions' # << >>
      /\ Jobs' = jobs2
  BY <1>2, <1>4, WithFrontType DEF Jobs
<1>6. /\ \A p \in Objects : p # o => Jobs'[p] = jobs[p]
      /\ Jobs'[o] = job2
  BY <1>1, <1>5
<1>7. \A p \in Objects : Jobs'[p].id = jobs[p].id /\ (HasJob(Jobs', p) => HasJob(jobs, p))
  BY <1>3, <1>6 DEF HasJob
<1>8. /\ DOMAIN running_jobs' = DOMAIN running_jobs \ {id}
      /\ \A i \in DOMAIN running_jobs' : running_jobs'[i] = running_jobs[i]
      /\ running_jobs' \in [DOMAIN running_jobs' -> Objects]
  BY <1>2 DEF Restrict, TypeOK
<1>9. /\ objs \in Seq(Objects)
      /\ \A k \in DOMAIN edges_to[o] : \E j \in DOMAIN objs : objs[j] = edges_to[o][k]
      /\ restarted => \E j \in DOMAIN objs : objs[j] = o
  <2>1. CASE restarted
    <3>1. <<o>> \in Seq(Objects) /\ Len(<<o>>) = 1 /\ <<o>>[1] = o
      BY <1>1
    <3>2. /\ <<o>> \o edges_to[o] \in Seq(Objects)
          /\ Len(<<o>> \o edges_to[o]) = 1 + Len(edges_to[o])
          /\ \A i \in 1 .. 1 + Len(edges_to[o]) :
                (<<o>> \o edges_to[o])[i] = IF i <= 1 THEN <<o>>[i] ELSE edges_to[o][i - 1]
      BY <1>1, <3>1, ConcatProperties
    <3>3. /\ DOMAIN edges_to[o] = 1 .. Len(edges_to[o]) /\ Len(edges_to[o]) \in Nat
          /\ DOMAIN (<<o>> \o edges_to[o]) = 1 .. 1 + Len(edges_to[o])
      BY <1>1, <3>2, LenProperties
    <3>4. \A k \in DOMAIN edges_to[o] : /\ k + 1 \in DOMAIN (<<o>> \o edges_to[o])
                                        /\ (<<o>> \o edges_to[o])[k + 1] = edges_to[o][k]
      BY <3>2, <3>3
    <3>5. 1 \in DOMAIN (<<o>> \o edges_to[o]) /\ (<<o>> \o edges_to[o])[1] = o
      BY <3>1, <3>2, <3>3
    <3> QED BY <2>1, <3>2, <3>4, <3>5
  <2>2. CASE ~restarted
    BY <1>1, <2>2
  <2> QED BY <2>1, <2>2
<1> HIDE DEF objs
<1>10. /\ Turns("other", objs) \in Seq(Turn)
       /\ DOMAIN Turns("other", objs) = DOMAIN objs
       /\ \A k \in DOMAIN objs : Turns("other", objs)[k] = [fn |-> "other", o |-> objs[k]]
  BY <1>9, TurnsType
<1>11. /\ calls' \in Seq(Turn)
       /\ \A k \in DOMAIN rest : \E j \in DOMAIN calls' : calls'[j] = rest[k]
       /\ \A k \in DOMAIN objs : \E j \in DOMAIN calls' : calls'[j] = [fn |-> "other", o |-> objs[k]]
  <2> DEFINE turns == Turns("other", objs)
  <2>1. calls' = turns \o rest /\ turns \in Seq(Turn)
    BY <1>2, <1>10
  <2>2. DOMAIN turns = DOMAIN objs /\ \A k \in DOMAIN objs : turns[k] = [fn |-> "other", o |-> objs[k]]
    BY <1>10
  <2> HIDE DEF turns, restarted, job2, jobs2
  <2>3. /\ turns \o rest \in Seq(Turn)
        /\ \A k \in DOMAIN turns : \E j \in DOMAIN (turns \o rest) : (turns \o rest)[j] = turns[k]
        /\ \A k \in DOMAIN rest : \E j \in DOMAIN (turns \o rest) : (turns \o rest)[j] = rest[k]
    BY <2>1, ConcatTurns, Zenon
  <2> QED BY <2>1, <2>2, <2>3
<1>12. \A k \in DOMAIN objs : Pending(calls', objs[k])
  BY <1>11 DEF Pending
<1>13. \A k \in DOMAIN edges_to[o] : Pending(calls', edges_to[o][k])
  BY <1>9, <1>12
<1>14. Jobs'[o].state = "awaiting" => Pending(calls', o)
  BY <1>3, <1>6, <1>9, <1>12
<1> HIDE DEF job2, jobs2, restarted
<1> QED BY <1>1, <1>5, <1>6, <1>7, <1>8, <1>11, <1>13, <1>14

-----------------------------------------------------------------------------
(* Why they lose no wakeup                                                 *)

(* job_runnable() looks at types and states only. *)
LEMMA RunnableSame ==
    ASSUME TypeOK, NEW jobs1, NEW jobs2,
           \A p \in Objects : jobs1[p].type = jobs2[p].type /\ jobs1[p].state = jobs2[p].state,
           NEW o \in Objects
    PROVE  job_runnable(jobs1, o) <=> job_runnable(jobs2, o)
<1>1. edges[o] \subseteq Objects
  BY DEF TypeOK
<1> QED BY <1>1 DEF job_runnable, HasJob, after_order

(***************************************************************************)
(* A turn that looks at the job of o, after perhaps giving it an id that   *)
(* no other job has, leaves every other runnable job running or pending.   *)
(***************************************************************************)
LEMMA RunKeepsWakeups ==
    ASSUME SchedInv, calls # << >>, NEW o, o = Head(calls).o,
           NEW jobs \in [Objects -> Job],
           \A p \in Objects : jobs[p].type = Jobs[p].type /\ jobs[p].state = Jobs[p].state,
           \A p \in Objects \ {o} : jobs[p].id = Jobs[p].id,
           \A p \in Objects \ {o} : jobs[o].id # -1 => jobs[p].id # jobs[o].id,
           HasJob(jobs, o) /\ jobs[o].id = -1 =>
               Jobs[o].id = -1 /\ Head(calls) # [fn |-> "leaf", o |-> o],
           RunIfRunnable(jobs, o, Tail(calls)),
           UNCHANGED edges
    PROVE  /\ WakeupInv'
           /\ \A p \in Objects : HasJob(Jobs', p) /\ Jobs'[p].id = -1 => LeafPending(calls', p)
<1> DEFINE rest == Tail(calls)
<1>1. /\ TypeOK
      /\ transactions # << >>
      /\ o \in Objects
      /\ rest \in Seq(Turn)
      /\ \A k \in DOMAIN calls : calls[k] = Head(calls)
            \/ \E j \in DOMAIN rest : rest[j] = calls[k]
      /\ RunIfRunnable(jobs, o, rest)
  BY HeadTurn DEF SchedInv
<1> HIDE DEF rest
<1>2. /\ transactions' # << >>
      /\ \A p \in Objects : /\ Jobs'[p].type = jobs[p].type
                            /\ Jobs'[p].state = jobs[p].state
                            /\ Jobs'[p].id = jobs[p].id
      /\ \A k \in DOMAIN rest : \E j \in DOMAIN calls' : calls'[j] = rest[k]
      /\ job_runnable(jobs, o) => /\ jobs[o].id \in DOMAIN running_jobs'
                                  /\ running_jobs'[jobs[o].id] = o
      /\ \A i \in DOMAIN running_jobs :
            i # jobs[o].id \/ ~job_runnable(jobs, o) =>
                i \in DOMAIN running_jobs' /\ running_jobs'[i] = running_jobs[i]
  BY <1>1, RunStep
<1>3. ASSUME NEW k \in DOMAIN calls, calls[k] # Head(calls)
      PROVE  \E j \in DOMAIN calls' : calls'[j] = calls[k]
  BY <1>1, <1>2, <1>3
<1>4. ASSUME NEW p \in Objects, p # o, Pending(calls, p)
      PROVE  Pending(calls', p)
  BY <1>3, <1>4 DEF Pending
<1>5. ASSUME NEW p \in Objects, HasJob(Jobs', p), Jobs'[p].id = -1
      PROVE  LeafPending(calls', p)
  <2>1. HasJob(Jobs, p) /\ Jobs[p].id = -1
    BY <1>1, <1>2, <1>5 DEF HasJob
  <2>2. PICK k \in DOMAIN calls : calls[k] = [fn |-> "leaf", o |-> p]
    BY <1>1, <2>1 DEF SchedInv, IdInv, LeafPending
  <2>3. calls[k] # Head(calls)
    <3>1. CASE p = o
      BY <1>2, <1>5, <2>2, <3>1 DEF HasJob
    <3>2. CASE p # o
      BY <2>2, <3>2
    <3> QED BY <3>1, <3>2
  <2> QED BY <1>3, <2>2, <2>3 DEF LeafPending
<1>6. ASSUME NEW p \in Objects, job_runnable(Jobs, p)'
      PROVE  Running(p)' \/ Pending(calls', p)
  <2>1. job_runnable(Jobs, p)
    <3>1. job_runnable(Jobs', p)
      BY <1>6 DEF job_runnable, HasJob, after_order
    <3>2. \A q \in Objects : Jobs'[q].type = Jobs[q].type /\ Jobs'[q].state = Jobs[q].state
      BY <1>2
    <3> QED BY <1>1, <3>1, <3>2, RunnableSame
  <2>2. job_runnable(jobs, p)
    BY <1>1, <2>1, RunnableSame
  <2>3. CASE p = o
    BY <1>1, <1>2, <2>2, <2>3 DEF Running
  <2>4. CASE p # o /\ Pending(calls, p)
    BY <1>4, <2>4
  <2>5. CASE p # o /\ Running(p) /\ ~Pending(calls, p)
    <3>1. jobs[p].id # -1
      <4>1. HasJob(Jobs, p)
        BY <2>1 DEF job_runnable
      <4>2. ~LeafPending(calls, p)
        BY <2>5 DEF Pending, LeafPending
      <4>3. Jobs[p].id # -1
        BY <1>1, <4>1, <4>2 DEF SchedInv, IdInv
      <4> QED BY <2>5, <4>3
    <3>2. jobs[p].id # jobs[o].id
      BY <2>5, <3>1
    <3>3. jobs[p].id \in DOMAIN running_jobs /\ running_jobs[jobs[p].id] = p
      BY <2>5 DEF Running
    <3> QED BY <1>2, <3>2, <3>3 DEF Running
  <2> QED BY <1>1, <2>1, <2>3, <2>4, <2>5 DEF SchedInv, WakeupInv
<1> QED BY <1>5, <1>6 DEF WakeupInv

(***************************************************************************)
(* A completion may make jobs runnable, but only those of objects with a   *)
(* kAfter edge to the object it is about, and for these it leaves turns.   *)
(***************************************************************************)
LEMMA SettleKeepsWakeups ==
    ASSUME SchedInv, transactions # << >>, NEW id \in DOMAIN running_jobs,
           NEW jobs \in [Objects -> Job], NEW rest \in Seq(Turn),
           NEW res \in States \ {"awaiting"},
           \A p \in Objects : /\ jobs[p].type = Jobs[p].type
                              /\ jobs[p].state = Jobs[p].state
                              /\ jobs[p].id = Jobs[p].id,
           \A k \in DOMAIN calls :
               calls[k].fn # "start" => \E j \in DOMAIN rest : rest[j] = calls[k],
           Settle(jobs, id, res, rest),
           UNCHANGED edges
    PROVE  /\ WakeupInv'
           /\ \A p \in Objects : HasJob(Jobs', p) /\ Jobs'[p].id = -1 => LeafPending(calls', p)
<1>0. TypeOK
  BY DEF SchedInv
<1> PICK o \in Objects : o = running_jobs[id]
  BY <1>0 DEF TypeOK
<1>1. /\ transactions' \in Seq([Objects -> Job])
      /\ transactions' # << >>
      /\ DOMAIN running_jobs' = DOMAIN running_jobs \ {id}
      /\ \A i \in DOMAIN running_jobs' : running_jobs'[i] = running_jobs[i]
      /\ running_jobs' \in [DOMAIN running_jobs' -> Objects]
      /\ calls' \in Seq(Turn)
      /\ o \in Objects
      /\ \A p \in Objects : p # o => Jobs'[p] = jobs[p]
      /\ \A p \in Objects : /\ Jobs'[p].id = jobs[p].id
                            /\ HasJob(Jobs', p) => HasJob(jobs, p)
      /\ Jobs'[o].state = "awaiting" => Pending(calls', o)
      /\ \A k \in DOMAIN edges_to[o] : Pending(calls', edges_to[o][k])
      /\ \A k \in DOMAIN rest : \E j \in DOMAIN calls' : calls'[j] = rest[k]
  BY <1>0, SettleStep, ZenonT(90)
<1>2. ASSUME NEW k \in DOMAIN calls, calls[k].fn # "start"
      PROVE  \E j \in DOMAIN calls' : calls'[j] = calls[k]
  BY <1>1, <1>2
<1>3. ASSUME NEW p \in Objects, HasJob(Jobs', p), Jobs'[p].id = -1
      PROVE  LeafPending(calls', p)
  <2>1. HasJob(Jobs, p) /\ Jobs[p].id = -1
    BY <1>1, <1>3 DEF HasJob
  <2>2. LeafPending(calls, p)
    BY <2>1 DEF SchedInv, IdInv
  <2> QED BY <1>2, <2>2 DEF LeafPending
<1>4. ASSUME NEW p \in Objects, job_runnable(Jobs, p)'
      PROVE  Running(p)' \/ Pending(calls', p)
  <2>1. job_runnable(Jobs', p)
    BY <1>4 DEF job_runnable, HasJob, after_order
  <2>2. CASE p = o
    BY <1>1, <2>1, <2>2 DEF job_runnable
  <2>3. CASE p # o /\ job_runnable(Jobs, p)
    <3>1. CASE Pending(calls, p)
      BY <1>2, <3>1 DEF Pending
    <3>2. CASE Running(p)
      <4>1. Jobs[p].id # id
        BY <2>3, <3>2 DEF Running
      <4> QED BY <1>1, <3>2, <4>1 DEF Running
    <3> QED BY <2>3, <3>1, <3>2 DEF SchedInv, WakeupInv
  <2>4. CASE p # o /\ ~job_runnable(Jobs, p)
    <3>1. HasJob(Jobs, p) /\ Jobs[p].state = "awaiting"
      BY <1>1, <2>1, <2>4 DEF job_runnable, HasJob
    <3>2. PICK q \in edges[p] : /\ HasJob(Jobs, q) /\ after_order(Jobs[q]) = 1
                                /\ Jobs[q].state # "success"
      BY <2>4, <3>1 DEF job_runnable
    <3>3. q \in Objects
      BY DEF SchedInv, TypeOK
    <3>4. q = o
      BY <1>1, <2>1, <3>2, <3>3 DEF job_runnable, HasJob, after_order
    <3>5. \E k \in DOMAIN edges_to[o] : edges_to[o][k] = p
      BY <1>1, <3>4 DEF SchedInv, MirrorInv
    <3> QED BY <1>1, <3>5
  <2> QED BY <2>2, <2>3, <2>4
<1> QED BY <1>3, <1>4 DEF WakeupInv

-----------------------------------------------------------------------------
(* The inductive invariant                                                 *)

(* A scheduler without transactions satisfies the invariant. *)
LEMMA InitInv == Init => SchedInv
<1> SUFFICES ASSUME Init PROVE SchedInv
  OBVIOUS
<1>1. PICK g \in OrderGraphs : edges = g.edges /\ edges_to = g.edges_to
  BY DEF Init
<1>2. /\ edges \in [Objects -> SUBSET Objects]
      /\ edges_to \in [Objects -> Seq(Objects)]
      /\ MirrorInv
  BY <1>1, GraphAssumption DEF MirrorInv
<1>3. Evloop_TypeOK
  BY DEF Init, Evloop_Init, Evloop_TypeOK
<1>4. /\ transactions = << >> /\ calls = << >> /\ asked = {}
      /\ transactions \in Seq([Objects -> Job]) /\ calls \in Seq(Turn)
      /\ last_jobid \in Nat /\ crashed \in BOOLEAN
      /\ starts \in [Objects -> Seq(JobTypes)]
      /\ DOMAIN running_jobs = {}
      /\ running_jobs \in [DOMAIN running_jobs -> Objects]
  BY EmptySeq DEF Init
<1>5. TypeOK
  BY <1>2, <1>3, <1>4 DEF TypeOK
<1> QED BY <1>2, <1>4, <1>5 DEF SchedInv, IdInv, WakeupInv

(* tx_enqueue() puts a leaf turn on the stack for every job of the front transaction. *)
LEMMA EnqueueInv ==
    ASSUME SchedInv, NEW spec \in TxSpecs, tx_enqueue(spec)
    PROVE  SchedInv'
<1> DEFINE tx == [o \in Objects |-> NewJob(spec[o])]
<1>1. /\ TypeOK /\ MirrorInv
      /\ calls = << >> /\ ~crashed
      /\ transactions' = Append(transactions, tx)
      /\ calls' = Turns("leaf", Order)
      /\ UNCHANGED evloop_vars
      /\ UNCHANGED <<edges, edges_to, running_jobs, last_jobid, asked, crashed, starts>>
  BY DEF SchedInv, tx_enqueue, InEventLoop
<1>2. /\ tx \in [Objects -> Job]
      /\ \A o \in Objects : tx[o].id = -1
  BY JobSchedAssumption DEF NewJob, Job, States
<1> HIDE DEF tx
<1>3. /\ transactions' \in Seq([Objects -> Job])
      /\ Len(transactions') = Len(transactions) + 1
      /\ \A i \in 1 .. Len(transactions) : transactions'[i] = transactions[i]
      /\ transactions'[Len(transactions) + 1] = tx
      /\ Len(transactions) \in Nat
  BY <1>1, <1>2, AppendProperties, LenProperties DEF TypeOK
<1>4. transactions' # << >>
  BY <1>3, EmptySeq
<1>5. /\ Order \in Seq(Objects)
      /\ calls' \in Seq(Turn)
      /\ DOMAIN calls' = DOMAIN Order
      /\ \A k \in DOMAIN Order : calls'[k] = [fn |-> "leaf", o |-> Order[k]]
  BY <1>1, JobSchedAssumption, TurnsType
<1>6. \A o \in Objects : LeafPending(calls', o) /\ Pending(calls', o)
  BY <1>5, JobSchedAssumption DEF LeafPending, Pending
<1>7. TypeOK'
  BY <1>1, <1>3, <1>4, <1>5, TimerSteps DEF TypeOK
<1>8. IdInv'
  <2>1. CASE transactions = << >>
    <3>1. Jobs' = tx
      BY <1>3, <2>1, EmptySeq DEF Jobs
    <3> QED BY <1>1, <1>2, <1>6, <3>1 DEF IdInv, TypeOK
  <2>2. CASE transactions # << >>
    <3>1. Jobs' = Jobs
      BY <1>1, <1>3, <2>2, EmptySeq DEF Jobs, TypeOK
    <3> QED BY <1>1, <1>6, <2>2, <3>1 DEF IdInv, SchedInv, HasJob
  <2> QED BY <2>1, <2>2
<1>9. WakeupInv'
  BY <1>6 DEF WakeupInv
<1>10. MirrorInv'
  BY <1>1 DEF MirrorInv
<1> QED BY <1>7, <1>8, <1>9, <1>10 DEF SchedInv

(* A turn of tx_enqueue_leaves() gives the job a fresh id, and runs it if runnable. *)
LEMMA LeavesInv ==
    ASSUME SchedInv, tx_enqueue_leaves
    PROVE  SchedInv'
<1>1. PICK o : o = Head(calls).o
  OBVIOUS
<1> DEFINE new == HasJob(Jobs, o) /\ Jobs[o].id = -1
           jobs == [Jobs EXCEPT ![o].id = IF new THEN last_jobid ELSE @]
<1>2. /\ calls # << >> /\ Head(calls).fn = "leaf"
      /\ last_jobid' = IF new THEN last_jobid + 1 ELSE last_jobid
      /\ RunIfRunnable(jobs, o, Tail(calls))
      /\ UNCHANGED <<edges, edges_to, asked, crashed>>
  BY <1>1 DEF tx_enqueue_leaves, NextTurn
<1>3. /\ TypeOK /\ MirrorInv /\ IdInv
      /\ transactions # << >>
      /\ Head(calls) = [fn |-> "leaf", o |-> o]
      /\ o \in Objects
      /\ Tail(calls) \in Seq(Turn)
      /\ Jobs \in [Objects -> Job]
  <2>1. TypeOK /\ MirrorInv /\ IdInv
    BY DEF SchedInv
  <2>2. /\ transactions # << >> /\ o \in Objects /\ Tail(calls) \in Seq(Turn)
        /\ Head(calls) \in Turn
    BY <1>1, <1>2, <2>1, HeadTurn
  <2>3. Jobs \in [Objects -> Job]
    BY <2>1, <2>2, WithFrontType DEF TypeOK, Jobs
  <2> QED BY <1>1, <1>2, <2>1, <2>2, <2>3 DEF Turn
<1>4. last_jobid \in Nat /\ \A p \in Objects : Jobs[p].id \in -1 .. (last_jobid - 1)
  BY <1>3 DEF TypeOK, IdInv
<1>5. /\ jobs \in [Objects -> Job]
      /\ \A p \in Objects : jobs[p].type = Jobs[p].type /\ jobs[p].state = Jobs[p].state
      /\ \A p \in Objects \ {o} : jobs[p].id = Jobs[p].id
      /\ jobs[o].id = IF new THEN last_jobid ELSE Jobs[o].id
  BY <1>3, <1>4 DEF Job
<1> HIDE DEF jobs
<1>6. \A p \in Objects \ {o} : jobs[o].id # -1 => jobs[p].id # jobs[o].id
  BY <1>3, <1>4, <1>5 DEF IdInv
<1>7. HasJob(jobs, o) => jobs[o].id # -1
  BY <1>3, <1>4, <1>5 DEF HasJob
<1>8. /\ WakeupInv'
      /\ \A p \in Objects : HasJob(Jobs', p) /\ Jobs'[p].id = -1 => LeafPending(calls', p)
  BY <1>1, <1>2, <1>5, <1>6, <1>7, RunKeepsWakeups
<1>9. /\ Evloop_TypeOK'
      /\ transactions' \in Seq([Objects -> Job])
      /\ transactions' # << >>
      /\ DOMAIN running_jobs' \subseteq Int
      /\ running_jobs' \in [DOMAIN running_jobs' -> Objects]
      /\ calls' \in Seq(Turn)
      /\ starts' \in [Objects -> Seq(JobTypes)]
      /\ \A p \in Objects : Jobs'[p].id = jobs[p].id
  BY <1>2, <1>3, <1>5, RunStep, SMTT(30), ZenonT(30)
<1>10. TypeOK'
  BY <1>2, <1>3, <1>4, <1>9, SMTT(30), ZenonT(30) DEF TypeOK
<1>11. IdInv'
  <2>1. ASSUME NEW p \in Objects PROVE Jobs'[p].id \in -1 .. (last_jobid' - 1)
    <3>1. Jobs'[p].id = jobs[p].id
      BY <1>9
    <3>2. CASE p = o /\ new
      BY <1>2, <1>4, <1>5, <3>1, <3>2
    <3>3. CASE p = o /\ ~new
      BY <1>2, <1>4, <1>5, <3>1, <3>3
    <3>4. CASE p # o
      <4>1. Jobs'[p].id = Jobs[p].id
        BY <1>5, <3>1, <3>4
      <4>2. last_jobid' \in {last_jobid, last_jobid + 1}
        BY <1>2
      <4> QED BY <1>4, <4>1, <4>2
    <3> QED BY <3>2, <3>3, <3>4
  <2>2. ASSUME NEW p \in Objects, NEW q \in Objects,
               Jobs'[p].id = Jobs'[q].id, Jobs'[p].id # -1
        PROVE  p = q
    <3>1. jobs[p].id = jobs[q].id /\ jobs[p].id # -1
      BY <1>9, <2>2
    <3>2. CASE p = o \/ q = o
      BY <1>6, <3>1, <3>2
    <3>3. CASE p # o /\ q # o
      <4>1. Jobs[p].id = Jobs[q].id /\ Jobs[p].id # -1
        BY <1>5, <3>1, <3>3
      <4> QED BY <1>3, <4>1 DEF IdInv
    <3> QED BY <3>2, <3>3
  <2> QED BY <1>8, <2>1, <2>2 DEF IdInv
<1>12. MirrorInv'
  BY <1>2, <1>3 DEF MirrorInv
<1> QED BY <1>8, <1>10, <1>11, <1>12 DEF SchedInv

(* A turn of the loop at start_others runs its job if runnable. *)
LEMMA OthersInv ==
    ASSUME SchedInv, start_others
    PROVE  SchedInv'
<1>1. PICK o : o = Head(calls).o
  OBVIOUS
<1>2. /\ calls # << >> /\ Head(calls).fn = "other"
      /\ RunIfRunnable(Jobs, o, Tail(calls))
      /\ UNCHANGED <<edges, edges_to, last_jobid, asked, crashed>>
  BY <1>1 DEF start_others, NextTurn
<1>3. /\ TypeOK /\ MirrorInv /\ IdInv
      /\ transactions # << >>
      /\ Head(calls) # [fn |-> "leaf", o |-> o]
      /\ o \in Objects
      /\ Tail(calls) \in Seq(Turn)
      /\ Jobs \in [Objects -> Job]
  <2>1. TypeOK /\ MirrorInv /\ IdInv
    BY DEF SchedInv
  <2>2. transactions # << >> /\ o \in Objects /\ Tail(calls) \in Seq(Turn)
    BY <1>1, <1>2, <2>1, HeadTurn
  <2>3. Jobs \in [Objects -> Job]
    BY <2>1, <2>2, WithFrontType DEF TypeOK, Jobs
  <2> QED BY <1>2, <2>1, <2>2, <2>3
<1>4. \A p \in Objects \ {o} : Jobs[o].id # -1 => Jobs[p].id # Jobs[o].id
  BY <1>3 DEF IdInv
<1> DEFINE jobs == Jobs
<1>5. /\ RunIfRunnable(jobs, o, Tail(calls))
      /\ jobs \in [Objects -> Job]
      /\ \A p \in Objects : /\ jobs[p].type = Jobs[p].type
                            /\ jobs[p].state = Jobs[p].state
                            /\ jobs[p].id = Jobs[p].id
      /\ \A p \in Objects \ {o} : jobs[o].id # -1 => jobs[p].id # jobs[o].id
  BY <1>2, <1>3, <1>4
<1> HIDE DEF jobs
<1>6. /\ WakeupInv'
      /\ \A p \in Objects : HasJob(Jobs', p) /\ Jobs'[p].id = -1 => LeafPending(calls', p)
  BY <1>1, <1>2, <1>3, <1>5, RunKeepsWakeups
<1>7. /\ Evloop_TypeOK'
      /\ transactions' \in Seq([Objects -> Job])
      /\ transactions' # << >>
      /\ DOMAIN running_jobs' \subseteq Int
      /\ running_jobs' \in [DOMAIN running_jobs' -> Objects]
      /\ calls' \in Seq(Turn)
      /\ starts' \in [Objects -> Seq(JobTypes)]
      /\ \A p \in Objects : Jobs'[p].id = jobs[p].id
  BY <1>3, <1>5, RunStep, SMTT(30), ZenonT(30)
<1>8. TypeOK'
  BY <1>2, <1>3, <1>7 DEF TypeOK
<1>9. IdInv'
  <2>1. \A p \in Objects : Jobs'[p].id = Jobs[p].id
    BY <1>5, <1>7
  <2> QED BY <1>2, <1>3, <1>6, <2>1 DEF IdInv
<1>10. MirrorInv'
  BY <1>2, <1>3 DEF MirrorInv
<1> QED BY <1>6, <1>8, <1>9, <1>10 DEF SchedInv

(* The common part of the three ways a running job comes to its end. *)
LEMMA SettleInv ==
    ASSUME SchedInv, transactions # << >>, NEW id \in DOMAIN running_jobs,
           NEW jobs \in [Objects -> Job], NEW rest \in Seq(Turn),
           NEW res \in States \ {"awaiting"},
           \A p \in Objects : /\ jobs[p].type = Jobs[p].type
                              /\ jobs[p].state = Jobs[p].state
                              /\ jobs[p].id = Jobs[p].id,
           \A k \in DOMAIN calls :
               calls[k].fn # "start" => \E j \in DOMAIN rest : rest[j] = calls[k],
           Settle(jobs, id, res, rest),
           Evloop_TypeOK',
           asked' \subseteq Int \X Nat,
           UNCHANGED <<edges, edges_to, last_jobid, crashed, starts>>
    PROVE  SchedInv'
<1>1. TypeOK /\ MirrorInv /\ IdInv
  BY DEF SchedInv
<1>2. PICK o \in Objects : o = running_jobs[id]
  BY <1>1 DEF TypeOK
<1>3. /\ transactions' \in Seq([Objects -> Job])
      /\ transactions' # << >>
      /\ DOMAIN running_jobs' = DOMAIN running_jobs \ {id}
      /\ running_jobs' \in [DOMAIN running_jobs' -> Objects]
      /\ calls' \in Seq(Turn)
      /\ \A p \in Objects : Jobs'[p].id = jobs[p].id
  BY <1>1, <1>2, SettleStep
<1>4. /\ WakeupInv'
      /\ \A p \in Objects : HasJob(Jobs', p) /\ Jobs'[p].id = -1 => LeafPending(calls', p)
  BY SettleKeepsWakeups
<1>5. TypeOK'
  BY <1>1, <1>3 DEF TypeOK
<1>6. IdInv'
  <2>1. \A p \in Objects : Jobs'[p].id = Jobs[p].id
    BY <1>3
  <2> QED BY <1>1, <1>4, <2>1 DEF IdInv
<1>7. MirrorInv'
  BY <1>1 DEF MirrorInv
<1> QED BY <1>4, <1>5, <1>6, <1>7 DEF SchedInv

(* job_complete(), called from start() or from JavaScript. *)
LEMMA CompleteInv ==
    ASSUME SchedInv, transactions # << >>, NEW id \in Int, NEW rest \in Seq(Turn),
           NEW res \in Results,
           \A k \in DOMAIN calls :
               calls[k].fn # "start" => \E j \in DOMAIN rest : rest[j] = calls[k],
           job_complete(id, res, rest),
           asked' \subseteq Int \X Nat,
           UNCHANGED <<edges, edges_to, last_jobid, starts>>
    PROVE  SchedInv'
<1>1. TypeOK
  BY DEF SchedInv
<1>2. CASE id \in DOMAIN running_jobs
  <2>1. /\ Settle(Jobs, id, res, rest)
        /\ UNCHANGED crashed
        /\ \/ del_timer(Jobs[running_jobs[id]].timer)
           \/ UNCHANGED evloop_vars
    BY <1>2 DEF job_complete
  <2>2. Evloop_TypeOK'
    <3>1. Evloop_TypeOK
      BY <1>1 DEF TypeOK
    <3>2. CASE del_timer(Jobs[running_jobs[id]].timer)
      BY <3>1, <3>2, TimerSteps
    <3>3. CASE UNCHANGED evloop_vars
      BY <3>1, <3>3, TimerSteps
    <3> QED BY <2>1, <3>2, <3>3
  <2>3. Jobs \in [Objects -> Job]
    BY <1>1, WithFrontType DEF TypeOK, Jobs
  <2>4. res \in States \ {"awaiting"}
    BY JobSchedAssumption
  <2> QED BY <1>2, <2>1, <2>2, <2>3, <2>4, SettleInv
<1>3. CASE id \notin DOMAIN running_jobs
  <2>1. /\ crashed' = TRUE
        /\ UNCHANGED evloop_vars
        /\ UNCHANGED <<transactions, running_jobs, calls>>
    BY <1>3 DEF job_complete
  <2>2. TypeOK'
    BY <1>1, <2>1, TimerSteps DEF TypeOK
  <2> QED BY <2>1, <2>2 DEF SchedInv, MirrorInv, IdInv, WakeupInv, Jobs, HasJob,
             LeafPending, Pending, Running, job_runnable, after_order
<1> QED BY <1>2, <1>3

(* Once the next turn is a start() call, all pending turns are behind it. *)
LEMMA BehindStart ==
    ASSUME SchedInv, NextTurn("start")
    PROVE  /\ TypeOK
           /\ transactions # << >>
           /\ Head(calls).o \in Objects
           /\ Tail(calls) \in Seq(Turn)
           /\ Jobs \in [Objects -> Job]
           /\ \A k \in DOMAIN calls :
                 calls[k].fn # "start" => \E j \in DOMAIN Tail(calls) : Tail(calls)[j] = calls[k]
<1>1. TypeOK /\ calls # << >> /\ Head(calls).fn = "start"
  BY DEF SchedInv, NextTurn
<1>2. /\ transactions # << >> /\ Head(calls).o \in Objects /\ Tail(calls) \in Seq(Turn)
      /\ \A k \in DOMAIN calls : calls[k] = Head(calls)
            \/ \E j \in DOMAIN Tail(calls) : Tail(calls)[j] = calls[k]
  BY <1>1, HeadTurn
<1>3. Jobs \in [Objects -> Job]
  BY <1>1, <1>2, WithFrontType DEF TypeOK, Jobs
<1> QED BY <1>1, <1>2, <1>3

(* start() answers before it returns. *)
LEMMA AnswersInv ==
    ASSUME SchedInv, NEW res \in Results, start_answers(res)
    PROVE  SchedInv'
<1>1. NextTurn("start")
  BY DEF start_answers
<1>2. PICK id : id = Jobs[Head(calls).o].id
  OBVIOUS
<1>3. id \in Int
  BY <1>1, <1>2, BehindStart DEF Job
<1>4. /\ job_complete(id, res, Tail(calls))
      /\ UNCHANGED <<edges, edges_to, last_jobid, asked, starts>>
  BY <1>2 DEF start_answers
<1>5. asked' \subseteq Int \X Nat
  BY <1>4 DEF SchedInv, TypeOK
<1> QED BY <1>1, <1>3, <1>4, <1>5, BehindStart, CompleteInv

(* start() returns and leaves the answer for later. *)
LEMMA ReturnsInv ==
    ASSUME SchedInv, start_returns
    PROVE  SchedInv'
<1>1. /\ NextTurn("start")
      /\ asked' = asked \cup {<<Jobs[Head(calls).o].id, Len(starts[Head(calls).o])>>}
      /\ calls' = Tail(calls)
      /\ UNCHANGED evloop_vars
      /\ UNCHANGED <<edges, edges_to, transactions, running_jobs, last_jobid, crashed, starts>>
  BY DEF start_returns
<1>2. /\ TypeOK
      /\ transactions # << >>
      /\ Head(calls).o \in Objects
      /\ calls' \in Seq(Turn)
      /\ Jobs \in [Objects -> Job]
      /\ \A k \in DOMAIN calls :
            calls[k].fn # "start" => \E j \in DOMAIN calls' : calls'[j] = calls[k]
  BY <1>1, BehindStart
<1>3. asked' \subseteq Int \X Nat
  <2>1. Jobs[Head(calls).o].id \in Int
    BY <1>2 DEF Job
  <2>2. Len(starts[Head(calls).o]) \in Nat
    BY <1>2, LenProperties DEF TypeOK
  <2> QED BY <1>1, <1>2, <2>1, <2>2 DEF TypeOK
<1>4. TypeOK'
  BY <1>1, <1>2, <1>3, TimerSteps DEF TypeOK
<1>5. \A o \in Objects : /\ Pending(calls, o) => Pending(calls', o)
                         /\ LeafPending(calls, o) => LeafPending(calls', o)
  BY <1>2 DEF Pending, LeafPending
<1>6. IdInv'
  BY <1>1, <1>2, <1>5 DEF SchedInv, IdInv, Jobs, HasJob
<1>7. WakeupInv'
  BY <1>1, <1>2, <1>5 DEF SchedInv, WakeupInv, Jobs, HasJob, job_runnable, after_order, Running
<1> QED BY <1>1, <1>4, <1>6, <1>7 DEF SchedInv, MirrorInv

(* JavaScript answers, in time or late. *)
LEMMA JsCompleteInv ==
    ASSUME SchedInv, NEW a \in asked, NEW res \in Results, jobComplete(a, res)
    PROVE  SchedInv'
<1>1. /\ calls = << >>
      /\ asked' = asked \ {a}
      /\ job_complete(a[1], res, << >>)
      /\ UNCHANGED <<edges, edges_to, last_jobid, starts>>
  BY DEF jobComplete, InEventLoop
<1>2. TypeOK
  BY DEF SchedInv
<1>3. a[1] \in Int /\ asked' \subseteq Int \X Nat
  BY <1>1, <1>2 DEF TypeOK
<1>4. << >> \in Seq(Turn) /\ DOMAIN calls = {}
  BY <1>1
<1>5. CASE transactions # << >>
  BY <1>1, <1>3, <1>4, <1>5, CompleteInv
<1>6. CASE transactions = << >>
  <2>1. /\ a[1] \notin DOMAIN running_jobs
        /\ crashed' = TRUE
        /\ UNCHANGED evloop_vars
        /\ UNCHANGED <<transactions, running_jobs, calls>>
    BY <1>1, <1>2, <1>6 DEF TypeOK, job_complete
  <2>2. TypeOK'
    BY <1>1, <1>2, <1>3, <2>1, TimerSteps DEF TypeOK
  <2> QED BY <1>1, <1>6, <2>1, <2>2 DEF SchedInv, MirrorInv, IdInv, WakeupInv
<1> QED BY <1>5, <1>6

(* A timer elapses, that of a running job or a leaked one. *)
LEMMA TimeoutInv ==
    ASSUME SchedInv, NEW t \in timerid_t, job_timeout_cb(t)
    PROVE  SchedInv'
<1>1. /\ calls = << >>
      /\ handle_timer(t)
      /\ UNCHANGED <<edges, edges_to, last_jobid, asked, starts>>
  BY DEF job_timeout_cb, InEventLoop
<1>2. TypeOK
  BY DEF SchedInv
<1>3. Evloop_TypeOK'
  BY <1>1, <1>2 DEF TypeOK, Evloop_TypeOK, handle_timer
<1>4. PICK jid : jid = m_timers[t]
  OBVIOUS
<1>5. CASE jid \in DOMAIN running_jobs
  <2> DEFINE o == running_jobs[jid]
             jobs == [Jobs EXCEPT ![o].timer = 0]
  <2>1. transactions # << >>
    BY <1>2, <1>5 DEF TypeOK
  <2>2. Jobs \in [Objects -> Job] /\ o \in Objects
    BY <1>2, <1>5, <2>1, WithFrontType DEF TypeOK, Jobs
  <2>3. /\ jobs \in [Objects -> Job]
        /\ \A p \in Objects : /\ jobs[p].type = Jobs[p].type
                              /\ jobs[p].state = Jobs[p].state
                              /\ jobs[p].id = Jobs[p].id
    BY <2>2 DEF Job
  <2>4. Settle(jobs, jid, "timeout", << >>) /\ UNCHANGED crashed
    BY <1>4, <1>5 DEF job_timeout_cb
  <2>5. "timeout" \in States \ {"awaiting"}
    BY DEF States
  <2>6. << >> \in Seq(Turn) /\ DOMAIN calls = {}
    BY <1>1
  <2>7. asked' \subseteq Int \X Nat
    BY <1>1, <1>2 DEF TypeOK
  <2> HIDE DEF jobs, o
  <2> QED BY <1>1, <1>3, <1>5, <2>1, <2>3, <2>4, <2>5, <2>6, <2>7, SettleInv
<1>6. CASE jid \notin DOMAIN running_jobs
  <2>1. crashed' = TRUE /\ UNCHANGED <<transactions, running_jobs, calls>>
    BY <1>4, <1>6 DEF job_timeout_cb
  <2>2. TypeOK'
    BY <1>1, <1>2, <1>3, <2>1 DEF TypeOK
  <2> QED BY <1>1, <2>1, <2>2 DEF SchedInv, MirrorInv, IdInv, WakeupInv, Jobs, HasJob,
             LeafPending, Pending, Running, job_runnable, after_order
<1> QED BY <1>5, <1>6

(* A step that changes nothing. *)
LEMMA StutterInv ==
    ASSUME SchedInv, UNCHANGED vars
    PROVE  SchedInv'
<1>1. /\ UNCHANGED <<edges, edges_to, transactions, running_jobs, last_jobid, calls,
                     asked, crashed, starts>>
      /\ UNCHANGED evloop_vars
  BY DEF vars, sched_vars
<1>2. TypeOK'
  BY <1>1, TimerSteps DEF SchedInv, TypeOK
<1> QED BY <1>1, <1>2 DEF SchedInv, MirrorInv, IdInv, WakeupInv, Jobs, HasJob,
           LeafPending, Pending, Running, job_runnable, after_order

(* Every step keeps the inductive invariant. *)
LEMMA SchedStays ==
    ASSUME SchedInv, [Next]_vars
    PROVE  SchedInv'
<1>1. ASSUME NEW spec \in TxSpecs, tx_enqueue(spec) PROVE SchedInv'
  BY <1>1, EnqueueInv
<1>2. CASE tx_enqueue_leaves
  BY <1>2, LeavesInv
<1>3. CASE start_others
  BY <1>3, OthersInv
<1>4. ASSUME NEW res \in Results, start_answers(res) PROVE SchedInv'
  BY <1>4, AnswersInv
<1>5. CASE start_returns
  BY <1>5, ReturnsInv
<1>6. ASSUME NEW a \in asked, NEW res \in Results, jobComplete(a, res) PROVE SchedInv'
  BY <1>6, JsCompleteInv
<1>7. ASSUME NEW t \in timerid_t, job_timeout_cb(t) PROVE SchedInv'
  BY <1>7, TimeoutInv
<1>8. CASE Idle \/ UNCHANGED vars
  BY <1>8, StutterInv DEF Idle
<1> QED BY <1>1, <1>2, <1>3, <1>4, <1>5, <1>6, <1>7, <1>8 DEF Next, MakeTurn

(***************************************************************************)
(* The inductive invariant holds in every reachable state, for every       *)
(* restarter: the types of the scheduler's state, mirrored order edges,    *)
(* unique assigned ids, and a turn pending for every runnable job that is  *)
(* not running.                                                            *)
(***************************************************************************)
THEOREM SchedInvariant == Spec => []SchedInv
BY InitInv, SchedStays, PTL DEF Spec

(* The scheduler's state keeps its types, freed Timers included. *)
THEOREM TypeCorrect == Spec => []TypeOK
<1>1. SchedInv => TypeOK
  BY DEF SchedInv
<1> QED BY <1>1, SchedInvariant, PTL

(***************************************************************************)
(* Whenever the program is back in the event loop, every job that          *)
(* job_runnable() would let run is in running_jobs: for every order graph, *)
(* transaction and restarter, timeouts and second transactions included.   *)
(***************************************************************************)
THEOREM NoWakeupLost == Spec => []NoLostWakeup
<1>1. SchedInv => NoLostWakeup
  BY DEF SchedInv, WakeupInv, NoLostWakeup, InEventLoop, Pending
<1> QED BY <1>1, SchedInvariant, PTL
=============================================================================
