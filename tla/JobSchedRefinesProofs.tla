----------------------- MODULE JobSchedRefinesProofs ------------------------
(***************************************************************************)
(* Proofs about JobSched with one kind of restarter: those that answer     *)
(* within start(), as TargetRestarter does, or those that answer later.    *)
(* What is running is timed, only a job started twice leaves a timer       *)
(* behind, and JobOrder is implemented.  With restarters that answer       *)
(* within start() no job is started twice, and a transaction of acyclic    *)
(* order is carried out by tx_enqueue() itself.                            *)
(***************************************************************************)
EXTENDS JobSchedRefines, JobSchedProofs, ListsProofs

(* The restarters are of one kind. *)
OneKind == ~({"within", "later"} \subseteq Answers)

-----------------------------------------------------------------------------
(* The inductive invariant                                                 *)

(***************************************************************************)
(* An entry of running_jobs is under the id of its job, for which start()  *)
(* has been called, and which has an armed timer that carries that id.     *)
(***************************************************************************)
Entry(id) ==
    LET o == running_jobs[id]
    IN  /\ Jobs[o].id = id
        /\ HasJob(Jobs, o)
        /\ Jobs[o].state = "awaiting"
        /\ Begun(o)
        /\ Jobs[o].timer \in kq
        /\ m_timers[Jobs[o].timer] = id

EntryInv == \A id \in DOMAIN running_jobs : Entry(id)

(* An armed timer is that of a running job, or of a job started twice. *)
Owns(o, t) ==
    /\ Jobs[o].id = m_timers[t]
    /\ (Running(o) /\ Jobs[o].timer = t) \/ ~IsInjective(starts[o])

TimerInv == \A t \in kq : \E o \in Objects : Owns(o, t)

(* Nothing has happened before the first transaction. *)
BlankInv ==
    transactions = << >> => kq = {} /\ DOMAIN m_timers = {} /\ \A o \in Objects : starts[o] = << >>

(***************************************************************************)
(* With answers that come later nothing runs under the id -1: all jobs of  *)
(* the front transaction have ids when the first completion makes turns.   *)
(***************************************************************************)
LaterInv ==
    "within" \notin Answers =>
        /\ -1 \notin DOMAIN running_jobs
        /\ \A t \in kq : m_timers[t] # -1
        /\ \/ \A k \in DOMAIN calls : calls[k].fn # "leaf"
           \/ \A k \in DOMAIN calls : calls[k].fn # "other"

(***************************************************************************)
(* With answers within start() the job in the call of start() is the only  *)
(* one that runs, and the only one with a timer.                           *)
(***************************************************************************)
InStart(o) == calls # << >> /\ Head(calls) = [fn |-> "start", o |-> o]

(* The calls of start() for the job of o so far: one for each of its types. *)
StartsOf(o) ==
    \/ starts[o] = << >>
    \/ starts[o] = <<Jobs[o].type>>
    \/ starts[o] = <<"restart">> /\ Jobs[o].type = "start"
    \/ starts[o] = <<"restart", "start">> /\ Jobs[o].type = "start"

WithinInv ==
    "later" \notin Answers =>
        /\ ~crashed /\ asked = {}
        /\ \A k \in DOMAIN calls : calls[k].fn = "start" => k = 1
        /\ \A o \in Objects : InStart(o) => Running(o)
        /\ \A id \in DOMAIN running_jobs : InStart(running_jobs[id])
        /\ \A t \in DOMAIN m_timers : \E id \in DOMAIN running_jobs : Jobs[running_jobs[id]].timer = t
        /\ transactions # << >> => \A o \in Objects :
              StartsOf(o) /\ (Begun(o) /\ Jobs[o].state = "awaiting" => InStart(o))

RunInv ==
    /\ SchedInv
    /\ EntryInv
    /\ TimerInv
    /\ BlankInv
    /\ LaterInv
    /\ WithinInv

-----------------------------------------------------------------------------
(* Facts: what the building blocks of the actions do, exactly              *)

(* The turns of job_run(): the call of start(), then those of the callers. *)
LEMMA StartTurns ==
    ASSUME NEW o \in Objects, NEW rest \in Seq(Turn), NEW turns,
           turns = <<[fn |-> "start", o |-> o]>> \o rest
    PROVE  /\ turns # << >>
           /\ Head(turns) = [fn |-> "start", o |-> o]
           /\ Tail(turns) = rest
           /\ 1 \in DOMAIN turns /\ turns[1] = [fn |-> "start", o |-> o]
           /\ \A k \in DOMAIN turns : k = 1 \/ (k - 1 \in DOMAIN rest /\ turns[k] = rest[k - 1])
<1> DEFINE start == <<[fn |-> "start", o |-> o]>>
<1>1. start \in Seq(Turn) /\ Len(start) = 1 /\ start[1] = [fn |-> "start", o |-> o]
  BY DEF Turn
<1> HIDE DEF start
<1>2. /\ turns \in Seq(Turn)
      /\ Len(turns) = 1 + Len(rest)
      /\ \A i \in 1 .. 1 + Len(rest) : turns[i] = IF i <= 1 THEN start[i] ELSE rest[i - 1]
  BY <1>1, ConcatProperties DEF start
<1>3. DOMAIN turns = 1 .. 1 + Len(rest) /\ DOMAIN rest = 1 .. Len(rest) /\ Len(rest) \in Nat
  BY <1>2, LenProperties
<1>4. turns # << >> /\ turns[1] = [fn |-> "start", o |-> o] /\ 1 \in DOMAIN turns
  BY <1>1, <1>2, <1>3, EmptySeq
<1>5. /\ Head(turns) = turns[1]
      /\ Tail(turns) \in Seq(Turn)
      /\ Len(Tail(turns)) = Len(rest)
      /\ \A i \in 1 .. Len(rest) : Tail(turns)[i] = turns[i + 1]
  BY <1>2, <1>3, <1>4, HeadTailProperties
<1>6. \A i \in 1 .. Len(rest) : Tail(turns)[i] = rest[i]
  BY <1>2, <1>3, <1>5
<1>7. Tail(turns) = rest
  BY <1>3, <1>5, <1>6, SeqEqual
<1>8. \A k \in DOMAIN turns : k = 1 \/ (k - 1 \in DOMAIN rest /\ turns[k] = rest[k - 1])
  BY <1>2, <1>3
<1> QED BY <1>4, <1>5, <1>7, <1>8

(* job_run() of the job of o with the timer t. *)
Ran(jobs, o, rest, t) ==
    /\ t \in timerid_t \ DOMAIN m_timers
    /\ DOMAIN m_timers' = DOMAIN m_timers \cup {t}
    /\ m_timers'[t] = jobs[o].id
    /\ \A u \in DOMAIN m_timers : m_timers'[u] = m_timers[u]
    /\ kq' = kq \cup {t}
    /\ transactions' # << >>
    /\ \A p \in Objects : p # o => Jobs'[p] = jobs[p]
    /\ Jobs'[o].type = jobs[o].type
    /\ Jobs'[o].state = jobs[o].state
    /\ Jobs'[o].id = jobs[o].id
    /\ Jobs'[o].timer = t
    /\ DOMAIN running_jobs' = DOMAIN running_jobs \cup {jobs[o].id}
    /\ running_jobs'[jobs[o].id] = o
    /\ \A id \in DOMAIN running_jobs : id # jobs[o].id => running_jobs'[id] = running_jobs[id]
    /\ calls' # << >>
    /\ Head(calls') = [fn |-> "start", o |-> o]
    /\ \A k \in DOMAIN calls' : k = 1 \/ (k - 1 \in DOMAIN rest /\ calls'[k] = rest[k - 1])
    /\ \A p \in Objects : p # o => starts'[p] = starts[p]
    /\ starts'[o] = Append(starts[o], jobs[o].type)

(* job_run() has no other effect than that. *)
LEMMA RunEffect ==
    ASSUME TypeOK, transactions # << >>, NEW o \in Objects,
           NEW jobs \in [Objects -> Job], NEW rest \in Seq(Turn), job_run(jobs, o, rest)
    PROVE  \E t \in timerid_t : Ran(jobs, o, rest, t)
<1> DEFINE jobs2(t) == [jobs EXCEPT ![o].timer = t]
<1>1. PICK t \in timerid_t :
        /\ running_jobs' = [i \in DOMAIN running_jobs \cup {jobs[o].id} |->
                               IF i = jobs[o].id THEN o ELSE running_jobs[i]]
        /\ add_timer(t, jobs[o].id)
        /\ transactions' = WithFront(jobs2(t))
        /\ calls' = <<[fn |-> "start", o |-> o]>> \o rest
        /\ starts' = [starts EXCEPT ![o] = Append(@, jobs[o].type)]
  BY DEF job_run
<1>2. jobs2(t) \in [Objects -> Job]
  BY DEF Job
<1>3. /\ \A p \in Objects : p # o => jobs2(t)[p] = jobs[p]
      /\ jobs2(t)[o].type = jobs[o].type
      /\ jobs2(t)[o].state = jobs[o].state
      /\ jobs2(t)[o].id = jobs[o].id
      /\ jobs2(t)[o].timer = t
  BY DEF Job
<1> HIDE DEF jobs2
<1>4. transactions' # << >> /\ Jobs' = jobs2(t)
  BY <1>1, <1>2, WithFrontType DEF Jobs
<1>5. /\ t \in timerid_t \ DOMAIN m_timers
      /\ DOMAIN m_timers' = DOMAIN m_timers \cup {t}
      /\ m_timers'[t] = jobs[o].id
      /\ \A u \in DOMAIN m_timers : m_timers'[u] = m_timers[u]
      /\ kq' = kq \cup {t}
  BY <1>1, AddTimer
<1>6. /\ calls' # << >>
      /\ Head(calls') = [fn |-> "start", o |-> o]
      /\ \A k \in DOMAIN calls' : k = 1 \/ (k - 1 \in DOMAIN rest /\ calls'[k] = rest[k - 1])
  BY <1>1, StartTurns
<1>7. /\ \A p \in Objects : p # o => starts'[p] = starts[p]
      /\ starts'[o] = Append(starts[o], jobs[o].type)
  BY <1>1 DEF TypeOK
<1>8. /\ DOMAIN running_jobs' = DOMAIN running_jobs \cup {jobs[o].id}
      /\ running_jobs'[jobs[o].id] = o
      /\ \A id \in DOMAIN running_jobs : id # jobs[o].id => running_jobs'[id] = running_jobs[id]
  BY <1>1
<1> QED BY <1>3, <1>4, <1>5, <1>6, <1>7, <1>8 DEF Ran

(* The completion of the job of o, entered under id, with the result res. *)
Completed(jobs, id, o, res, rest) ==
    LET restarted == res = "success" /\ jobs[o].type = "restart"
    IN  /\ transactions' # << >>
        /\ \A p \in Objects : p # o => Jobs'[p] = jobs[p]
        /\ Jobs'[o].id = jobs[o].id
        /\ Jobs'[o].state = IF restarted THEN "awaiting" ELSE res
        /\ Jobs'[o].type = IF restarted THEN "start" ELSE jobs[o].type
        /\ DOMAIN running_jobs' = DOMAIN running_jobs \ {id}
        /\ \A i \in DOMAIN running_jobs' : running_jobs'[i] = running_jobs[i]
        /\ \A k \in DOMAIN calls' : calls'[k].fn = "other" \/ \E j \in DOMAIN rest : calls'[k] = rest[j]

(* The common end of job_complete() and job_timeout_cb() does just that. *)
LEMMA SettleEffect ==
    ASSUME TypeOK, transactions # << >>, NEW id \in DOMAIN running_jobs,
           NEW o \in Objects, o = running_jobs[id],
           NEW jobs \in [Objects -> Job], NEW rest \in Seq(Turn),
           NEW res \in States \ {"awaiting"},
           Settle(jobs, id, res, rest)
    PROVE  Completed(jobs, id, o, res, rest)
<1> DEFINE restarted == res = "success" /\ jobs[o].type = "restart"
           objs == IF restarted THEN <<o>> \o edges_to[o] ELSE edges_to[o]
           job2 == [[jobs[o] EXCEPT !.state = IF restarted THEN "awaiting" ELSE res]
                             EXCEPT !.type = IF restarted THEN "start" ELSE @]
           jobs2 == [jobs EXCEPT ![o] = job2]
<1>1. jobs[o] \in Job /\ edges_to[o] \in Seq(Objects)
  BY DEF TypeOK
<1>2. /\ running_jobs' = Restrict(running_jobs, DOMAIN running_jobs \ {id})
      /\ transactions' = WithFront(jobs2)
      /\ calls' = Turns("other", objs) \o rest
  BY <1>1 DEF Settle, Job
<1>3. /\ job2 \in Job
      /\ job2.id = jobs[o].id
      /\ job2.state = IF restarted THEN "awaiting" ELSE res
      /\ job2.type = IF restarted THEN "start" ELSE jobs[o].type
  BY <1>1, SMTT(30), ZenonT(30) DEF Job, States, JobTypes
<1>4. jobs2 \in [Objects -> Job]
  BY <1>1, <1>3
<1>5. transactions' # << >> /\ Jobs' = jobs2
  BY <1>2, <1>4, WithFrontType DEF Jobs
<1>6. Jobs'[o] = job2 /\ \A p \in Objects : p # o => Jobs'[p] = jobs[p]
  BY <1>1, <1>5
<1>7. /\ DOMAIN running_jobs' = DOMAIN running_jobs \ {id}
      /\ \A i \in DOMAIN running_jobs' : running_jobs'[i] = running_jobs[i]
  BY <1>2 DEF Restrict, TypeOK
<1>8. objs \in Seq(Objects)
  <2>1. <<o>> \in Seq(Objects)
    OBVIOUS
  <2>2. <<o>> \o edges_to[o] \in Seq(Objects)
    BY <1>1, <2>1, ConcatProperties
  <2> QED BY <1>1, <2>2
<1> HIDE DEF objs, job2, jobs2
<1>9. \A k \in DOMAIN calls' : calls'[k].fn = "other" \/ \E j \in DOMAIN rest : calls'[k] = rest[j]
  <2> DEFINE turns == Turns("other", objs)
  <2>1. /\ turns \in Seq(Turn)
        /\ \A k \in DOMAIN turns : turns[k].fn = "other"
    <3>1. /\ Turns("other", objs) \in Seq(Turn)
          /\ DOMAIN Turns("other", objs) = DOMAIN objs
          /\ \A k \in DOMAIN objs : Turns("other", objs)[k] = [fn |-> "other", o |-> objs[k]]
      BY <1>8, TurnsType
    <3>2. \A k \in DOMAIN turns : turns[k] = [fn |-> "other", o |-> objs[k]]
      BY <3>1
    <3> HIDE DEF turns
    <3>3. \A k \in DOMAIN turns : turns[k].fn = "other"
      BY <3>2
    <3> QED BY <3>1, <3>3 DEF turns
  <2> HIDE DEF turns
  <2>2. /\ Len(turns \o rest) = Len(turns) + Len(rest)
        /\ turns \o rest \in Seq(Turn)
        /\ \A i \in 1 .. Len(turns) + Len(rest) :
              (turns \o rest)[i] = IF i <= Len(turns) THEN turns[i] ELSE rest[i - Len(turns)]
    BY <2>1, ConcatProperties
  <2>3. /\ DOMAIN (turns \o rest) = 1 .. Len(turns) + Len(rest)
        /\ DOMAIN turns = 1 .. Len(turns) /\ DOMAIN rest = 1 .. Len(rest)
        /\ Len(turns) \in Nat /\ Len(rest) \in Nat
    BY <2>1, <2>2, LenProperties
  <2>4. ASSUME NEW i \in 1 .. Len(turns) + Len(rest)
        PROVE  \/ (turns \o rest)[i].fn = "other"
               \/ \E j \in DOMAIN rest : (turns \o rest)[i] = rest[j]
    <3>1. CASE i <= Len(turns)
      BY <2>1, <2>2, <2>3, <3>1
    <3>2. CASE ~(i <= Len(turns))
      <4>1. i - Len(turns) \in DOMAIN rest
        BY <2>3, <3>2
      <4> QED BY <2>2, <3>2, <4>1
    <3> QED BY <3>1, <3>2
  <2>5. calls' = turns \o rest
    BY <1>2 DEF turns
  <2> QED BY <2>3, <2>4, <2>5
<1> QED BY <1>3, <1>5, <1>6, <1>7, <1>9 DEF Completed

-----------------------------------------------------------------------------
(* A turn of a loop                                                        *)

(* If only the first turn can be a call of start(), none is behind it. *)
LEMMA BehindFirst ==
    ASSUME TypeOK, calls # << >>, \A k \in DOMAIN calls : calls[k].fn = "start" => k = 1
    PROVE  \A k \in DOMAIN Tail(calls) : Tail(calls)[k].fn # "start"
<1>1. calls \in Seq(Turn) /\ Len(calls) \in Nat \ {0} /\ DOMAIN calls = 1 .. Len(calls)
  BY EmptySeq, LenProperties DEF TypeOK
<1>2. /\ Len(Tail(calls)) = Len(calls) - 1
      /\ Tail(calls) \in Seq(Turn)
      /\ \A i \in 1 .. Len(Tail(calls)) : Tail(calls)[i] = calls[i + 1]
  BY <1>1, HeadTailProperties
<1>3. DOMAIN Tail(calls) = 1 .. Len(Tail(calls))
  BY <1>2, LenProperties
<1>4. \A k \in DOMAIN Tail(calls) : k + 1 \in DOMAIN calls /\ k + 1 # 1 /\ Tail(calls)[k] = calls[k + 1]
  BY <1>1, <1>2, <1>3
<1> QED BY <1>4

(***************************************************************************)
(* When a turn of one of the loops is made nothing runs under the id -1,   *)
(* and nothing runs at all if restarters answer within start().            *)
(***************************************************************************)
LEMMA AtTurn ==
    ASSUME RunInv, OneKind, calls # << >>, Head(calls).fn # "start"
    PROVE  /\ \A id \in DOMAIN running_jobs : id # -1
           /\ \A t \in kq : m_timers[t] # -1
           /\ "later" \notin Answers =>
                 /\ DOMAIN running_jobs = {} /\ DOMAIN m_timers = {} /\ kq = {}
                 /\ \A o \in Objects : ~(Begun(o) /\ Jobs[o].state = "awaiting")
                 /\ \A k \in DOMAIN Tail(calls) : Tail(calls)[k].fn # "start"
<1>1. TypeOK /\ kq \subseteq DOMAIN m_timers
  BY DEF RunInv, SchedInv, TypeOK, Evloop_TypeOK
<1>2. \A o : ~InStart(o)
  BY DEF InStart
<1>3. ASSUME "later" \notin Answers
      PROVE  /\ DOMAIN running_jobs = {} /\ DOMAIN m_timers = {} /\ kq = {}
             /\ \A o \in Objects : ~(Begun(o) /\ Jobs[o].state = "awaiting")
             /\ \A k \in DOMAIN Tail(calls) : Tail(calls)[k].fn # "start"
  <2>1. transactions # << >>
    BY <1>1 DEF TypeOK
  <2>2. DOMAIN running_jobs = {} /\ DOMAIN m_timers = {}
    BY <1>2, <1>3 DEF RunInv, WithinInv
  <2>3. \A o \in Objects : ~(Begun(o) /\ Jobs[o].state = "awaiting")
    BY <1>2, <1>3, <2>1 DEF RunInv, WithinInv
  <2>4. \A k \in DOMAIN Tail(calls) : Tail(calls)[k].fn # "start"
    BY <1>1, <1>3, BehindFirst DEF RunInv, WithinInv
  <2> QED BY <1>1, <2>2, <2>3, <2>4
<1>4. CASE "later" \in Answers
  <2>1. "within" \notin Answers
    BY <1>4 DEF OneKind
  <2> QED BY <1>4, <2>1 DEF RunInv, LaterInv
<1>5. CASE "later" \notin Answers
  <2>1. DOMAIN running_jobs = {} /\ kq = {}
    BY <1>3, <1>5
  <2> QED BY <1>3, <1>5, <2>1
<1> QED BY <1>4, <1>5

(* A list of turns with one more element is not injective if it ends alike. *)
LEMMA AppendRepeats ==
    ASSUME NEW T, NEW s \in Seq(T), NEW x \in T
    PROVE  /\ Append(s, x) # << >>
           /\ Append(s, x)[Len(Append(s, x))] = x
           /\ s # << >> /\ s[Len(s)] = x => ~IsInjective(Append(s, x))
           /\ ~IsInjective(s) => ~IsInjective(Append(s, x))
<1>1. /\ Append(s, x) \in Seq(T)
      /\ Append(s, x) # << >>
      /\ Len(Append(s, x)) = Len(s) + 1
      /\ \A i \in 1 .. Len(s) : Append(s, x)[i] = s[i]
      /\ Append(s, x)[Len(s) + 1] = x
  BY AppendProperties
<1>2. /\ DOMAIN s = 1 .. Len(s) /\ Len(s) \in Nat
      /\ DOMAIN Append(s, x) = 1 .. Len(s) + 1
      /\ s # << >> => Len(s) # 0
  BY <1>1, LenProperties, EmptySeq
<1>3. PICK u : u = Append(s, x)
  OBVIOUS
<1>4. PICK n \in Nat : n = Len(s)
  BY <1>2
<1>5. /\ DOMAIN u = 1 .. n + 1 /\ DOMAIN s = 1 .. n
      /\ u[n + 1] = x
      /\ \A i \in 1 .. n : u[i] = s[i]
      /\ s # << >> => n # 0
  BY <1>1, <1>2, <1>3, <1>4
<1>6. ASSUME s # << >>, s[n] = x PROVE ~IsInjective(u)
  <2>1. n \in 1 .. n /\ n \in 1 .. n + 1 /\ n + 1 \in 1 .. n + 1 /\ n # n + 1
    BY <1>5, <1>6
  <2>2. u[n] = u[n + 1]
    BY <1>5, <1>6, <2>1
  <2> QED BY <1>5, <2>1, <2>2 DEF IsInjective
<1>7. ASSUME ~IsInjective(s) PROVE ~IsInjective(u)
  <2>1. PICK a \in DOMAIN s, b \in DOMAIN s : s[a] = s[b] /\ a # b
    BY <1>7 DEF IsInjective
  <2>2. a \in DOMAIN u /\ b \in DOMAIN u /\ u[a] = s[a] /\ u[b] = s[b]
    BY <1>5, <2>1
  <2> QED BY <2>1, <2>2 DEF IsInjective
<1> QED BY <1>1, <1>3, <1>4, <1>6, <1>7

(* A list of two. *)
LEMMA AppendTwo ==
    ASSUME NEW T, NEW x \in T, NEW y \in T
    PROVE  Append(<<x>>, y) = <<x, y>>
<1>1. <<x>> \in Seq(T) /\ Len(<<x>>) = 1 /\ <<x>>[1] = x
  OBVIOUS
<1>2. <<x, y>> \in Seq(T) /\ Len(<<x, y>>) = 2 /\ <<x, y>>[1] = x /\ <<x, y>>[2] = y
  OBVIOUS
<1>3. PICK s \in Seq(T) : s = <<x>>
  BY <1>1
<1>4. /\ Append(s, y) \in Seq(T)
      /\ Len(Append(s, y)) = Len(s) + 1
      /\ \A i \in 1 .. Len(s) : Append(s, y)[i] = s[i]
      /\ Append(s, y)[Len(s) + 1] = y
  BY AppendProperties
<1>5. PICK u \in Seq(T) : u = Append(s, y)
  BY <1>4
<1>6. PICK v \in Seq(T) : v = <<x, y>>
  BY <1>2
<1>7. Len(u) = 2 /\ u[1] = x /\ u[2] = y /\ Len(v) = 2 /\ v[1] = x /\ v[2] = y
  BY <1>1, <1>2, <1>3, <1>4, <1>5, <1>6
<1>8. \A i \in 1 .. Len(u) : u[i] = v[i]
  BY <1>7
<1>9. u = v
  BY <1>7, <1>8, SeqEqual
<1> QED BY <1>3, <1>5, <1>6, <1>9

(* What a turn may have done to the jobs before it looks at that of o. *)
Numbered(jobs, o) ==
    /\ \A p \in Objects : p # o => jobs[p] = Jobs[p]
    /\ jobs[o].type = Jobs[o].type
    /\ jobs[o].state = Jobs[o].state
    /\ jobs[o].timer = Jobs[o].timer
    /\ Jobs[o].id # -1 => jobs[o].id = Jobs[o].id

(* Running the job a turn looks at keeps the invariant. *)
LEMMA RunKeeps ==
    ASSUME RunInv, OneKind, SchedInv', NEW o \in Objects, NEW jobs \in [Objects -> Job],
           calls # << >>, Head(calls).fn # "start",
           Numbered(jobs, o), "within" \notin Answers => jobs[o].id # -1,
           job_runnable(jobs, o), job_run(jobs, o, Tail(calls)), UNCHANGED <<asked, crashed>>
    PROVE  RunInv'
<1>1. TypeOK /\ kq \subseteq DOMAIN m_timers /\ starts[o] \in Seq(JobTypes)
  BY DEF RunInv, SchedInv, TypeOK, Evloop_TypeOK
<1>2. /\ transactions # << >> /\ Tail(calls) \in Seq(Turn)
      /\ Jobs \in [Objects -> Job]
  <2>1. transactions # << >> /\ Tail(calls) \in Seq(Turn)
    BY <1>1, HeadTurn
  <2> QED BY <1>1, <2>1, WithFrontType DEF Jobs
<1>3. PICK t \in timerid_t : Ran(jobs, o, Tail(calls), t)
  BY <1>1, <1>2, RunEffect
<1>4. /\ jobs[o].type \in JobTypes /\ jobs[o].type # "none" /\ jobs[o].state = "awaiting"
  BY DEF job_runnable, HasJob, Job
<1>5. /\ \A id \in DOMAIN running_jobs : id # -1
      /\ \A u \in kq : m_timers[u] # -1
      /\ "later" \notin Answers =>
            /\ DOMAIN running_jobs = {} /\ DOMAIN m_timers = {} /\ kq = {}
            /\ \A p \in Objects : ~(Begun(p) /\ Jobs[p].state = "awaiting")
            /\ \A k \in DOMAIN Tail(calls) : Tail(calls)[k].fn # "start"
  BY AtTurn
<1>6. \A id \in DOMAIN running_jobs : running_jobs[id] \in Objects
  BY <1>1 DEF TypeOK
<1>7. /\ starts'[o] # << >> /\ starts'[o][Len(starts'[o])] = jobs[o].type
      /\ Begun(o)'
  <2>1. starts'[o] # << >> /\ starts'[o][Len(starts'[o])] = jobs[o].type
    BY <1>1, <1>3, <1>4, AppendRepeats DEF Ran
  <2> QED BY <1>3, <2>1 DEF Begun, Ran
<1>8. EntryInv'
  <2> SUFFICES ASSUME NEW id \in DOMAIN running_jobs' PROVE Entry(id)'
    BY DEF EntryInv
  <2>1. CASE id = jobs[o].id
    BY <1>3, <1>4, <1>7, <2>1 DEF Ran, Entry, HasJob
  <2>2. CASE id # jobs[o].id
    <3>1. id \in DOMAIN running_jobs /\ running_jobs'[id] = running_jobs[id]
      BY <1>3, <2>2 DEF Ran
    <3>2. PICK p \in Objects : p = running_jobs[id]
      BY <1>6, <3>1
    <3>3. /\ Jobs[p].id = id /\ HasJob(Jobs, p) /\ Jobs[p].state = "awaiting" /\ Begun(p)
          /\ Jobs[p].timer \in kq /\ m_timers[Jobs[p].timer] = id
      BY <3>1, <3>2 DEF RunInv, EntryInv, Entry
    <3>4. p # o
      BY <1>5, <2>2, <3>1, <3>3 DEF Numbered
    <3>5. Jobs'[p] = Jobs[p] /\ starts'[p] = starts[p]
      BY <1>3, <3>4 DEF Ran, Numbered
    <3>6. Begun(p)'
      BY <3>3, <3>5 DEF Begun
    <3>7. Jobs[p].timer \in kq' /\ m_timers'[Jobs[p].timer] = id
      BY <1>1, <1>3, <3>3 DEF Ran
    <3> QED BY <3>1, <3>2, <3>3, <3>5, <3>6, <3>7 DEF Entry, HasJob
  <2> QED BY <2>1, <2>2
<1>9. TimerInv'
  <2> SUFFICES ASSUME NEW u \in kq' PROVE \E p \in Objects : Owns(p, u)'
    BY DEF TimerInv
  <2>1. CASE u = t
    <3>1. Owns(o, u)'
      BY <1>3, <2>1 DEF Ran, Owns, Running
    <3> QED BY <3>1
  <2>2. CASE u # t
    <3>1. u \in kq /\ m_timers'[u] = m_timers[u]
      BY <1>1, <1>3, <2>2 DEF Ran
    <3>2. PICK p \in Objects : Owns(p, u)
      BY <3>1 DEF RunInv, TimerInv
    <3>3. Jobs[p].id = m_timers[u] /\ Jobs[p].id # -1
      BY <1>5, <3>1, <3>2 DEF Owns
    <3>4. CASE p # o
      <4>1. Jobs'[p] = Jobs[p] /\ starts'[p] = starts[p] /\ Jobs'[o].id = jobs[o].id
        BY <1>3, <3>4 DEF Ran, Numbered
      <4>2. Jobs'[p].id # Jobs'[o].id
        BY <1>3, <3>3, <3>4, <4>1 DEF SchedInv, IdInv, Ran
      <4>3. Running(p) => Running(p)'
        BY <1>3, <4>1, <4>2 DEF Running, Ran
      <4> QED BY <3>1, <3>2, <4>1, <4>3 DEF Owns
    <3>5. CASE p = o
      <4>1. ~IsInjective(starts'[o])
        <5>1. CASE Running(o)
          <6>1. Entry(Jobs[o].id) /\ running_jobs[Jobs[o].id] = o
            BY <5>1 DEF Running, RunInv, EntryInv
          <6>2. starts[o] # << >> /\ starts[o][Len(starts[o])] = jobs[o].type
            BY <6>1 DEF Entry, Begun, Numbered
          <6> QED BY <1>1, <1>3, <1>4, <6>2, AppendRepeats DEF Ran
        <5>2. CASE ~IsInjective(starts[o])
          BY <1>1, <1>3, <1>4, <5>2, AppendRepeats DEF Ran
        <5> QED BY <3>2, <3>5, <5>1, <5>2 DEF Owns
      <4>2. Jobs'[o].id = m_timers'[u]
        BY <1>3, <3>1, <3>3, <3>5 DEF Ran, Numbered
      <4>3. Owns(o, u)'
        BY <4>1, <4>2 DEF Owns
      <4> QED BY <4>3
    <3> QED BY <3>4, <3>5
  <2> QED BY <2>1, <2>2
<1>10. BlankInv'
  BY <1>3 DEF Ran, BlankInv

<1>11. LaterInv'
  <2> SUFFICES ASSUME "within" \notin Answers PROVE LaterInv'
    BY DEF LaterInv
  <2>1. -1 \notin DOMAIN running_jobs'
    BY <1>3, <1>5 DEF Ran
  <2>2. \A u \in kq' : m_timers'[u] # -1
    BY <1>1, <1>3, <1>5 DEF Ran
  <2>3. \A k \in DOMAIN calls' : calls'[k].fn = "start" \/ \E j \in DOMAIN calls : calls'[k] = calls[j]
    <3>1. calls \in Seq(Turn)
      BY <1>1 DEF TypeOK
    <3>2. \A k \in DOMAIN Tail(calls) : \E j \in DOMAIN calls : Tail(calls)[k] = calls[j]
      BY <3>1, HeadTailElements
    <3>3. calls'[1] = Head(calls')
      <4>1. calls' \in Seq(Turn) /\ calls' # << >>
        BY <1>3 DEF SchedInv, TypeOK, Ran
      <4> QED BY <4>1, HeadTailProperties
    <3>4. calls'[1].fn = "start"
      BY <1>3, <3>3 DEF Ran
    <3> QED BY <1>3, <3>2, <3>4 DEF Ran
  <2>4. \/ \A k \in DOMAIN calls : calls[k].fn # "leaf"
        \/ \A k \in DOMAIN calls : calls[k].fn # "other"
    BY DEF RunInv, LaterInv
  <2>5. \/ \A k \in DOMAIN calls' : calls'[k].fn # "leaf"
        \/ \A k \in DOMAIN calls' : calls'[k].fn # "other"
    BY <2>3, <2>4
  <2> QED BY <2>1, <2>2, <2>5 DEF LaterInv
<1>12. WithinInv'
  <2> SUFFICES ASSUME "later" \notin Answers PROVE WithinInv'
    BY DEF WithinInv
  <2>1. ~crashed' /\ asked' = {}
    BY DEF RunInv, WithinInv
  <2>2. \A k \in DOMAIN calls' : calls'[k].fn = "start" => k = 1
    BY <1>3, <1>5 DEF Ran
  <2>3. \A p \in Objects : InStart(p)' => p = o
    BY <1>3 DEF InStart, Ran
  <2>4. InStart(o)' /\ Running(o)'
    BY <1>3 DEF InStart, Ran, Running
  <2>5. DOMAIN running_jobs' = {jobs[o].id} /\ running_jobs'[jobs[o].id] = o
    BY <1>3, <1>5 DEF Ran
  <2>6. DOMAIN m_timers' = {t} /\ Jobs'[o].timer = t
    BY <1>3, <1>5 DEF Ran
  <2>7. ASSUME NEW p \in Objects
        PROVE  StartsOf(p)' /\ (Begun(p)' /\ Jobs'[p].state = "awaiting" => InStart(p)')
    <3>1. StartsOf(p) /\ ~(Begun(p) /\ Jobs[p].state = "awaiting")
      BY <1>2, <1>5 DEF RunInv, WithinInv
    <3>2. CASE p # o
      <4>1. Jobs'[p] = Jobs[p] /\ starts'[p] = starts[p]
        BY <1>3, <3>2 DEF Ran, Numbered
      <4> QED BY <3>1, <4>1 DEF StartsOf, Begun
    <3>3. CASE p = o
      <4>1. ~Begun(o) /\ Jobs[o].type = jobs[o].type
        BY <1>4, <3>1, <3>3 DEF Numbered
      <4>2. \/ starts[o] = << >>
            \/ starts[o] = <<"restart">> /\ jobs[o].type = "start"
        BY <3>1, <3>3, <4>1 DEF StartsOf, Begun
      <4>3. starts'[o] = Append(starts[o], jobs[o].type) /\ Jobs'[o].type = jobs[o].type
        BY <1>3 DEF Ran
      <4>4. \/ starts'[o] = <<Jobs'[o].type>>
            \/ starts'[o] = <<"restart", "start">> /\ Jobs'[o].type = "start"
        <5>1. CASE starts[o] = << >>
          BY <4>3, <5>1
        <5>2. CASE starts[o] = <<"restart">> /\ jobs[o].type = "start"
          <6>1. Append(<<"restart">>, "start") = <<"restart", "start">>
            <7>1. \A x, y \in JobTypes : Append(<<x>>, y) = <<x, y>>
              BY AppendTwo
            <7>2. "restart" \in JobTypes /\ "start" \in JobTypes
              BY DEF JobTypes
            <7> QED BY <7>1, <7>2, Zenon
          <6>2. Append(starts[o], jobs[o].type) = Append(<<"restart">>, "start")
            BY <5>2
          <6>3. starts'[o] = <<"restart", "start">>
            BY <4>3, <6>1, <6>2, Zenon
          <6> QED BY <4>3, <5>2, <6>3
        <5> QED BY <4>2, <5>1, <5>2
      <4> QED BY <2>4, <3>3, <4>4 DEF StartsOf
    <3> QED BY <3>2, <3>3
  <2> QED BY <2>1, <2>2, <2>3, <2>4, <2>5, <2>6, <2>7 DEF WithinInv
<1> QED BY <1>8, <1>9, <1>10, <1>11, <1>12 DEF RunInv

(* A turn that does not run its job keeps the invariant. *)
LEMMA PassKeeps ==
    ASSUME RunInv, OneKind, SchedInv', NEW o \in Objects, NEW jobs \in [Objects -> Job],
           calls # << >>, Head(calls).fn # "start", Numbered(jobs, o),
           transactions' = WithFront(jobs), calls' = Tail(calls),
           UNCHANGED evloop_vars, UNCHANGED <<running_jobs, starts, asked, crashed>>
    PROVE  RunInv'
<1>1. TypeOK
  BY DEF RunInv, SchedInv
<1>2. transactions # << >> /\ Tail(calls) \in Seq(Turn)
  BY <1>1, HeadTurn
<1>3. transactions' # << >> /\ Jobs' = jobs
  BY <1>1, <1>2, WithFrontType DEF Jobs
<1>4. /\ \A id \in DOMAIN running_jobs : id # -1
      /\ \A u \in kq : m_timers[u] # -1
      /\ "later" \notin Answers =>
            /\ DOMAIN running_jobs = {} /\ DOMAIN m_timers = {} /\ kq = {}
            /\ \A p \in Objects : ~(Begun(p) /\ Jobs[p].state = "awaiting")
            /\ \A k \in DOMAIN Tail(calls) : Tail(calls)[k].fn # "start"
  BY AtTurn
<1>5. UNCHANGED <<m_timers, kq>>
  BY DEF evloop_vars
<1>6. \A p \in Objects : /\ Jobs'[p].type = Jobs[p].type
                         /\ Jobs'[p].state = Jobs[p].state
                         /\ Jobs'[p].timer = Jobs[p].timer
                         /\ Jobs[p].id # -1 => Jobs'[p].id = Jobs[p].id
  BY <1>3 DEF Numbered
<1>7. \A p \in Objects : Begun(p)' <=> Begun(p)
  BY <1>6 DEF Begun
<1>8. EntryInv'
  <2> SUFFICES ASSUME NEW id \in DOMAIN running_jobs PROVE Entry(id)'
    BY DEF EntryInv
  <2>1. PICK p \in Objects : p = running_jobs[id]
    BY <1>1 DEF TypeOK
  <2>2. /\ Jobs[p].id = id /\ HasJob(Jobs, p) /\ Jobs[p].state = "awaiting" /\ Begun(p)
        /\ Jobs[p].timer \in kq /\ m_timers[Jobs[p].timer] = id
    BY <2>1 DEF RunInv, EntryInv, Entry
  <2> QED BY <1>4, <1>5, <1>6, <1>7, <2>1, <2>2 DEF Entry, HasJob
<1>9. TimerInv'
  <2> SUFFICES ASSUME NEW u \in kq PROVE \E p \in Objects : Owns(p, u)'
    BY <1>5 DEF TimerInv
  <2>1. PICK p \in Objects : Owns(p, u)
    BY DEF RunInv, TimerInv
  <2>2. Jobs[p].id # -1 /\ Jobs[p].id = m_timers[u]
    BY <1>4, <2>1 DEF Owns
  <2>3. Owns(p, u)'
    BY <1>5, <1>6, <2>1, <2>2 DEF Owns, Running
  <2> QED BY <2>3
<1>10. BlankInv'
  BY <1>3 DEF BlankInv
<1>11. LaterInv'
  <2> SUFFICES ASSUME "within" \notin Answers PROVE LaterInv'
    BY DEF LaterInv
  <2>1. calls \in Seq(Turn)
    BY <1>1 DEF TypeOK
  <2>2. \A k \in DOMAIN calls' : \E j \in DOMAIN calls : calls'[k] = calls[j]
    BY <2>1, HeadTailElements
  <2> QED BY <1>5, <2>2 DEF RunInv, LaterInv
<1>12. WithinInv'
  <2> SUFFICES ASSUME "later" \notin Answers PROVE WithinInv'
    BY DEF WithinInv
  <2>1. ~crashed' /\ asked' = {}
    BY DEF RunInv, WithinInv
  <2>2. \A k \in DOMAIN calls' : calls'[k].fn # "start"
    BY <1>4
  <2>3. \A p : ~InStart(p)'
    <3>1. ASSUME NEW p, InStart(p)' PROVE FALSE
      <4>1. calls' # << >> /\ Head(calls').fn = "start"
        BY <3>1 DEF InStart
      <4>2. 1 \in DOMAIN calls' /\ Head(calls') = calls'[1]
        BY <1>2, <4>1, HeadTailElements
      <4> QED BY <2>2, <4>1, <4>2
    <3> QED BY <3>1
  <2>4. DOMAIN running_jobs' = {} /\ DOMAIN m_timers' = {}
    BY <1>4, <1>5
  <2>5. \A p \in Objects : StartsOf(p)' /\ ~(Begun(p)' /\ Jobs'[p].state = "awaiting")
    <3>1. \A p \in Objects : StartsOf(p) /\ ~(Begun(p) /\ Jobs[p].state = "awaiting")
      BY <1>2, <1>4 DEF RunInv, WithinInv
    <3> QED BY <1>6, <1>7, <3>1 DEF StartsOf
  <2> QED BY <2>1, <2>2, <2>3, <2>4, <2>5 DEF WithinInv
<1> QED BY <1>8, <1>9, <1>10, <1>11, <1>12 DEF RunInv

(* A turn of either loop keeps the invariant. *)
LEMMA LookKeeps ==
    ASSUME RunInv, OneKind, SchedInv', NEW o \in Objects, NEW jobs \in [Objects -> Job],
           calls # << >>, Head(calls).fn # "start",
           Numbered(jobs, o), "within" \notin Answers /\ HasJob(jobs, o) => jobs[o].id # -1,
           RunIfRunnable(jobs, o, Tail(calls)), UNCHANGED <<asked, crashed>>
    PROVE  RunInv'
<1>1. CASE job_runnable(jobs, o) /\ job_run(jobs, o, Tail(calls))
  <2>1. HasJob(jobs, o)
    BY <1>1 DEF job_runnable
  <2> QED BY <1>1, <2>1, RunKeeps
<1>2. CASE ~job_runnable(jobs, o)
  <2>1. /\ transactions' = WithFront(jobs) /\ calls' = Tail(calls)
        /\ UNCHANGED evloop_vars /\ UNCHANGED <<running_jobs, starts>>
    BY <1>2 DEF RunIfRunnable
  <2> QED BY <2>1, PassKeeps
<1> QED BY <1>1, <1>2 DEF RunIfRunnable

(* A turn of the loop of tx_enqueue_leaves(): the job has an id when it is run. *)
LEMMA LeavesRun ==
    ASSUME RunInv, OneKind, SchedInv', tx_enqueue_leaves
    PROVE  RunInv'
<1>1. PICK o : o = Head(calls).o
  OBVIOUS
<1> DEFINE new == HasJob(Jobs, o) /\ Jobs[o].id = -1
           jobs == [Jobs EXCEPT ![o].id = IF new THEN last_jobid ELSE @]
<1>2. /\ calls # << >> /\ Head(calls).fn = "leaf"
      /\ RunIfRunnable(jobs, o, Tail(calls))
      /\ UNCHANGED <<asked, crashed>>
  BY <1>1 DEF tx_enqueue_leaves, NextTurn
<1>3. TypeOK /\ last_jobid \in Nat
  BY DEF RunInv, SchedInv, TypeOK
<1>4. transactions # << >> /\ o \in Objects
  BY <1>1, <1>2, <1>3, HeadTurn
<1>5. Jobs \in [Objects -> Job]
  BY <1>3, <1>4, WithFrontType DEF Jobs, TypeOK
<1>6. /\ jobs \in [Objects -> Job]
      /\ Numbered(jobs, o)
      /\ HasJob(jobs, o) => jobs[o].id # -1
  BY <1>3, <1>4, <1>5 DEF Job, Numbered, HasJob
<1> HIDE DEF jobs
<1> QED BY <1>2, <1>4, <1>6, LookKeeps

(* A turn of the loop at start_others: no job is without an id any more, unless *)
(* restarters answer within start().                                           *)
LEMMA OthersRun ==
    ASSUME RunInv, OneKind, SchedInv', start_others
    PROVE  RunInv'
<1>1. PICK o : o = Head(calls).o
  OBVIOUS
<1>2. /\ calls # << >> /\ Head(calls).fn = "other"
      /\ RunIfRunnable(Jobs, o, Tail(calls))
      /\ UNCHANGED <<asked, crashed>>
  BY <1>1 DEF start_others, NextTurn
<1>3. TypeOK /\ IdInv
  BY DEF RunInv, SchedInv
<1>4. transactions # << >> /\ o \in Objects
  BY <1>1, <1>2, <1>3, HeadTurn
<1>5. PICK jobs \in [Objects -> Job] : jobs = Jobs
  BY <1>3, <1>4, WithFrontType DEF Jobs, TypeOK
<1>6. Numbered(jobs, o)
  BY <1>5 DEF Numbered
<1>7. ASSUME "within" \notin Answers, HasJob(jobs, o) PROVE jobs[o].id # -1
  <2>1. 1 \in DOMAIN calls /\ calls[1].fn = "other"
    <3>1. calls \in Seq(Turn)
      BY <1>3 DEF TypeOK
    <3>2. 1 \in DOMAIN calls /\ Head(calls) = calls[1]
      BY <1>2, <3>1, HeadTailElements
    <3> QED BY <1>2, <3>2
  <2>2. \A k \in DOMAIN calls : calls[k].fn # "leaf"
    BY <1>7, <2>1 DEF RunInv, LaterInv
  <2>3. ~LeafPending(calls, o)
    BY <2>2 DEF LeafPending
  <2> QED BY <1>3, <1>4, <1>5, <1>7, <2>3 DEF IdInv
<1> QED BY <1>2, <1>4, <1>5, <1>6, <1>7, LookKeeps

-----------------------------------------------------------------------------
(* Completions                                                             *)

(***************************************************************************)
(* A completion takes the entry of the job away and one armed timer with   *)
(* its id: the one the job points to, or one that has elapsed.             *)
(***************************************************************************)
LEMMA CompletionKeeps ==
    ASSUME RunInv, OneKind, SchedInv', transactions # << >>,
           NEW id \in DOMAIN running_jobs, NEW o \in Objects, o = running_jobs[id],
           NEW jobs \in [Objects -> Job], NEW rest \in Seq(Turn),
           \A p \in Objects : p # o => jobs[p] = Jobs[p],
           jobs[o].type = Jobs[o].type, jobs[o].state = Jobs[o].state, jobs[o].id = Jobs[o].id,
           NEW res \in States \ {"awaiting"}, Completed(jobs, id, o, res, rest),
           NEW t \in kq, m_timers[t] = id, t = Jobs[o].timer \/ id # -1,
           kq' = kq \ {t}, \A u \in kq' : m_timers'[u] = m_timers[u],
           "within" \notin Answers => rest = << >>,
           "later" \notin Answers =>
               /\ calls # << >> /\ rest = Tail(calls)
               /\ DOMAIN m_timers' \subseteq DOMAIN m_timers \ {Jobs[o].timer}
               /\ UNCHANGED <<asked, crashed>>,
           UNCHANGED starts
    PROVE  RunInv'
<1>1. TypeOK
  BY DEF RunInv, SchedInv
<1>2. \A p \in Objects : p # o => Jobs'[p] = Jobs[p]
  BY DEF Completed
<1>3. /\ Jobs[o].id = id /\ HasJob(Jobs, o) /\ Jobs[o].state = "awaiting" /\ Begun(o)
      /\ Jobs[o].timer \in kq /\ m_timers[Jobs[o].timer] = id
  BY DEF RunInv, EntryInv, Entry
<1>4. Jobs'[o].id = id
  BY <1>3 DEF Completed
<1>5. EntryInv'
  <2> SUFFICES ASSUME NEW i \in DOMAIN running_jobs' PROVE Entry(i)'
    BY DEF EntryInv
  <2>1. i \in DOMAIN running_jobs /\ i # id /\ running_jobs'[i] = running_jobs[i]
    BY DEF Completed
  <2>2. PICK p \in Objects : p = running_jobs[i]
    BY <1>1, <2>1 DEF TypeOK
  <2>3. /\ Jobs[p].id = i /\ HasJob(Jobs, p) /\ Jobs[p].state = "awaiting" /\ Begun(p)
        /\ Jobs[p].timer \in kq /\ m_timers[Jobs[p].timer] = i
    BY <2>1, <2>2 DEF RunInv, EntryInv, Entry
  <2>4. p # o /\ Jobs[p].timer # t
    BY <1>3, <2>1, <2>3
  <2>5. Jobs'[p] = Jobs[p] /\ Begun(p)'
    BY <1>2, <2>3, <2>4 DEF Begun
  <2>6. Jobs[p].timer \in kq' /\ m_timers'[Jobs[p].timer] = i
    BY <2>3, <2>4
  <2> QED BY <2>1, <2>2, <2>3, <2>5, <2>6 DEF Entry, HasJob
<1>6. TimerInv'
  <2> SUFFICES ASSUME NEW u \in kq' PROVE \E p \in Objects : Owns(p, u)'
    BY DEF TimerInv
  <2>1. u \in kq /\ u # t /\ m_timers'[u] = m_timers[u]
    OBVIOUS
  <2>2. PICK p \in Objects : Owns(p, u)
    BY <2>1 DEF RunInv, TimerInv
  <2>3. CASE p # o
    <3>1. Running(p) => Running(p)'
      BY <1>2, <1>3, <2>3 DEF Running, Completed
    <3>2. Owns(p, u)'
      BY <1>2, <2>1, <2>2, <2>3, <3>1 DEF Owns
    <3> QED BY <3>2
  <2>4. CASE p = o
    <3>1. Jobs[o].id = m_timers[u] /\ (Jobs[o].timer = u \/ ~IsInjective(starts[o]))
      BY <2>2, <2>4 DEF Owns
    <3>2. ~IsInjective(starts[o])
      <4>1. CASE t = Jobs[o].timer
        BY <2>1, <3>1, <4>1
      <4>2. CASE id # -1
        <5>1. PICK q \in Objects : Owns(q, t)
          BY DEF RunInv, TimerInv
        <5>2. q = o
          BY <1>3, <4>2, <5>1 DEF Owns, RunInv, SchedInv, IdInv
        <5>3. Jobs[o].timer = t \/ ~IsInjective(starts[o])
          BY <5>1, <5>2 DEF Owns
        <5> QED BY <2>1, <3>1, <5>3
      <4> QED BY <4>1, <4>2
    <3>3. Owns(o, u)'
      BY <1>3, <1>4, <2>1, <3>1, <3>2 DEF Owns
    <3> QED BY <3>3
  <2> QED BY <2>3, <2>4
<1>7. BlankInv'
  BY DEF BlankInv, Completed
<1>8. LaterInv'
  <2> SUFFICES ASSUME "within" \notin Answers PROVE LaterInv'
    BY DEF LaterInv
  <2>1. -1 \notin DOMAIN running_jobs' /\ \A u \in kq' : m_timers'[u] # -1
    BY DEF RunInv, LaterInv, Completed
  <2>2. \A k \in DOMAIN calls' : calls'[k].fn = "other"
    BY DEF Completed
  <2> QED BY <2>1, <2>2 DEF LaterInv
<1>9. WithinInv'
  <2> SUFFICES ASSUME "later" \notin Answers PROVE WithinInv'
    BY DEF WithinInv
  <2>1. ~crashed' /\ asked' = {} /\ rest = Tail(calls) /\ calls # << >>
    BY DEF RunInv, WithinInv
  <2>2. /\ \A i \in DOMAIN running_jobs : InStart(running_jobs[i])
        /\ \A u \in DOMAIN m_timers : \E i \in DOMAIN running_jobs : Jobs[running_jobs[i]].timer = u
        /\ \A k \in DOMAIN calls : calls[k].fn = "start" => k = 1
        /\ \A p \in Objects : StartsOf(p) /\ (Begun(p) /\ Jobs[p].state = "awaiting" => InStart(p))
    BY DEF RunInv, WithinInv
  <2>3. \A p : InStart(p) => p = o
    <3>1. InStart(o)
      BY <2>2
    <3>2. Head(calls).o = o
      BY <3>1 DEF InStart
    <3> QED BY <3>2 DEF InStart
  <2>4. \A i \in DOMAIN running_jobs : running_jobs[i] = o /\ i = id
    <3> TAKE i \in DOMAIN running_jobs
    <3>1. running_jobs[i] = o
      BY <2>2, <2>3
    <3>2. Jobs[running_jobs[i]].id = i
      BY DEF RunInv, EntryInv, Entry
    <3> QED BY <1>3, <3>1, <3>2
  <2>5. DOMAIN running_jobs' = {}
    BY <2>4 DEF Completed
  <2>6. DOMAIN m_timers' = {}
    <3>1. \A u \in DOMAIN m_timers : u = Jobs[o].timer
      BY <2>2, <2>4, Zenon
    <3>2. DOMAIN m_timers' \subseteq DOMAIN m_timers \ {Jobs[o].timer}
      OBVIOUS
    <3> QED BY <3>1, <3>2
  <2>7. \A k \in DOMAIN calls' : calls'[k].fn # "start"
    <3>1. \A j \in DOMAIN rest : rest[j].fn # "start"
      BY <1>1, <2>1, <2>2, BehindFirst
    <3> QED BY <3>1 DEF Completed
  <2>8. \A p : ~InStart(p)'
    <3>1. ASSUME NEW p, InStart(p)' PROVE FALSE
      <4>1. calls' # << >> /\ Head(calls').fn = "start"
        BY <3>1 DEF InStart
      <4>2. 1 \in DOMAIN calls' /\ Head(calls') = calls'[1]
        BY <4>1, HeadTailElements DEF SchedInv, TypeOK
      <4> QED BY <2>7, <4>1, <4>2
    <3> QED BY <3>1
  <2>9. ASSUME NEW p \in Objects
        PROVE  StartsOf(p)' /\ ~(Begun(p)' /\ Jobs'[p].state = "awaiting")
    <3>1. CASE p # o
      <4>1. Jobs'[p] = Jobs[p] /\ ~InStart(p)
        BY <1>2, <2>3, <3>1
      <4> QED BY <2>2, <4>1 DEF StartsOf, Begun
    <3>2. CASE p = o
      <4>1. StartsOf(o) /\ Begun(o)
        BY <1>3, <2>2
      <4>2. CASE res = "success" /\ jobs[o].type = "restart"
        <5>1. Jobs[o].type = "restart" /\ Jobs'[o].type = "start"
          BY <4>2 DEF Completed
        <5>2. starts[o] = <<"restart">>
          BY <4>1, <5>1 DEF StartsOf, Begun
        <5>3. StartsOf(o)'
          BY <5>1, <5>2 DEF StartsOf
        <5>4. ~Begun(o)'
          BY <5>1, <5>2 DEF Begun
        <5> QED BY <3>2, <5>3, <5>4
      <4>3. CASE ~(res = "success" /\ jobs[o].type = "restart")
        <5>1. Jobs'[o].type = Jobs[o].type /\ Jobs'[o].state # "awaiting"
          BY <4>3 DEF Completed
        <5> QED BY <3>2, <4>1, <5>1 DEF StartsOf
      <4> QED BY <4>2, <4>3
    <3> QED BY <3>1, <3>2
  <2> QED BY <2>1, <2>5, <2>6, <2>7, <2>8, <2>9 DEF WithinInv
<1> QED BY <1>5, <1>6, <1>7, <1>8, <1>9 DEF RunInv

(***************************************************************************)
(* job_complete(), called within start() or from the event loop, finds the *)
(* entry and frees the timer of the job, or crashes.                       *)
(***************************************************************************)
LEMMA CompleteRun ==
    ASSUME RunInv, OneKind, SchedInv', transactions # << >>, NEW id \in DOMAIN running_jobs,
           NEW rest \in Seq(Turn), NEW res \in Results, job_complete(id, res, rest),
           "within" \notin Answers => rest = << >>,
           "later" \notin Answers => calls # << >> /\ rest = Tail(calls) /\ UNCHANGED asked,
           UNCHANGED starts
    PROVE  RunInv' /\ Completed(Jobs, id, running_jobs[id], res, rest)
<1>1. TypeOK /\ Jobs \in [Objects -> Job]
  <2>1. TypeOK
    BY DEF RunInv, SchedInv
  <2> QED BY <2>1, WithFrontType, SMTT(30), ZenonT(30) DEF Jobs, TypeOK
<1>2. PICK o \in Objects : o = running_jobs[id]
  BY <1>1 DEF TypeOK
<1>3. PICK t : t = Jobs[o].timer
  OBVIOUS
<1>4. t \in kq /\ m_timers[t] = id
  BY <1>2, <1>3 DEF RunInv, EntryInv, Entry
<1>5. t \in DOMAIN m_timers /\ t # 0 /\ kq \subseteq DOMAIN m_timers
  <2>1. t \in DOMAIN m_timers /\ kq \subseteq DOMAIN m_timers /\ DOMAIN m_timers \subseteq timerid_t
    BY <1>1, <1>4 DEF TypeOK, Evloop_TypeOK
  <2> QED BY <2>1, MaxTimersAssumption DEF timerid_t
<1>6. del_timer(t) /\ Settle(Jobs, id, res, rest) /\ UNCHANGED crashed
  BY <1>2, <1>3, <1>5 DEF job_complete
<1>7. /\ DOMAIN m_timers' = DOMAIN m_timers \ {t}
      /\ \A u \in DOMAIN m_timers \ {t} : m_timers'[u] = m_timers[u]
      /\ kq' = kq \ {t}
  BY <1>5, <1>6, DelTimer
<1>8. res \in States \ {"awaiting"}
  BY JobSchedAssumption
<1>9. PICK jobs \in [Objects -> Job] : jobs = Jobs
  BY <1>1
<1>10. Completed(jobs, id, o, res, rest)
  BY <1>1, <1>2, <1>6, <1>8, <1>9, SettleEffect
<1>11. RunInv'
  <2>1. /\ \A p \in Objects : p # o => jobs[p] = Jobs[p]
        /\ jobs[o].type = Jobs[o].type /\ jobs[o].state = Jobs[o].state /\ jobs[o].id = Jobs[o].id
    BY <1>9
  <2>2. \A u \in kq' : m_timers'[u] = m_timers[u]
    BY <1>5, <1>7
  <2>3. "later" \notin Answers =>
            /\ calls # << >> /\ rest = Tail(calls)
            /\ DOMAIN m_timers' \subseteq DOMAIN m_timers \ {Jobs[o].timer}
            /\ UNCHANGED <<asked, crashed>>
    BY <1>3, <1>6, <1>7
  <2> QED BY <1>2, <1>3, <1>4, <1>7, <1>8, <1>10, <2>1, <2>2, <2>3, CompletionKeeps
<1> QED BY <1>2, <1>9, <1>10, <1>11

(* What crashes changes nothing else; restarters that answer within do not. *)
LEMMA CrashKeeps ==
    ASSUME RunInv, SchedInv', "later" \in Answers, OneKind, kq' \subseteq kq,
           \A id \in DOMAIN running_jobs : Jobs[running_jobs[id]].timer \in kq',
           UNCHANGED <<transactions, running_jobs, calls, starts, m_timers>>
    PROVE  RunInv'
<1>1. UNCHANGED Jobs
  BY DEF Jobs
<1>2. \A o : UNCHANGED Begun(o)
  BY <1>1 DEF Begun
<1>3. EntryInv'
  BY <1>1, <1>2 DEF RunInv, EntryInv, Entry, HasJob
<1>4. TimerInv'
  BY <1>1 DEF RunInv, TimerInv, Owns, Running
<1>5. BlankInv'
  BY DEF RunInv, BlankInv
<1>6. LaterInv'
  BY DEF RunInv, LaterInv
<1> QED BY <1>3, <1>4, <1>5, <1>6 DEF RunInv, WithinInv

(* start() answers before it returns: its job is in running_jobs. *)
LEMMA AnswersRun ==
    ASSUME RunInv, OneKind, SchedInv', NEW res \in Results, start_answers(res)
    PROVE  /\ RunInv'
           /\ \E id \in DOMAIN running_jobs : Completed(Jobs, id, running_jobs[id], res, Tail(calls))
<1>1. NextTurn("start") /\ "within" \in Answers /\ "later" \notin Answers
  BY DEF start_answers, OneKind
<1>2. PICK o : o = Head(calls).o
  OBVIOUS
<1>3. /\ job_complete(Jobs[o].id, res, Tail(calls))
      /\ UNCHANGED <<edges, edges_to, last_jobid, asked, starts>>
  BY <1>2 DEF start_answers
<1>4. TypeOK /\ calls # << >> /\ Head(calls).fn = "start"
  BY <1>1 DEF RunInv, SchedInv, NextTurn
<1>5. /\ transactions # << >> /\ o \in Objects /\ Tail(calls) \in Seq(Turn)
      /\ Head(calls) = [fn |-> "start", o |-> o]
  BY <1>2, <1>4, HeadTurn DEF Turn
<1>6. Jobs[o].id \in DOMAIN running_jobs
  <2>1. InStart(o)
    BY <1>4, <1>5 DEF InStart
  <2> QED BY <1>1, <1>5, <2>1 DEF RunInv, WithinInv, Running
<1>7. PICK id \in DOMAIN running_jobs : id = Jobs[o].id
  BY <1>6
<1> QED BY <1>1, <1>3, <1>4, <1>5, <1>7, CompleteRun

(* start() returns and leaves the answer for later. *)
LEMMA ReturnsRun ==
    ASSUME RunInv, OneKind, SchedInv', start_returns
    PROVE  RunInv'
<1>1. /\ "later" \in Answers /\ NextTurn("start")
      /\ calls' = Tail(calls)
      /\ UNCHANGED evloop_vars
      /\ UNCHANGED <<transactions, running_jobs, crashed, starts>>
  BY DEF start_returns
<1>2. UNCHANGED Jobs /\ UNCHANGED <<m_timers, kq>>
  BY <1>1 DEF Jobs, evloop_vars
<1>3. \A o : UNCHANGED Begun(o)
  BY <1>1, <1>2 DEF Begun
<1>4. EntryInv'
  BY <1>1, <1>2, <1>3 DEF RunInv, EntryInv, Entry, HasJob
<1>5. TimerInv'
  BY <1>1, <1>2 DEF RunInv, TimerInv, Owns, Running
<1>6. BlankInv'
  BY <1>1, <1>2 DEF RunInv, BlankInv
<1>7. LaterInv'
  <2>1. calls \in Seq(Turn) /\ calls # << >>
    BY <1>1 DEF RunInv, SchedInv, TypeOK, NextTurn
  <2>2. \A k \in DOMAIN calls' : \E j \in DOMAIN calls : calls'[k] = calls[j]
    BY <1>1, <2>1, HeadTailElements
  <2> QED BY <1>1, <1>2, <2>2 DEF RunInv, LaterInv
<1> QED BY <1>1, <1>4, <1>5, <1>6, <1>7 DEF RunInv, WithinInv

(* JavaScript answers: the job is settled, or the answer is late and crashes. *)
LEMMA JsCompleteRun ==
    ASSUME RunInv, OneKind, SchedInv', NEW a \in asked, NEW res \in Results, jobComplete(a, res)
    PROVE  /\ RunInv'
           /\ \/ \E id \in DOMAIN running_jobs : Completed(Jobs, id, running_jobs[id], res, << >>)
              \/ UNCHANGED transactions
<1>1. /\ calls = << >>
      /\ job_complete(a[1], res, << >>)
      /\ UNCHANGED <<edges, edges_to, last_jobid, starts>>
  BY DEF jobComplete, InEventLoop
<1>2. "later" \in Answers
  BY DEF RunInv, WithinInv
<1>3. CASE a[1] \in DOMAIN running_jobs
  <2>1. PICK id \in DOMAIN running_jobs : id = a[1]
    BY <1>3
  <2>2. transactions # << >> /\ << >> \in Seq(Turn)
    BY <2>1 DEF RunInv, SchedInv, TypeOK
  <2> QED BY <1>1, <1>2, <2>1, <2>2, CompleteRun
<1>4. CASE a[1] \notin DOMAIN running_jobs
  <2>1. UNCHANGED evloop_vars /\ UNCHANGED <<transactions, running_jobs, calls>>
    BY <1>1, <1>4 DEF job_complete
  <2>2. UNCHANGED <<m_timers, kq>>
    BY <2>1 DEF evloop_vars
  <2>3. \A id \in DOMAIN running_jobs : Jobs[running_jobs[id]].timer \in kq'
    BY <2>2 DEF RunInv, EntryInv, Entry
  <2> QED BY <1>1, <1>2, <2>1, <2>2, <2>3, CrashKeeps
<1> QED BY <1>3, <1>4

(* A timer elapses: its job is settled, or it is one that was left behind. *)
LEMMA TimeoutRun ==
    ASSUME RunInv, OneKind, SchedInv', NEW t \in timerid_t, job_timeout_cb(t)
    PROVE  /\ RunInv'
           /\ "later" \in Answers
           /\ \/ \E id \in DOMAIN running_jobs : \E jobs :
                    /\ \A p \in Objects : jobs[p].type = Jobs[p].type /\ jobs[p].state = Jobs[p].state
                    /\ Completed(jobs, id, running_jobs[id], "timeout", << >>)
              \/ UNCHANGED transactions
<1>1. /\ calls = << >>
      /\ t \in kq /\ kq' = kq \ {t} /\ UNCHANGED m_timers
      /\ UNCHANGED <<edges, edges_to, last_jobid, asked, starts>>
  BY DEF job_timeout_cb, InEventLoop, handle_timer
<1>2. TypeOK
  BY DEF RunInv, SchedInv
<1>3. "later" \in Answers
  <2> SUFFICES ASSUME "later" \notin Answers PROVE FALSE
    OBVIOUS
  <2>1. t \in DOMAIN m_timers
    BY <1>1, <1>2 DEF TypeOK, Evloop_TypeOK
  <2>2. PICK id \in DOMAIN running_jobs : InStart(running_jobs[id])
    BY <2>1 DEF RunInv, WithinInv
  <2> QED BY <1>1, <2>2 DEF InStart
<1>4. PICK jid : jid = m_timers[t]
  OBVIOUS
<1>5. CASE jid \in DOMAIN running_jobs
  <2>1. transactions # << >> /\ << >> \in Seq(Turn)
    BY <1>2, <1>5 DEF TypeOK
  <2>2. Jobs \in [Objects -> Job]
    BY <1>2, <2>1, WithFrontType DEF TypeOK, Jobs
  <2>3. PICK o \in Objects : o = running_jobs[jid]
    BY <1>2, <1>5 DEF TypeOK
  <2> DEFINE jobs == [Jobs EXCEPT ![o].timer = 0]
  <2>4. /\ jobs \in [Objects -> Job]
        /\ \A p \in Objects : p # o => jobs[p] = Jobs[p]
        /\ jobs[o].type = Jobs[o].type /\ jobs[o].state = Jobs[o].state /\ jobs[o].id = Jobs[o].id
    BY <2>2 DEF Job
  <2>5. Settle(jobs, jid, "timeout", << >>)
    BY <1>4, <1>5, <2>3 DEF job_timeout_cb
  <2> HIDE DEF jobs
  <2>6. "timeout" \in States \ {"awaiting"}
    BY DEF States
  <2>7. Completed(jobs, jid, o, "timeout", << >>)
    BY <1>2, <1>5, <2>1, <2>3, <2>4, <2>5, <2>6, SettleEffect
  <2>8. jid # -1
    BY <1>3, <1>5 DEF RunInv, LaterInv, OneKind
  <2>9. RunInv'
    BY <1>1, <1>3, <1>4, <1>5, <2>1, <2>3, <2>4, <2>6, <2>7, <2>8, CompletionKeeps
  <2>10. \A p \in Objects : jobs[p].type = Jobs[p].type /\ jobs[p].state = Jobs[p].state
    BY <2>4
  <2> QED BY <1>3, <1>5, <2>3, <2>7, <2>9, <2>10
<1>6. CASE jid \notin DOMAIN running_jobs
  <2>1. UNCHANGED <<transactions, running_jobs, calls>>
    BY <1>4, <1>6 DEF job_timeout_cb
  <2>2. \A id \in DOMAIN running_jobs : Jobs[running_jobs[id]].timer \in kq'
    BY <1>1, <1>4, <1>6 DEF RunInv, EntryInv, Entry
  <2>3. RunInv'
    BY <1>1, <1>3, <2>1, <2>2, CrashKeeps
  <2> QED BY <1>3, <2>1, <2>3
<1> QED BY <1>3, <1>5, <1>6

-----------------------------------------------------------------------------
(* The other steps                                                         *)

(* Before the first transaction. *)
LEMMA InitRun == Init => RunInv
<1> SUFFICES ASSUME Init PROVE RunInv
  OBVIOUS
<1>1. SchedInv
  BY InitInv
<1>2. DOMAIN running_jobs = {} /\ DOMAIN m_timers = {} /\ kq = {}
  BY DEF Init, Evloop_Init
<1>3. DOMAIN calls = {} /\ calls = << >>
  BY DEF Init
<1>4. EntryInv /\ TimerInv
  BY <1>2 DEF EntryInv, TimerInv
<1>5. BlankInv
  BY <1>2 DEF BlankInv, Init
<1>6. LaterInv
  BY <1>2, <1>3 DEF LaterInv
<1>7. WithinInv
  BY <1>2, <1>3 DEF WithinInv, InStart, Init
<1> QED BY <1>1, <1>4, <1>5, <1>6, <1>7 DEF RunInv

(* The front transaction is the same one, unless there was none. *)
LEMMA EnqueueRun ==
    ASSUME RunInv, SchedInv', NEW spec \in TxSpecs, tx_enqueue(spec)
    PROVE  /\ RunInv'
           /\ transactions # << >> => UNCHANGED Jobs
           /\ transactions = << >> => Jobs' = [o \in Objects |-> NewJob(spec[o])]
           /\ transactions' # << >>
<1> DEFINE jobs == [o \in Objects |-> NewJob(spec[o])]
<1>1. /\ calls = << >>
      /\ transactions' = Append(transactions, jobs)
      /\ calls' = Turns("leaf", Order)
      /\ UNCHANGED <<m_timers, kq>>
      /\ UNCHANGED <<running_jobs, asked, crashed, starts>>
  BY DEF tx_enqueue, InEventLoop, evloop_vars
<1>2. TypeOK
  BY DEF RunInv, SchedInv
<1>3. PICK T : transactions \in Seq(T) /\ jobs \in T
  <2>1. transactions \in Seq([Objects -> Job] \cup {jobs})
    <3>1. transactions \in Seq([Objects -> Job])
      BY <1>2 DEF TypeOK
    <3> HIDE DEF jobs
    <3>2. \A i \in 1 .. Len(transactions) : transactions[i] \in [Objects -> Job] \cup {jobs}
      BY <3>1, ElementOfSeq
    <3>3. Len(transactions) \in Nat /\ transactions = [i \in 1 .. Len(transactions) |-> transactions[i]]
      BY <3>1, LenProperties
    <3> QED BY <3>2, <3>3, IsASeq
  <2> QED BY <2>1
<1> HIDE DEF jobs
<1>4. /\ Len(transactions') = Len(transactions) + 1
      /\ transactions' # << >>
      /\ \A i \in 1 .. Len(transactions) : transactions'[i] = transactions[i]
      /\ transactions'[Len(transactions) + 1] = jobs
  BY <1>1, <1>3, AppendProperties
<1>5. /\ transactions # << >> => Len(transactions) \in Nat \ {0}
      /\ transactions = << >> => Len(transactions) = 0
  BY <1>3, EmptySeq, LenProperties
<1>6. /\ transactions # << >> => UNCHANGED Jobs
      /\ transactions = << >> => Jobs' = jobs
  BY <1>4, <1>5 DEF Jobs
<1>7. /\ DOMAIN calls' = DOMAIN Order /\ \A k \in DOMAIN calls' : calls'[k].fn = "leaf"
  <2>1. Order \in Seq(Objects)
    BY JobSchedAssumption
  <2>2. /\ DOMAIN calls' = DOMAIN Order
        /\ \A k \in DOMAIN Order : calls'[k] = [fn |-> "leaf", o |-> Order[k]]
    BY <1>1, <2>1, TurnsType
  <2> QED BY <2>2
<1>8. EntryInv' /\ TimerInv'
  <2>1. CASE transactions # << >>
    <3>1. \A o : UNCHANGED Begun(o)
      BY <1>1, <1>6, <2>1 DEF Begun
    <3>2. EntryInv'
      BY <1>1, <1>6, <2>1, <3>1 DEF RunInv, EntryInv, Entry, HasJob
    <3>3. TimerInv'
      BY <1>1, <1>6, <2>1 DEF RunInv, TimerInv, Owns, Running
    <3> QED BY <3>2, <3>3
  <2>2. CASE transactions = << >>
    <3>1. DOMAIN running_jobs' = {} /\ kq' = {}
      BY <1>1, <1>2, <2>2 DEF TypeOK, RunInv, BlankInv
    <3> QED BY <3>1 DEF EntryInv, TimerInv
  <2> QED BY <2>1, <2>2
<1>9. BlankInv'
  BY <1>4 DEF BlankInv
<1>10. LaterInv'
  BY <1>1, <1>7 DEF RunInv, LaterInv
<1>11. WithinInv'
  <2> SUFFICES ASSUME "later" \notin Answers PROVE WithinInv'
    BY DEF WithinInv
  <2>1. \A o : ~InStart(o)
    BY <1>1 DEF InStart
  <2>2. \A o : ~InStart(o)'
    <3>1. ASSUME NEW o, InStart(o)' PROVE FALSE
      <4>1. calls' # << >> /\ Head(calls').fn = "start" /\ calls' \in Seq(Turn)
        BY <3>1 DEF InStart, SchedInv, TypeOK
      <4>2. 1 \in DOMAIN calls' /\ Head(calls') = calls'[1]
        BY <4>1, HeadTailElements
      <4> QED BY <1>7, <4>1, <4>2
    <3> QED BY <3>1
  <2>3. DOMAIN running_jobs' = {} /\ DOMAIN m_timers' = {} /\ ~crashed' /\ asked' = {}
    BY <1>1, <2>1 DEF RunInv, WithinInv
  <2>4. \A o \in Objects : StartsOf(o)' /\ ~(Begun(o)' /\ Jobs'[o].state = "awaiting")
    <3>1. CASE transactions # << >>
      <4>1. \A o \in Objects : StartsOf(o) /\ ~(Begun(o) /\ Jobs[o].state = "awaiting")
        BY <2>1, <3>1 DEF RunInv, WithinInv
      <4> QED BY <1>1, <1>6, <3>1, <4>1 DEF StartsOf, Begun
    <3>2. CASE transactions = << >>
      <4>1. \A o \in Objects : starts'[o] = << >>
        BY <1>1, <3>2 DEF RunInv, BlankInv
      <4> QED BY <4>1 DEF StartsOf, Begun
    <3> QED BY <3>1, <3>2
  <2> QED BY <1>7, <2>2, <2>3, <2>4 DEF WithinInv
<1> QED BY <1>4, <1>6, <1>8, <1>9, <1>10, <1>11 DEF RunInv, jobs

(* Every step keeps it, with one kind of restarter. *)
LEMMA RunStays ==
    ASSUME OneKind, RunInv, SchedInv', [Next]_vars
    PROVE  RunInv'
<1>1. ASSUME NEW spec \in TxSpecs, tx_enqueue(spec) PROVE RunInv'
  BY <1>1, EnqueueRun
<1>2. CASE tx_enqueue_leaves
  BY <1>2, LeavesRun
<1>3. CASE start_others
  BY <1>3, OthersRun
<1>4. ASSUME NEW res \in Results, start_answers(res) PROVE RunInv'
  BY <1>4, AnswersRun
<1>5. CASE start_returns
  BY <1>5, ReturnsRun
<1>6. ASSUME NEW a \in asked, NEW res \in Results, jobComplete(a, res) PROVE RunInv'
  BY <1>6, JsCompleteRun
<1>7. ASSUME NEW t \in timerid_t, job_timeout_cb(t) PROVE RunInv'
  BY <1>7, TimeoutRun
<1>8. CASE Idle \/ UNCHANGED vars
  <2>1. UNCHANGED <<m_timers, kq, transactions, running_jobs, calls, asked, crashed, starts>>
    BY <1>8 DEF Idle, vars, sched_vars, evloop_vars
  <2> QED BY <2>1 DEF RunInv, EntryInv, Entry, TimerInv, Owns, Running, BlankInv, LaterInv,
             WithinInv, InStart, StartsOf, Begun, Jobs, HasJob
<1> QED BY <1>1, <1>2, <1>3, <1>4, <1>5, <1>6, <1>7, <1>8 DEF Next, MakeTurn

(* Nor does the order matter to it before there is a transaction. *)
LEMMA OrderGiven ==
    ASSUME RunInv, transactions = << >>,
           UNCHANGED <<m_timers, kq, transactions, running_jobs, last_jobid, calls, asked, crashed, starts>>,
           edges' \in [Objects -> SUBSET Objects], edges_to' \in [Objects -> Seq(Objects)], MirrorInv'
    PROVE  RunInv'
<1>1. TypeOK'
  BY TimerSteps DEF RunInv, SchedInv, TypeOK, evloop_vars
<1>2. SchedInv'
  BY <1>1 DEF SchedInv, IdInv, WakeupInv
<1>3. /\ DOMAIN running_jobs = {} /\ kq = {} /\ calls = << >>
      /\ BlankInv' /\ LaterInv'
  BY DEF RunInv, SchedInv, TypeOK, BlankInv, LaterInv
<1>4. EntryInv' /\ TimerInv'
  BY <1>3 DEF EntryInv, TimerInv
<1>5. WithinInv'
  BY <1>3 DEF RunInv, WithinInv, BlankInv, InStart, Running, Jobs
<1> QED BY <1>2, <1>3, <1>4, <1>5 DEF RunInv

(***************************************************************************)
(* With one kind of restarter: whatever is running runs under its own id,  *)
(* has been started and is timed, for every object graph and transaction.  *)
(***************************************************************************)
THEOREM RunInvariant == ASSUME OneKind PROVE Spec => []RunInv
<1>1. RunInv /\ SchedInv' /\ [Next]_vars => RunInv'
  BY RunStays
<1> QED BY InitRun, SchedInvariant, <1>1, PTL DEF Spec

(***************************************************************************)
(* What is in running_jobs has an armed timer with its id: a restarter     *)
(* that never answers does not keep job_timeout_cb() from settling it.     *)
(***************************************************************************)
THEOREM RunningAlwaysTimed == ASSUME OneKind PROVE Spec => []RunningIsTimed
<1>1. RunInv => RunningIsTimed
  BY DEF RunInv, EntryInv, Entry, RunningIsTimed
<1> QED BY <1>1, RunInvariant, PTL

(***************************************************************************)
(* A timer that outlives its job is that of a job for which start() was    *)
(* called twice: the only timers job_timeout_cb() can find no job for.     *)
(***************************************************************************)
THEOREM TimersAccountedFor == ASSUME OneKind PROVE Spec => []TimersAreOfRunningJobs
<1>1. RunInv => TimersAreOfRunningJobs
  <2> SUFFICES ASSUME RunInv, NEW t \in kq
               PROVE  \E o \in Objects :
                         /\ m_timers[t] = Jobs[o].id
                         /\ m_timers[t] \in DOMAIN running_jobs \/ ~IsInjective(starts[o])
    BY DEF TimersAreOfRunningJobs
  <2>1. PICK o \in Objects : Owns(o, t)
    BY DEF RunInv, TimerInv
  <2> QED BY <2>1 DEF Owns, Running
<1> QED BY <1>1, RunInvariant, PTL

(***************************************************************************)
(* A restarter that answers within start() is never asked twice for the    *)
(* same job, however often its object is looked at and whatever it         *)
(* answers: job_complete() has settled the job before anyone looks again.  *)
(***************************************************************************)
THEOREM NeverStartedTwice == ASSUME "later" \notin Answers PROVE Spec => []StartedOnce
<1>1. OneKind
  BY DEF OneKind
<1>2. RunInv => StartedOnce
  <2> SUFFICES ASSUME RunInv, NEW o \in Objects PROVE IsInjective(starts[o])
    BY DEF StartedOnce
  <2>1. \/ starts[o] = << >>
        \/ \E x : starts[o] = <<x>>
        \/ starts[o] = <<"restart", "start">>
    BY DEF RunInv, BlankInv, WithinInv, StartsOf
  <2> QED BY <2>1 DEF IsInjective
<1> QED BY <1>1, <1>2, RunInvariant, PTL

-----------------------------------------------------------------------------
(* Carrying out a transaction                                              *)

(* The order graphs have no cycle: there is a rank that falls along edges. *)
OrderAcyclic ==
    \A g \in OrderGraphs : \E rank \in [Objects -> Nat] :
        \A o \in Objects : \A p \in g.edges[o] : rank[p] < rank[o]

(* What TargetRestarter adds: nothing fails, and the order stays acyclic. *)
TargetInv ==
    /\ \E rank \in [Objects -> Nat] : \A o \in Objects : \A p \in edges[o] : rank[p] < rank[o]
    /\ transactions # << >> => \A o \in Objects : Jobs[o].state \in {"awaiting", "success"}

(***************************************************************************)
(* A step leaves the type and the state of a job alone or makes the job    *)
(* succeed, unless it is to restart, and calls start() only for a job that *)
(* is runnable.                                                            *)
(***************************************************************************)
TargetEffect(o) ==
    /\ transactions' # << >>
    /\ Jobs'[o].state \in {Jobs[o].state, "awaiting", "success"}
    /\ Jobs[o].type # "restart" => /\ Jobs'[o].type = Jobs[o].type
                                   /\ Jobs'[o].state \in {Jobs[o].state, "success"}
    /\ starts'[o] = starts[o] \/ job_runnable(Jobs, o)

(* Looking at a job leaves the types and states of all jobs as they are. *)
LEMMA LookLeaves ==
    ASSUME TypeOK, transactions # << >>, NEW o \in Objects, NEW jobs \in [Objects -> Job],
           NEW rest \in Seq(Turn), RunIfRunnable(jobs, o, rest)
    PROVE  /\ transactions' # << >>
           /\ \A p \in Objects : Jobs'[p].type = jobs[p].type /\ Jobs'[p].state = jobs[p].state
<1>1. CASE job_run(jobs, o, rest)
  <2>1. PICK t \in timerid_t : Ran(jobs, o, rest, t)
    BY <1>1, RunEffect
  <2> QED BY <2>1 DEF Ran
<1>2. CASE transactions' = WithFront(jobs)
  BY <1>2, WithFrontType DEF Jobs
<1> QED BY <1>1, <1>2 DEF RunIfRunnable

(* TargetRestarter has that effect. *)
LEMMA TargetStep ==
    ASSUME RunInv, SchedInv', [Next]_vars, Answers = {"within"}, Results = {"success"},
           transactions # << >>, NEW o \in Objects
    PROVE  TargetEffect(o)
<1>1. TypeOK /\ OneKind /\ "later" \notin Answers
  BY DEF RunInv, SchedInv, OneKind
<1>2. PICK all \in [Objects -> Job] : all = Jobs
  BY <1>1, WithFrontType DEF Jobs, TypeOK
<1>3. ASSUME Jobs' = Jobs, transactions' # << >>, starts' = starts
      PROVE  TargetEffect(o)
  BY <1>3 DEF TargetEffect
<1>4. ASSUME NEW p \in Objects, NEW jobs \in [Objects -> Job], calls # << >>,
             RunIfRunnable(jobs, p, Tail(calls)),
             \A q \in Objects : jobs[q].type = all[q].type /\ jobs[q].state = all[q].state
      PROVE  TargetEffect(o)
  <2>1. Tail(calls) \in Seq(Turn)
    BY <1>1, <1>4, HeadTurn
  <2>2. transactions' # << >> /\ Jobs'[o].state = jobs[o].state /\ Jobs'[o].type = jobs[o].type
    BY <1>1, <1>4, <2>1, LookLeaves
  <2>3. starts'[o] = starts[o] \/ job_runnable(jobs, o)
    <3>1. CASE job_runnable(jobs, p) /\ job_run(jobs, p, Tail(calls))
      <4>1. \A q \in Objects : q # p => starts'[q] = starts[q]
        BY <1>1, <1>4, <2>1, <3>1, RunEffect DEF Ran
      <4> QED BY <3>1, <4>1
    <3>2. CASE UNCHANGED starts
      BY <3>2
    <3> QED BY <1>4, <3>1, <3>2 DEF RunIfRunnable
  <2>4. job_runnable(jobs, o) => job_runnable(all, o)
    BY <1>1, <1>4 DEF job_runnable, HasJob, after_order, TypeOK
  <2> QED BY <1>2, <1>4, <2>2, <2>3, <2>4 DEF TargetEffect
<1>5. ASSUME NEW spec \in TxSpecs, tx_enqueue(spec)
      PROVE  TargetEffect(o)
  <2>1. Jobs' = Jobs /\ transactions' # << >>
    BY <1>5, EnqueueRun
  <2> QED BY <1>3, <1>5, <2>1 DEF tx_enqueue
<1>7. CASE tx_enqueue_leaves
  <2>1. PICK p : p = Head(calls).o
    OBVIOUS
  <2> DEFINE new == HasJob(Jobs, p) /\ Jobs[p].id = -1
             jobs == [Jobs EXCEPT ![p].id = IF new THEN last_jobid ELSE @]
  <2>2. calls # << >> /\ RunIfRunnable(jobs, p, Tail(calls))
    BY <1>7, <2>1 DEF tx_enqueue_leaves, NextTurn
  <2>3. p \in Objects /\ last_jobid \in Nat
    BY <1>1, <2>1, <2>2, HeadTurn DEF TypeOK
  <2>5. /\ jobs \in [Objects -> Job]
        /\ \A q \in Objects : jobs[q].type = all[q].type /\ jobs[q].state = all[q].state
    BY <1>2, <2>3 DEF Job
  <2> HIDE DEF jobs
  <2> QED BY <1>4, <2>2, <2>3, <2>5
<1>8. CASE start_others
  <2>1. PICK p : p = Head(calls).o
    OBVIOUS
  <2>2. calls # << >> /\ RunIfRunnable(all, p, Tail(calls))
    BY <1>2, <1>8, <2>1 DEF start_others, NextTurn
  <2>3. p \in Objects
    BY <1>1, <2>1, <2>2, HeadTurn
  <2> QED BY <1>4, <2>2, <2>3
<1>9. ASSUME NEW res \in Results, start_answers(res)
      PROVE  TargetEffect(o)
  <2>1. PICK id \in DOMAIN running_jobs : Completed(Jobs, id, running_jobs[id], res, Tail(calls))
    BY <1>1, <1>9, AnswersRun
  <2>2. res = "success" /\ UNCHANGED starts
    BY <1>9 DEF start_answers
  <2> QED BY <2>1, <2>2 DEF Completed, TargetEffect
<1>10. ~start_returns
  BY <1>1 DEF start_returns
<1>11. \A a \in asked, res \in Results : ~jobComplete(a, res)
  BY <1>1 DEF RunInv, WithinInv
<1>12. \A t \in timerid_t : ~job_timeout_cb(t)
  BY <1>1, TimeoutRun
<1>13. CASE Idle \/ UNCHANGED vars
  <2>1. UNCHANGED <<transactions, starts>>
    BY <1>13 DEF Idle, vars, sched_vars
  <2> QED BY <1>3, <2>1 DEF Jobs
<1> QED BY <1>5, <1>7, <1>8, <1>9, <1>10, <1>11, <1>12, <1>13 DEF Next, MakeTurn

(* The first transaction has the jobs it is given, and none of them has begun. *)
LEMMA FirstTransaction ==
    ASSUME RunInv, SchedInv', [Next]_vars, transactions = << >>, transactions' # << >>
    PROVE  \E spec \in TxSpecs : /\ tx_enqueue(spec)
                                 /\ Jobs' = [o \in Objects |-> NewJob(spec[o])]
                                 /\ \A o \in Objects : starts'[o] = << >>
<1>1. calls = << >> /\ DOMAIN running_jobs = {} /\ \A o \in Objects : starts[o] = << >>
  BY DEF RunInv, SchedInv, TypeOK, BlankInv
<1>2. PICK spec \in TxSpecs : tx_enqueue(spec)
  BY <1>1 DEF Next, MakeTurn, tx_enqueue_leaves, start_others, start_answers, start_returns,
     NextTurn, jobComplete, job_timeout_cb, job_complete, Idle, vars, sched_vars
<1>3. Jobs' = [o \in Objects |-> NewJob(spec[o])]
  BY <1>2, EnqueueRun
<1> QED BY <1>1, <1>2, <1>3 DEF tx_enqueue

(* Every step keeps what TargetRestarter adds. *)
LEMMA TargetStays ==
    ASSUME RunInv, TargetInv, SchedInv', [Next]_vars, Answers = {"within"}, Results = {"success"}
    PROVE  TargetInv'
<1>1. UNCHANGED edges
  BY DEF Next, MakeTurn, tx_enqueue, tx_enqueue_leaves, start_others, start_answers, start_returns,
         jobComplete, job_timeout_cb, Idle, vars, sched_vars
<1>2. \E rank \in [Objects -> Nat] : \A o \in Objects : \A p \in edges'[o] : rank[p] < rank[o]
  BY <1>1 DEF TargetInv
<1>3. ASSUME transactions' # << >>, NEW o \in Objects
      PROVE  Jobs'[o].state \in {"awaiting", "success"}
  <2>1. CASE transactions # << >>
    BY <2>1, TargetStep DEF TargetEffect, TargetInv
  <2>2. CASE transactions = << >>
    BY <1>3, <2>2, FirstTransaction DEF NewJob
  <2> QED BY <2>1, <2>2
<1> QED BY <1>2, <1>3 DEF TargetInv

(* When restarters answer within start(), nothing runs in the event loop, and nothing can. *)
LEMMA NothingToDo ==
    ASSUME RunInv, "later" \notin Answers, InEventLoop, transactions # << >>
    PROVE  /\ DOMAIN running_jobs = {}
           /\ DOMAIN m_timers = {}
           /\ \A o \in Objects : ~job_runnable(Jobs, o)
<1>1. \A o : ~InStart(o)
  BY DEF InEventLoop, InStart
<1>2. DOMAIN running_jobs = {} /\ DOMAIN m_timers = {}
  BY <1>1 DEF RunInv, WithinInv
<1>3. \A o \in Objects : ~job_runnable(Jobs, o)
  <2>1. DOMAIN calls = {}
    BY DEF InEventLoop
  <2> QED BY <1>2, <2>1 DEF RunInv, SchedInv, WakeupInv, Running, Pending
<1> QED BY <1>2, <1>3

(***************************************************************************)
(* TargetRestarter carries out every transaction of acyclic order within   *)
(* tx_enqueue(): back in main() or in the event loop all jobs of the front *)
(* transaction have succeeded, nothing runs, and all timers are freed.     *)
(***************************************************************************)
THEOREM TargetsCarriedOut ==
    ASSUME Answers = {"within"}, Results = {"success"}, OrderAcyclic
    PROVE  Spec => []CarriedOutOnReturn
<1>1. OneKind /\ "later" \notin Answers
  BY DEF OneKind
<1>2. Init => TargetInv
  BY GraphAssumption DEF Init, TargetInv, OrderAcyclic
<1>3. RunInv /\ SchedInv' /\ TargetInv /\ [Next]_vars => TargetInv'
  BY TargetStays
<1>4. RunInv /\ TargetInv => CarriedOutOnReturn
  <2> SUFFICES ASSUME RunInv, TargetInv, InEventLoop, transactions # << >>
               PROVE  /\ \A o \in Objects : HasJob(Jobs, o) => Jobs[o].state = "success"
                      /\ DOMAIN running_jobs = {}
                      /\ DOMAIN m_timers = {}
    BY DEF CarriedOutOnReturn
  <2>2. DOMAIN running_jobs = {} /\ DOMAIN m_timers = {} /\ \A o \in Objects : ~job_runnable(Jobs, o)
    BY <1>1, NothingToDo
  <2>4. PICK rank \in [Objects -> Nat] : \A o \in Objects : \A p \in edges[o] : rank[p] < rank[o]
    BY DEF TargetInv
  <2> DEFINE Left == {o \in Objects : HasJob(Jobs, o) /\ Jobs[o].state # "success"}
             Ranks == {rank[o] : o \in Left}
  <2>5. Left = {}
    <3> SUFFICES ASSUME Left # {} PROVE FALSE
      OBVIOUS
    <3>1. Ranks \subseteq Nat /\ Ranks # {}
      OBVIOUS
    <3>2. PICK n \in Ranks : \A k \in Ranks : n <= k
      <4> HIDE DEF Ranks
      <4> QED BY <3>1, LeastNat
    <3>3. PICK o \in Left : n = rank[o]
      OBVIOUS
    <3>4. Jobs[o].state = "awaiting" /\ HasJob(Jobs, o)
      BY DEF TargetInv
    <3>5. PICK p \in edges[o] : HasJob(Jobs, p) /\ Jobs[p].state # "success"
      BY <2>2, <3>4 DEF job_runnable
    <3>6. p \in Left /\ rank[p] < rank[o]
      BY <2>4, <3>5 DEF RunInv, SchedInv, TypeOK
    <3>7. rank[p] \in Ranks /\ rank[p] \in Nat /\ rank[o] \in Nat
      BY <3>6
    <3> HIDE DEF Ranks, Left
    <3>8. rank[o] <= rank[p]
      BY <3>2, <3>3, <3>7
    <3> QED BY <3>6, <3>7, <3>8
  <2> QED BY <2>2, <2>5
<1> QED BY <1>1, <1>2, <1>3, <1>4, RunInvariant, SchedInvariant, PTL DEF Spec

-----------------------------------------------------------------------------
(* The refinement                                                          *)

(* Work and status of an object depend on its own job and its own starts. *)
LEMMA SameStatus ==
    ASSUME transactions # << >>, transactions' # << >>, NEW o \in Objects,
           Jobs'[o].type = Jobs[o].type, Jobs'[o].state = Jobs[o].state,
           Begun(o)' <=> Begun(o)
    PROVE  work'[o] = work[o] /\ status'[o] = status[o]
<1>1. work'[o] = Jobs'[o].type /\ work[o] = Jobs[o].type
  BY DEF work
<1>2. /\ status[o] = IF work[o] = "none" THEN "none"
                     ELSE CASE Jobs[o].state = "success" -> "succeeded"
                            [] Jobs[o].state = "awaiting" -> IF Begun(o) THEN "running" ELSE "waiting"
                            [] OTHER -> "failed"
      /\ status'[o] = IF work'[o] = "none" THEN "none"
                      ELSE CASE Jobs'[o].state = "success" -> "succeeded"
                             [] Jobs'[o].state = "awaiting" -> IF Begun(o)' THEN "running" ELSE "waiting"
                             [] OTHER -> "failed"
  BY DEF status
<1> QED BY <1>1, <1>2

(* If that is the same for all objects it is a stuttering step. *)
LEMMA Stutters ==
    ASSUME \A o \in Objects : work'[o] = work[o] /\ status'[o] = status[o], UNCHANGED edges
    PROVE  UNCHANGED Abstract!vars
<1>1. work' = work
  BY DEF work
<1>2. status' = status
  BY DEF status
<1> QED BY <1>1, <1>2 DEF Abstract!vars

(* What is running, waiting or done in terms of the scheduler. *)
LEMMA StatusFacts ==
    ASSUME TypeOK, transactions # << >>, NEW o \in Objects
    PROVE  /\ work[o] = Jobs[o].type
           /\ work \in [Objects -> JobTypes \cup {"none"}]
           /\ status = [p \in Objects |-> status[p]]
           /\ HasJob(Jobs, o) /\ Jobs[o].state = "success" => status[o] = "succeeded"
           /\ HasJob(Jobs, o) /\ Jobs[o].state = "awaiting" =>
                 status[o] = IF Begun(o) THEN "running" ELSE "waiting"
<1>1. Jobs \in [Objects -> Job]
  BY WithFrontType DEF TypeOK, Jobs
<1>2. \A p \in Objects : work[p] = Jobs[p].type /\ Jobs[p].type \in JobTypes \cup {"none"}
  BY <1>1 DEF work, Job
<1>3. work \in [Objects -> JobTypes \cup {"none"}]
  BY <1>2 DEF work
<1>4. status = [p \in Objects |-> status[p]]
  BY DEF status
<1>5. status[o] = IF work[o] = "none" THEN "none"
                  ELSE CASE Jobs[o].state = "success" -> "succeeded"
                         [] Jobs[o].state = "awaiting" -> IF Begun(o) THEN "running" ELSE "waiting"
                         [] OTHER -> "failed"
  BY DEF status
<1> QED BY <1>2, <1>3, <1>4, <1>5 DEF HasJob

(* job_run() begins the job, or calls start() again for one that has begun. *)
LEMMA RunBegins ==
    ASSUME TypeOK, transactions # << >>, NEW o \in Objects, NEW jobs, NEW rest, NEW t,
           Numbered(jobs, o), job_runnable(jobs, o), Ran(jobs, o, rest, t),
           Begun(o)', UNCHANGED edges
    PROVE  Abstract!Begin(o) \/ UNCHANGED Abstract!vars
<1>1. /\ HasJob(Jobs, o) /\ Jobs[o].state = "awaiting"
      /\ \A p \in edges[o] :
            HasJob(jobs, p) /\ after_order(jobs[p]) = 1 => jobs[p].state = "success"
  BY DEF job_runnable, HasJob, Numbered
<1>2. ASSUME NEW p \in Objects, p # o PROVE work'[p] = work[p] /\ status'[p] = status[p]
  <2>1. Jobs'[p] = Jobs[p] /\ starts'[p] = starts[p] /\ transactions' # << >>
    BY <1>2 DEF Ran, Numbered
  <2>2. Begun(p)' <=> Begun(p)
    BY <2>1 DEF Begun
  <2> QED BY <2>1, <2>2, SameStatus
<1>3. Jobs'[o].type = Jobs[o].type /\ Jobs'[o].state = Jobs[o].state /\ transactions' # << >>
  BY DEF Ran, Numbered
<1>4. CASE Begun(o)
  <2>1. work'[o] = work[o] /\ status'[o] = status[o]
    BY <1>3, <1>4, SameStatus
  <2>2. \A p \in Objects : work'[p] = work[p] /\ status'[p] = status[p]
    BY <1>2, <2>1
  <2> QED BY <2>2, Stutters
<1>5. CASE ~Begun(o)
  <2>1. status[o] = "waiting"
    BY <1>1, <1>5, StatusFacts
  <2>2. work'[o] = work[o] /\ status'[o] = "running"
    <3>1. work'[o] = Jobs'[o].type /\ work[o] = Jobs[o].type
      BY <1>3 DEF work
    <3>2. status'[o] = IF work'[o] = "none" THEN "none"
                       ELSE CASE Jobs'[o].state = "success" -> "succeeded"
                              [] Jobs'[o].state = "awaiting" -> IF Begun(o)' THEN "running" ELSE "waiting"
                              [] OTHER -> "failed"
      BY DEF status
    <3> QED BY <1>1, <1>3, <3>1, <3>2 DEF HasJob
  <2>3. work' = work
    <3>1. \A p \in Objects : work'[p] = work[p]
      BY <1>2, <2>2
    <3> QED BY <3>1 DEF work
  <2>4. status' = [status EXCEPT ![o] = "running"]
    <3>1. status' = [p \in Objects |-> status'[p]] /\ status = [p \in Objects |-> status[p]]
      BY DEF status
    <3>2. \A p \in Objects : status'[p] = [status EXCEPT ![o] = "running"][p]
      BY <1>2, <2>2, <3>1
    <3> QED BY <3>1, <3>2
  <2>5. ASSUME NEW p \in edges[o], work[p] \notin {"none", "stop", "restart"}
        PROVE  status[p] = "succeeded"
    <3>1. p \in Objects
      BY DEF TypeOK
    <3>2. work[p] = Jobs[p].type
      BY <3>1, StatusFacts
    <3>3. jobs[p].type = Jobs[p].type /\ jobs[p].state = Jobs[p].state
      BY <3>1 DEF Numbered
    <3>4. HasJob(Jobs, p) /\ Jobs[p].state = "success"
      BY <1>1, <2>5, <3>2, <3>3 DEF HasJob, after_order
    <3> QED BY <3>1, <3>4, StatusFacts
  <2> QED BY <2>1, <2>3, <2>4, <2>5 DEF Abstract!Begin, Abstract!Ahead
<1> QED BY <1>4, <1>5

(* A turn of either loop is a step of JobOrder or none. *)
LEMMA LookRefines ==
    ASSUME TypeOK, calls # << >>, NEW o \in Objects, NEW jobs \in [Objects -> Job],
           Numbered(jobs, o), RunIfRunnable(jobs, o, Tail(calls)), UNCHANGED edges
    PROVE  Abstract!Begin(o) \/ UNCHANGED Abstract!vars
<1>1. transactions # << >> /\ Tail(calls) \in Seq(Turn)
  BY HeadTurn
<1>2. CASE job_runnable(jobs, o) /\ job_run(jobs, o, Tail(calls))
  <2>1. PICK t : Ran(jobs, o, Tail(calls), t)
    BY <1>1, <1>2, RunEffect
  <2>2. jobs[o].type \in JobTypes /\ starts[o] \in Seq(JobTypes)
    BY <1>2 DEF job_runnable, HasJob, Job, TypeOK
  <2>3. starts'[o] # << >> /\ starts'[o][Len(starts'[o])] = jobs[o].type
    BY <2>1, <2>2, AppendRepeats DEF Ran
  <2>4. Begun(o)'
    BY <2>1, <2>3 DEF Begun, Ran
  <2> QED BY <1>1, <1>2, <2>1, <2>4, RunBegins
<1>3. CASE ~job_runnable(jobs, o)
  <2>1. transactions' = WithFront(jobs) /\ UNCHANGED starts
    BY <1>3 DEF RunIfRunnable
  <2>2. transactions' # << >> /\ Jobs' = jobs
    BY <1>1, <2>1, WithFrontType DEF Jobs
  <2>3. ASSUME NEW p \in Objects PROVE work'[p] = work[p] /\ status'[p] = status[p]
    <3>1. Jobs'[p].type = Jobs[p].type /\ Jobs'[p].state = Jobs[p].state
      BY <2>2 DEF Numbered
    <3>2. Begun(p)' <=> Begun(p)
      BY <2>1, <3>1 DEF Begun
    <3> QED BY <1>1, <2>2, <3>1, <3>2, SameStatus
  <2> QED BY <2>3, Stutters
<1> QED BY <1>2, <1>3 DEF RunIfRunnable

(* A completion settles a job that is running, and no other. *)
LEMMA CompletionRefines ==
    ASSUME RunInv, transactions # << >>, NEW id \in DOMAIN running_jobs,
           NEW jobs, NEW rest, NEW res \in States \ {"awaiting"},
           \A p \in Objects : jobs[p].type = Jobs[p].type /\ jobs[p].state = Jobs[p].state,
           Completed(jobs, id, running_jobs[id], res, rest),
           UNCHANGED starts, UNCHANGED edges
    PROVE  \E o \in Objects : Abstract!Succeed(o) \/ Abstract!Fail(o)
<1>1. TypeOK
  BY DEF RunInv, SchedInv
<1>2. PICK o \in Objects : o = running_jobs[id]
  BY <1>1 DEF TypeOK
<1>3. HasJob(Jobs, o) /\ Jobs[o].state = "awaiting" /\ Begun(o)
  BY <1>2 DEF RunInv, EntryInv, Entry
<1>4. /\ status[o] = "running" /\ work[o] = Jobs[o].type
      /\ status = [p \in Objects |-> status[p]]
      /\ work \in [Objects -> JobTypes \cup {"none"}]
  BY <1>1, <1>3, StatusFacts
<1>5. ASSUME NEW p \in Objects, p # o PROVE work'[p] = work[p] /\ status'[p] = status[p]
  <2>1. Jobs'[p].type = Jobs[p].type /\ Jobs'[p].state = Jobs[p].state /\ transactions' # << >>
    BY <1>2, <1>5 DEF Completed
  <2>2. Begun(p)' <=> Begun(p)
    BY <2>1 DEF Begun
  <2> QED BY <2>1, <2>2, SameStatus
<1>6. work'[o] = Jobs'[o].type
  BY <1>2 DEF work, Completed
<1>7. status'[o] = IF work'[o] = "none" THEN "none"
                   ELSE CASE Jobs'[o].state = "success" -> "succeeded"
                          [] Jobs'[o].state = "awaiting" -> IF Begun(o)' THEN "running" ELSE "waiting"
                          [] OTHER -> "failed"
  BY DEF status
<1>8. status' = [p \in Objects |-> status'[p]] /\ work' = [p \in Objects |-> work'[p]]
  BY DEF status, work
<1>9. \A x : status'[o] = x => status' = [status EXCEPT ![o] = x]
  <2> SUFFICES ASSUME NEW x, status'[o] = x PROVE status' = [status EXCEPT ![o] = x]
    OBVIOUS
  <2>1. \A p \in Objects : status'[p] = [status EXCEPT ![o] = x][p]
    BY <1>4, <1>5
  <2> QED BY <1>4, <1>8, <2>1
<1>10. \A x : work'[o] = x => work' = [work EXCEPT ![o] = x]
  <2> SUFFICES ASSUME NEW x, work'[o] = x PROVE work' = [work EXCEPT ![o] = x]
    OBVIOUS
  <2>1. \A p \in Objects : work'[p] = [work EXCEPT ![o] = x][p]
    BY <1>4, <1>5
  <2> QED BY <1>4, <1>8, <2>1
<1>11. CASE res = "success" /\ Jobs[o].type = "restart"
  <2>1. Jobs'[o].type = "start" /\ Jobs'[o].state = "awaiting"
    BY <1>2, <1>11 DEF Completed
  <2>2. ~Begun(o)'
    BY <1>3, <1>11, <2>1 DEF Begun
  <2>3. work' = [work EXCEPT ![o] = "start"] /\ status' = [status EXCEPT ![o] = "waiting"]
    BY <1>6, <1>7, <1>9, <1>10, <2>1, <2>2
  <2>4. Abstract!Succeed(o)
    BY <1>4, <1>11, <2>3 DEF Abstract!Succeed
  <2> QED BY <2>4
<1>12. CASE ~(res = "success" /\ Jobs[o].type = "restart")
  <2>1. Jobs'[o].type = Jobs[o].type /\ Jobs'[o].state = res /\ Jobs[o].type # "none"
    BY <1>2, <1>3, <1>12 DEF Completed, HasJob
  <2>2. work' = work
    BY <1>4, <1>6, <1>10, <2>1
  <2>3. CASE res = "success"
    <3>1. status' = [status EXCEPT ![o] = "succeeded"]
      BY <1>6, <1>7, <1>9, <2>1, <2>3
    <3>2. Abstract!Succeed(o)
      BY <1>4, <1>12, <2>2, <2>3, <3>1 DEF Abstract!Succeed
    <3> QED BY <3>2
  <2>4. CASE res # "success"
    <3>1. status' = [status EXCEPT ![o] = "failed"]
      BY <1>6, <1>7, <1>9, <2>1, <2>4
    <3>2. Abstract!Fail(o)
      BY <1>4, <2>2, <3>1 DEF Abstract!Fail
    <3> QED BY <3>2
  <2> QED BY <2>3, <2>4
<1> QED BY <1>11, <1>12

(* tx_enqueue() takes up the first transaction; another one changes nothing. *)
LEMMA EnqueueRefines ==
    ASSUME RunInv, SchedInv', NEW spec \in TxSpecs, tx_enqueue(spec)
    PROVE  Abstract!TakeUp \/ UNCHANGED Abstract!vars
<1>1. UNCHANGED edges /\ UNCHANGED starts
  BY DEF tx_enqueue
<1>2. CASE transactions # << >>
  <2>1. transactions' # << >> /\ UNCHANGED Jobs
    BY <1>2, EnqueueRun
  <2>2. ASSUME NEW o \in Objects PROVE work'[o] = work[o] /\ status'[o] = status[o]
    <3>1. Begun(o)' <=> Begun(o)
      BY <1>1, <2>1 DEF Begun
    <3> QED BY <1>2, <2>1, <3>1, SameStatus
  <2> QED BY <1>1, <2>2, Stutters
<1>3. CASE transactions = << >>
  <2>1. /\ transactions' # << >> /\ TypeOK'
        /\ \A o \in Objects : starts'[o] = << >>
        /\ Jobs' = [o \in Objects |-> NewJob(spec[o])]
    BY <1>1, <1>3, EnqueueRun DEF RunInv, BlankInv, SchedInv
  <2>2. \A o \in Objects : spec[o] \in JobTypes \cup {"none"}
    BY JobSchedAssumption
  <2>3. \A o \in Objects : Jobs'[o].type = spec[o] /\ Jobs'[o].state = "awaiting" /\ ~Begun(o)'
    BY <2>1 DEF NewJob, Begun
  <2>4. \A o \in Objects : status[o] = "none"
    BY <1>3 DEF status, work
  <2>5. \A o \in Objects : work'[o] = spec[o]
    BY <2>1, <2>3 DEF work
  <2>6. work' \in [Objects -> JobTypes \cup {"none"}]
    <3>1. work' = [o \in Objects |-> work'[o]]
      BY DEF work
    <3> QED BY <2>2, <2>5, <3>1
  <2>7. status' = [o \in Objects |-> IF work'[o] = "none" THEN "none" ELSE "waiting"]
    <3>1. ASSUME NEW o \in Objects
          PROVE  status'[o] = IF work'[o] = "none" THEN "none" ELSE "waiting"
      <4>1. status'[o] = IF work'[o] = "none" THEN "none"
                         ELSE CASE Jobs'[o].state = "success" -> "succeeded"
                                [] Jobs'[o].state = "awaiting" -> IF Begun(o)' THEN "running" ELSE "waiting"
                                [] OTHER -> "failed"
        BY DEF status
      <4> QED BY <2>3, <4>1
    <3>2. status' = [o \in Objects |-> status'[o]]
      BY DEF status
    <3> QED BY <3>1, <3>2
  <2> QED BY <1>1, <2>4, <2>6, <2>7 DEF Abstract!TakeUp
<1> QED BY <1>2, <1>3

(* Before the first transaction there is nothing to do. *)
LEMMA InitRefines == Init => Abstract!Init
<1> SUFFICES ASSUME Init PROVE Abstract!Init
  OBVIOUS
<1>1. edges \in [Objects -> SUBSET Objects]
  BY GraphAssumption DEF Init
<1>2. work = [o \in Objects |-> "none"]
  BY DEF Init, work
<1>3. status = [o \in Objects |-> "none"]
  BY <1>2 DEF status
<1> QED BY <1>1, <1>2, <1>3 DEF Abstract!Init

(* Every step of the scheduler is a step of JobOrder or none. *)
LEMMA StepRefines ==
    ASSUME OneKind, RunInv, SchedInv', [Next]_vars
    PROVE  [Abstract!Next]_(Abstract!vars)
<1>1. TypeOK
  BY DEF RunInv, SchedInv
<1>2. ASSUME NEW spec \in TxSpecs, tx_enqueue(spec) PROVE [Abstract!Next]_(Abstract!vars)
  BY <1>2, EnqueueRefines DEF Abstract!Next
<1>3. ASSUME calls # << >>, NEW o \in Objects, NEW jobs \in [Objects -> Job],
             Numbered(jobs, o), RunIfRunnable(jobs, o, Tail(calls)), UNCHANGED edges
      PROVE  [Abstract!Next]_(Abstract!vars)
  BY <1>1, <1>3, LookRefines DEF Abstract!Next
<1>4. CASE tx_enqueue_leaves
  <2>1. PICK o : o = Head(calls).o
    OBVIOUS
  <2> DEFINE new == HasJob(Jobs, o) /\ Jobs[o].id = -1
             jobs == [Jobs EXCEPT ![o].id = IF new THEN last_jobid ELSE @]
  <2>2. calls # << >> /\ RunIfRunnable(jobs, o, Tail(calls)) /\ UNCHANGED edges
    BY <1>4, <2>1 DEF tx_enqueue_leaves, NextTurn
  <2>3. transactions # << >> /\ o \in Objects /\ last_jobid \in Nat
    BY <1>1, <2>1, <2>2, HeadTurn DEF TypeOK
  <2>4. Jobs \in [Objects -> Job]
    BY <1>1, <2>3, WithFrontType DEF Jobs, TypeOK
  <2>5. jobs \in [Objects -> Job] /\ Numbered(jobs, o)
    BY <2>3, <2>4 DEF Job, Numbered, HasJob
  <2> HIDE DEF jobs
  <2> QED BY <1>3, <2>2, <2>3, <2>5
<1>5. CASE start_others
  <2>1. PICK o : o = Head(calls).o
    OBVIOUS
  <2>2. calls # << >> /\ RunIfRunnable(Jobs, o, Tail(calls)) /\ UNCHANGED edges
    BY <1>5, <2>1 DEF start_others, NextTurn
  <2>3. transactions # << >> /\ o \in Objects
    BY <1>1, <2>1, <2>2, HeadTurn
  <2>4. PICK jobs \in [Objects -> Job] : jobs = Jobs
    BY <1>1, <2>3, WithFrontType DEF Jobs, TypeOK
  <2>5. Numbered(jobs, o)
    BY <2>4 DEF Numbered
  <2> QED BY <1>3, <2>2, <2>3, <2>4, <2>5
<1>6. ASSUME NEW id \in DOMAIN running_jobs, NEW jobs, NEW rest, NEW res \in States \ {"awaiting"},
             \A p \in Objects : jobs[p].type = Jobs[p].type /\ jobs[p].state = Jobs[p].state,
             Completed(jobs, id, running_jobs[id], res, rest),
             UNCHANGED starts, UNCHANGED edges
      PROVE  [Abstract!Next]_(Abstract!vars)
  <2>1. transactions # << >>
    BY <1>1 DEF TypeOK
  <2> QED BY <1>6, <2>1, CompletionRefines DEF Abstract!Next
<1>7. ASSUME UNCHANGED transactions, UNCHANGED starts, UNCHANGED edges
      PROVE  [Abstract!Next]_(Abstract!vars)
  <2>1. UNCHANGED work /\ UNCHANGED status
    BY <1>7 DEF work, status, Begun, Jobs
  <2> QED BY <1>7, <2>1 DEF Abstract!vars
<1>8. ASSUME NEW res \in Results, start_answers(res) PROVE [Abstract!Next]_(Abstract!vars)
  <2>1. PICK id \in DOMAIN running_jobs : Completed(Jobs, id, running_jobs[id], res, Tail(calls))
    BY <1>8, AnswersRun
  <2>2. UNCHANGED starts /\ UNCHANGED edges
    BY <1>8 DEF start_answers
  <2>3. res \in States \ {"awaiting"}
    BY JobSchedAssumption
  <2> QED BY <1>6, <2>1, <2>2, <2>3
<1>9. CASE start_returns
  BY <1>7, <1>9 DEF start_returns
<1>10. ASSUME NEW a \in asked, NEW res \in Results, jobComplete(a, res)
       PROVE  [Abstract!Next]_(Abstract!vars)
  <2>1. UNCHANGED starts /\ UNCHANGED edges
    BY <1>10 DEF jobComplete
  <2>2. res \in States \ {"awaiting"}
    BY JobSchedAssumption
  <2>3. \/ \E id \in DOMAIN running_jobs : Completed(Jobs, id, running_jobs[id], res, << >>)
        \/ UNCHANGED transactions
    BY <1>10, JsCompleteRun
  <2> QED BY <1>6, <1>7, <2>1, <2>2, <2>3
<1>11. ASSUME NEW t \in timerid_t, job_timeout_cb(t) PROVE [Abstract!Next]_(Abstract!vars)
  <2>1. UNCHANGED starts /\ UNCHANGED edges
    BY <1>11 DEF job_timeout_cb
  <2>2. "timeout" \in States \ {"awaiting"}
    BY DEF States
  <2>3. \/ \E id \in DOMAIN running_jobs : \E jobs :
              /\ \A p \in Objects : jobs[p].type = Jobs[p].type /\ jobs[p].state = Jobs[p].state
              /\ Completed(jobs, id, running_jobs[id], "timeout", << >>)
        \/ UNCHANGED transactions
    BY <1>11, TimeoutRun
  <2> QED BY <1>6, <1>7, <2>1, <2>2, <2>3
<1>12. CASE Idle \/ UNCHANGED vars
  BY <1>7, <1>12 DEF Idle, vars, sched_vars
<1> QED BY <1>2, <1>4, <1>5, <1>8, <1>9, <1>10, <1>11, <1>12 DEF Next, MakeTurn

(***************************************************************************)
(* The job scheduler implements JobOrder, for every order graph and any    *)
(* transactions, with restarters of either kind: through nested calls,     *)
(* repeated starts, timeouts and late answers a job begins only when those *)
(* ahead of it have succeeded, and moves once from running to its result.  *)
(***************************************************************************)
THEOREM ImplementsOrder == ASSUME OneKind PROVE Spec => ImplementsJobOrder
<1>1. RunInv /\ SchedInv' /\ [Next]_vars => [Abstract!Next]_(Abstract!vars)
  BY StepRefines
<1> QED BY <1>1, InitRefines, RunInvariant, SchedInvariant, PTL
       DEF Spec, ImplementsJobOrder, Abstract!Spec
=============================================================================
