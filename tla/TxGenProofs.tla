---------------------------- MODULE TxGenProofs -----------------------------
(***************************************************************************)
(* Proofs about TxGen, for every object graph and every goal: what the     *)
(* three phases of the Transaction constructor keep true.                  *)
(***************************************************************************)
EXTENDS TxGen, ListsProofs, FiniteSetTheorems

-----------------------------------------------------------------------------
(* The inductive invariant                                                 *)

(* Requirements, and the visits still to be made, are of jobs that exist. *)
LinkInv ==
    /\ ReqsConnectJobs
    /\ \A k \in DOMAIN agenda : InTx(agenda[k].from)
    /\ phase # "submit" => agenda = << >>

(***************************************************************************)
(* Until jobs are merged, a job that is marked as required for the goal is *)
(* the objective or has a goal-required requirement on it, by a job that   *)
(* is marked itself: object_requires_all_jobs() looks at the requirements, *)
(* merge_jobs() at the marks, and they have to agree.                      *)
(***************************************************************************)
GoalInv ==
    /\ \E j \in goal_required : j.object = objective.object
    /\ phase \in {"submit", "verify"} =>
          /\ objective \in goal_required
          /\ \A r \in reqs : r.goal_required => r.from \in goal_required
          /\ \A j \in goal_required :
                j = objective \/ \E r \in reqs : r.to = j /\ r.goal_required

(* o has a kAfter edge to p. *)
Ordered(o, p) == \E e \in Range(edges[o]) : "After" \in e.type /\ e.to = p

(* The path of object_creates_cycle() is a chain of ordered objects with jobs. *)
PathInv ==
    /\ phase = "submit" => cursor = 1 /\ removed = {}
    /\ path # << >> => cursor <= Len(Order) /\ path[1].object = Order[cursor]
    /\ \A k \in 1 .. Len(path) : HasJobs(path[k].object) /\ path[k].next >= 1
    /\ \A k \in 1 .. (Len(path) - 1) : Ordered(path[k].object, path[k + 1].object)

(* Each object of S has jobs, and is ordered after an object of S. *)
Circular(S) ==
    /\ S # {}
    /\ \A o \in S : HasJobs(o) /\ \E p \in S : Ordered(o, p)

(***************************************************************************)
(* As long as no cycle has been met, no object that is done with belongs   *)
(* to a circular set, and one on the path that does has an edge into the   *)
(* set to come, or is followed on the path by an object of the set.        *)
(***************************************************************************)
SearchInv ==
    phase = "verify" /\ removed = {} =>
        \A S \in SUBSET Objects : Circular(S) =>
            /\ \A i \in 1 .. (cursor - 1) : Order[i] \notin S
            /\ \A k \in 1 .. Len(path) : path[k].object \in S =>
                  \/ \E m \in DOMAIN After(path[k].object) :
                        m >= path[k].next /\ After(path[k].object)[m].to \in S
                  \/ k < Len(path) /\ path[k + 1].object \in S

(* The objects merge_jobs() is done with have no more than one job. *)
MergeInv ==
    /\ phase = "merge" => \A i \in 1 .. (cursor - 1) : Len(jobs[Order[i]]) <= 1
    /\ phase = "done" => \A o \in Objects : Len(jobs[o]) <= 1

TxInv ==
    /\ TypeOK
    /\ LinkInv
    /\ GoalInv
    /\ NothingLeftOut
    /\ PathInv
    /\ SearchInv
    /\ AcyclicUnlessRemoved
    /\ MergeInv

(* An object with a job that is required for the goal keeps such a job. *)
GoalKept == \A j \in goal_required : \E k \in goal_required' : k.object = j.object

-----------------------------------------------------------------------------
(* Facts about the operators of the model                                  *)

(* The visit of an edge on behalf of job j. *)
Along(j, e, op, required) == [from |-> j, to |-> e.to, op |-> op, required |-> required]

(* A pass over a list of edges. *)
LEMMA EdgeFilter ==
    ASSUME NEW s \in Seq(Edge), NEW T
    PROVE  /\ Filter(s, T) \in Seq(Edge)
           /\ \A k \in DOMAIN Filter(s, T) :
                 Filter(s, T)[k] \in T /\ \E i \in DOMAIN s : s[i] = Filter(s, T)[k]
           /\ \A i \in DOMAIN s :
                 s[i] \in T => \E k \in DOMAIN Filter(s, T) : Filter(s, T)[k] = s[i]
BY FilterFacts

(* The visits that edges of one kind lead to. *)
VisitsOf(j, k, op, required) ==
    {Along(j, e, op, required) : e \in {x \in Range(edges[j.object]) : k \in x.type}}

(* One pass over the edges of an object: a visit for each edge of that type. *)
LEMMA PassElements ==
    ASSUME edges \in [Objects -> Seq(Edge)], NEW j \in Job, NEW type, NEW op, NEW required
    PROVE  /\ Range(Pass(j, type, op, required)) = VisitsOf(j, type, op, required)
           /\ \E n \in Nat : DOMAIN Pass(j, type, op, required) = 1 .. n
           /\ Pass(j, type, op, required) =
                 [k \in DOMAIN Pass(j, type, op, required) |-> Pass(j, type, op, required)[k]]
<1> DEFINE s == edges[j.object]
           T == {e \in Edge : type \in e.type}
           es == Filter(s, T)
<1>1. s \in Seq(Edge) /\ \A i \in DOMAIN s : s[i] \in Edge
  <2>1. s \in Seq(Edge)
    BY DEF Job
  <2> QED BY <2>1, LenProperties, ElementOfSeq
<1>3. /\ es \in Seq(Edge)
      /\ \A k \in DOMAIN es : es[k] \in T /\ \E i \in DOMAIN s : s[i] = es[k]
      /\ \A i \in DOMAIN s : s[i] \in T => \E k \in DOMAIN es : es[k] = s[i]
  <2> HIDE DEF s, T
  <2> QED BY <1>1, EdgeFilter
<1>4. Pass(j, type, op, required) = [k \in DOMAIN es |-> Along(j, es[k], op, required)]
  BY DEF Pass, Along
<1> HIDE DEF es, s
<1>5. Len(es) \in Nat /\ DOMAIN es = 1 .. Len(es)
  BY <1>3, LenProperties
<1>6. ASSUME NEW k \in DOMAIN Pass(j, type, op, required)
      PROVE  \E i \in DOMAIN s :
                /\ type \in s[i].type
                /\ Pass(j, type, op, required)[k] = Along(j, s[i], op, required)
  BY <1>3, <1>4
<1>7. ASSUME NEW i \in DOMAIN s, type \in s[i].type
      PROVE  \E k \in DOMAIN Pass(j, type, op, required) :
                Pass(j, type, op, required)[k] = Along(j, s[i], op, required)
  <2>1. PICK k \in DOMAIN es : es[k] = s[i]
    BY <1>1, <1>3, <1>7
  <2> QED BY <1>4, <2>1
<1>8. \E n \in Nat : DOMAIN Pass(j, type, op, required) = 1 .. n
  BY <1>4, <1>5
<1>9. Pass(j, type, op, required) =
        [k \in DOMAIN Pass(j, type, op, required) |-> Pass(j, type, op, required)[k]]
  BY <1>4
<1> DEFINE p == Pass(j, type, op, required)
<1>10. Range(p) = VisitsOf(j, type, op, required)
  <2> HIDE DEF p
  <2>1. ASSUME NEW v \in Range(p) PROVE v \in VisitsOf(j, type, op, required)
    <3>1. PICK k \in DOMAIN p : v = p[k]
      BY DEF Range
    <3>2. PICK i \in DOMAIN s : type \in s[i].type /\ p[k] = Along(j, s[i], op, required)
      BY <1>6 DEF p
    <3>3. s[i] \in Range(s)
      BY DEF Range
    <3> QED BY <3>1, <3>2, <3>3 DEF VisitsOf, s
  <2>2. ASSUME NEW v \in VisitsOf(j, type, op, required) PROVE v \in Range(p)
    <3>1. PICK e \in Range(s) : type \in e.type /\ v = Along(j, e, op, required)
      BY <2>2 DEF VisitsOf, s
    <3>2. PICK i \in DOMAIN s : e = s[i]
      BY DEF Range
    <3>3. PICK k \in DOMAIN p : p[k] = Along(j, s[i], op, required)
      BY <1>7, <3>1, <3>2 DEF p
    <3> QED BY <3>1, <3>2, <3>3 DEF Range
  <2> QED BY <2>1, <2>2
<1> QED BY <1>8, <1>9, <1>10

(* One pass returns visits from that job. *)
LEMMA PassType ==
    ASSUME edges \in [Objects -> Seq(Edge)], NEW j \in Job,
           NEW type, NEW op \in JobTypes, NEW required \in BOOLEAN
    PROVE  Pass(j, type, op, required) \in Seq({v \in Visit : v.from = j})
<1> DEFINE From == {v \in Visit : v.from = j}
           p == Pass(j, type, op, required)
<1>1. /\ Range(p) = VisitsOf(j, type, op, required)
      /\ \E n \in Nat : DOMAIN p = 1 .. n
      /\ p = [k \in DOMAIN p |-> p[k]]
  BY PassElements
<1> HIDE DEF p
<1>2. \A e \in Range(edges[j.object]) : e \in Edge
  <2>1. edges[j.object] \in Seq(Edge)
    BY DEF Job
  <2> QED BY <2>1, LenProperties, ElementOfSeq DEF Range
<1>3. \A e \in Edge : Along(j, e, op, required) \in From
  BY DEF Along, Edge, Visit
<1>4. \A v \in VisitsOf(j, type, op, required) : v \in From
  BY <1>2, <1>3 DEF VisitsOf
<1>5. \A k \in DOMAIN p : p[k] \in From
  BY <1>1, <1>4 DEF Range
<1>6. PICK n \in Nat : DOMAIN p = 1 .. n
  BY <1>1
<1>7. [k \in 1 .. n |-> p[k]] \in Seq(From)
  BY <1>5, <1>6, IsASeq
<1> QED BY <1>1, <1>6, <1>7 DEF p

(* The visits for a job are visits from that job. *)
LEMMA VisitsType ==
    ASSUME edges \in [Objects -> Seq(Edge)], NEW j \in Job
    PROVE  /\ Visits(j) \in Seq(Visit)
           /\ \A k \in DOMAIN Visits(j) : Visits(j)[k].from = j
<1> DEFINE From == {v \in Visit : v.from = j}
<1>1. ASSUME NEW type, NEW op \in JobTypes, NEW required \in BOOLEAN
      PROVE  Pass(j, type, op, required) \in Seq(From)
  BY <1>1, PassType
<1> HIDE DEF From
<1>2. \A s, t \in Seq(From) : s \o t \in Seq(From)
  BY ConcatProperties
<1>3. << >> \in Seq(From)
  BY EmptySeq
<1>4. /\ Pass(j, "AddStart", "start", TRUE) \in Seq(From)
      /\ Pass(j, "AddStartNonreq", "start", FALSE) \in Seq(From)
      /\ Pass(j, "AddVerify", "verify", TRUE) \in Seq(From)
      /\ Pass(j, "AddStop", "stop", TRUE) \in Seq(From)
      /\ Pass(j, "AddStopNonreq", "stop", FALSE) \in Seq(From)
      /\ Pass(j, "PropagatesStopTo", "stop", TRUE) \in Seq(From)
      /\ Pass(j, "PropagatesReloadTo", "tryreload", TRUE) \in Seq(From)
      /\ Pass(j, "PropagatesRestartTo", "tryrestart", TRUE) \in Seq(From)
  BY <1>1 DEF JobTypes
<1>5. Visits(j) \in Seq(From)
  BY <1>2, <1>3, <1>4 DEF Visits
<1>6. From \subseteq Visit /\ \A v \in From : v.from = j
  BY DEF From
<1>7. Visits(j) \in Seq(Visit)
  BY <1>5, <1>6, SeqMonotonic
<1>8. \A k \in DOMAIN Visits(j) : Visits(j)[k] \in From
  BY <1>5, LenProperties, ElementOfSeq
<1> QED BY <1>6, <1>7, <1>8

(* The edges do not change, and neither does what they ask for. *)
LEMMA SameVisits ==
    ASSUME UNCHANGED edges, NEW j
    PROVE  Visits(j)' = Visits(j)
BY DEF Visits, Pass

(* The jobs that the list of an object stands for. *)
LEMMA ListedJobs ==
    ASSUME NEW f \in [Objects -> Seq(JobTypes)], NEW o \in Objects
    PROVE  \A j : j \in {[object |-> o, type |-> f[o][k]] : k \in DOMAIN f[o]} <=>
                    j \in Job /\ j.object = o /\ \E k \in DOMAIN f[o] : f[o][k] = j.type
<1> DEFINE L == {[object |-> o, type |-> f[o][k]] : k \in DOMAIN f[o]}
<1>1. f[o] \in Seq(JobTypes) /\ \A k \in DOMAIN f[o] : f[o][k] \in JobTypes
  <2>1. f[o] \in Seq(JobTypes)
    OBVIOUS
  <2> QED BY <2>1, LenProperties, ElementOfSeq
<1>2. ASSUME NEW j, j \in L
      PROVE  j \in Job /\ j.object = o /\ \E k \in DOMAIN f[o] : f[o][k] = j.type
  <2>1. PICK k \in DOMAIN f[o] : j = [object |-> o, type |-> f[o][k]]
    BY <1>2
  <2> QED BY <1>1, <2>1 DEF Job
<1>3. ASSUME NEW j \in Job, j.object = o, NEW k \in DOMAIN f[o], f[o][k] = j.type
      PROVE  j \in L
  <2>1. j = [object |-> o, type |-> f[o][k]]
    BY <1>3 DEF Job
  <2> QED BY <2>1
<1> QED BY <1>2, <1>3

(* The jobs of an object. *)
LEMMA JobsOfFacts ==
    ASSUME TypeOK, NEW o \in Objects
    PROVE  \A j : j \in JobsOf(o) <=> j \in Job /\ j.object = o /\ InTx(j)
<1>1. jobs \in [Objects -> Seq(JobTypes)]
  BY DEF TypeOK
<1>2. \A j : j \in JobsOf(o) <=>
               j \in Job /\ j.object = o /\ \E k \in DOMAIN jobs[o] : jobs[o][k] = j.type
  BY <1>1, ListedJobs DEF JobsOf
<1> QED BY <1>2 DEF InTx

(* An object has jobs when a job of the transaction is on it, and only then. *)
LEMMA HasJobsFacts ==
    ASSUME TypeOK, NEW o \in Objects
    PROVE  HasJobs(o) <=> \E j \in Job : j.object = o /\ InTx(j)
<1>1. jobs[o] \in Seq(JobTypes)
  BY DEF TypeOK
<1>2. ASSUME NEW j \in Job, j.object = o, InTx(j) PROVE HasJobs(o)
  BY <1>2 DEF InTx, HasJobs
<1>3. ASSUME HasJobs(o) PROVE \E j \in Job : j.object = o /\ InTx(j)
  <2>1. Len(jobs[o]) \in Nat \ {0} /\ DOMAIN jobs[o] = 1 .. Len(jobs[o])
    BY <1>1, <1>3, EmptySeq, LenProperties DEF HasJobs
  <2>2. 1 \in DOMAIN jobs[o] /\ jobs[o][1] \in JobTypes
    BY <1>1, <2>1, ElementOfSeq
  <2>3. /\ [object |-> o, type |-> jobs[o][1]] \in Job
        /\ [object |-> o, type |-> jobs[o][1]].object = o
        /\ InTx([object |-> o, type |-> jobs[o][1]])
    BY <2>2 DEF Job, InTx
  <2> QED BY <2>3
<1> QED BY <1>2, <1>3

(* The edges that OrderVisitor follows from an object. *)
LEMMA AfterFacts ==
    ASSUME TypeOK, NEW o \in Objects
    PROVE  /\ After(o) \in Seq(Edge)
           /\ Len(After(o)) \in Nat
           /\ DOMAIN After(o) = 1 .. Len(After(o))
           /\ \A m \in DOMAIN After(o) : /\ After(o)[m].to \in Objects
                                         /\ HasJobs(After(o)[m].to)
                                         /\ Ordered(o, After(o)[m].to)
           /\ \A p : Ordered(o, p) /\ HasJobs(p) => \E m \in DOMAIN After(o) : After(o)[m].to = p
<1> DEFINE s == edges[o]
           T == {e \in Edge : "After" \in e.type /\ HasJobs(e.to)}
           es == Filter(s, T)
<1>1. s \in Seq(Edge) /\ \A i \in DOMAIN s : s[i] \in Edge
  <2>1. s \in Seq(Edge)
    BY DEF TypeOK
  <2> QED BY <2>1, LenProperties, ElementOfSeq
<1>2. /\ es \in Seq(Edge)
      /\ \A k \in DOMAIN es : es[k] \in T /\ \E i \in DOMAIN s : s[i] = es[k]
      /\ \A i \in DOMAIN s : s[i] \in T => \E k \in DOMAIN es : es[k] = s[i]
  <2> HIDE DEF s, T
  <2> QED BY <1>1, EdgeFilter
<1>3. After(o) = es
  BY DEF After
<1> HIDE DEF es
<1>4. Len(es) \in Nat /\ DOMAIN es = 1 .. Len(es)
  BY <1>2, LenProperties
<1>5. ASSUME NEW m \in DOMAIN es
      PROVE  es[m].to \in Objects /\ HasJobs(es[m].to) /\ Ordered(o, es[m].to)
  BY <1>2 DEF Edge, Ordered, Range
<1>6. ASSUME NEW p, Ordered(o, p), HasJobs(p)
      PROVE  \E m \in DOMAIN es : es[m].to = p
  <2>1. PICK i \in DOMAIN s : "After" \in s[i].type /\ s[i].to = p
    BY <1>6 DEF Ordered, Range
  <2>2. s[i] \in T
    BY <1>1, <1>6, <2>1
  <2> HIDE DEF T, s
  <2> QED BY <1>2, <2>1, <2>2
<1> QED BY <1>2, <1>3, <1>4, <1>5, <1>6

(* The order graph is acyclic when it has no circular set. *)
LEMMA AcyclicFacts ==
    ASSUME TypeOK
    PROVE  Acyclic <=> \A S \in SUBSET Objects : ~Circular(S)
<1>1. ASSUME Acyclic, NEW S \in SUBSET Objects, Circular(S) PROVE FALSE
  <2>1. S \in SUBSET {o \in Objects : HasJobs(o)} /\ S # {}
    BY <1>1 DEF Circular
  <2>2. PICK o \in S : \A e \in Range(edges[o]) : "After" \in e.type => e.to \notin S
    BY <1>1, <2>1 DEF Acyclic
  <2> QED BY <1>1, <2>2 DEF Circular, Ordered
<1>2. ASSUME \A S \in SUBSET Objects : ~Circular(S) PROVE Acyclic
  <2> SUFFICES ASSUME NEW S \in SUBSET {o \in Objects : HasJobs(o)}, S # {},
                      \A o \in S : \E e \in Range(edges[o]) : "After" \in e.type /\ e.to \in S
               PROVE  FALSE
    BY DEF Acyclic
  <2>1. \A o \in S : HasJobs(o) /\ \E p \in S : Ordered(o, p)
    BY DEF Ordered
  <2>2. Circular(S)
    BY <2>1 DEF Circular
  <2> QED BY <1>2, <2>2
<1> QED BY <1>1, <1>2

(* Deleting jobs: the others stay, in lists that do not get longer. *)
LEMMA WithoutFacts ==
    ASSUME TypeOK, NEW gone \in SUBSET Job, jobs' = Without(gone)
    PROVE  /\ jobs' \in [Objects -> Seq(JobTypes)]
           /\ \A o \in Objects : Len(jobs'[o]) <= Len(jobs[o])
           /\ \A j \in Job : InTx(j)' <=> InTx(j) /\ j \notin gone
<1> DEFINE T(o) == {t \in JobTypes : [object |-> o, type |-> t] \notin gone}
<1>1. jobs' = [o \in Objects |-> Filter(jobs[o], T(o))]
  BY DEF Without
<1>2. ASSUME NEW o \in Objects
      PROVE  /\ jobs[o] \in Seq(JobTypes)
             /\ jobs'[o] = Filter(jobs[o], T(o))
             /\ Filter(jobs[o], T(o)) \in Seq(JobTypes)
             /\ Len(Filter(jobs[o], T(o))) <= Len(jobs[o])
             /\ \A k \in DOMAIN jobs'[o] :
                   jobs'[o][k] \in T(o) /\ \E i \in DOMAIN jobs[o] : jobs[o][i] = jobs'[o][k]
             /\ \A i \in DOMAIN jobs[o] :
                   jobs[o][i] \in T(o) => \E k \in DOMAIN jobs'[o] : jobs'[o][k] = jobs[o][i]
  <2>1. jobs[o] \in Seq(JobTypes) /\ jobs'[o] = Filter(jobs[o], T(o))
    BY <1>1 DEF TypeOK
  <2> HIDE DEF T
  <2> QED BY <2>1, FilterFacts
<1>3. jobs' \in [Objects -> Seq(JobTypes)]
  BY <1>1, <1>2
<1>4. ASSUME NEW j \in Job PROVE InTx(j)' <=> InTx(j) /\ j \notin gone
  <2>1. j.object \in Objects /\ j.type \in JobTypes /\ j = [object |-> j.object, type |-> j.type]
    BY DEF Job
  <2>2. j.type \in T(j.object) <=> j \notin gone
    BY <2>1
  <2> HIDE DEF T
  <2> QED BY <1>2, <2>1, <2>2 DEF InTx
<1> QED BY <1>2, <1>3, <1>4

-----------------------------------------------------------------------------
(* The invariant holds at first                                            *)

(* The transaction starts empty, with the goal still to be submitted: the invariant holds. *)
LEMMA InitInv == Init => TxInv
<1> SUFFICES ASSUME Init PROVE TxInv
  OBVIOUS
<1>1. /\ edges \in [Objects -> Seq(Edge)]
      /\ objective \in Job
      /\ objective.object \in Objects /\ objective.type \in JobTypes
      /\ Order \in Seq(Objects)
  BY TxGenAssumption DEF Init, Job
<1>2. /\ agenda \in Seq(Visit)
      /\ \A k \in DOMAIN agenda : agenda[k].from = objective
      /\ agenda = Visits(objective)
  BY <1>1, VisitsType DEF Init
<1>3. jobs \in [Objects -> Seq(JobTypes)]
  <2>1. <<objective.type>> \in Seq(JobTypes) /\ << >> \in Seq(JobTypes)
    BY <1>1
  <2> QED BY <2>1 DEF Init
<1>4. \A j \in Job : InTx(j) <=> j = objective
  <2> TAKE j \in Job
  <2>1. j.object \in Objects /\ j = [object |-> j.object, type |-> j.type]
    BY DEF Job
  <2>2. objective = [object |-> objective.object, type |-> objective.type]
    BY <1>1 DEF Job
  <2>3. jobs[j.object] = IF j.object = objective.object THEN <<objective.type>> ELSE << >>
    BY <2>1 DEF Init
  <2>4. CASE j.object = objective.object
    <3>1. jobs[j.object] = <<objective.type>>
      BY <2>3, <2>4
    <3>2. InTx(j) <=> j.type = objective.type
      BY <3>1 DEF InTx
    <3> QED BY <2>1, <2>2, <2>4, <3>2
  <2>5. CASE j.object # objective.object
    BY <2>3, <2>5 DEF InTx
  <2> QED BY <2>4, <2>5
<1>5. Len(Order) \in Nat
  BY <1>1, LenProperties
<1>6. TypeOK
  <2>1. path \in Seq([object : Objects, next : Nat])
    BY EmptySeq DEF Init
  <2> QED BY <1>1, <1>2, <1>3, <1>5, <2>1 DEF Init, TypeOK, Phases
<1>7. LinkInv
  BY <1>1, <1>2, <1>4 DEF Init, LinkInv, ReqsConnectJobs
<1>8. GoalInv
  BY DEF Init, GoalInv
<1>9. NothingLeftOut
  <2>1. ASSUME NEW o \in Objects, NEW j \in JobsOf(o) PROVE j = objective
    BY <1>4, <1>6, JobsOfFacts
  <2> QED BY <1>2, <2>1 DEF NothingLeftOut
<1>10. PathInv
  BY EmptySeq DEF Init, PathInv
<1>11. SearchInv /\ AcyclicUnlessRemoved /\ MergeInv
  BY DEF Init, SearchInv, AcyclicUnlessRemoved, MergeInv
<1> QED BY <1>6, <1>7, <1>8, <1>9, <1>10, <1>11 DEF TxInv

-----------------------------------------------------------------------------
(* Submission                                                              *)

(* The edge that EdgeVisitor is called with, and the job it asks for. *)
Visiting == Head(agenda)

Sought == [object |-> Visiting.to, type |-> Visiting.op]

(* What job_submit() does to the jobs and the edges to be visited. *)
LEMMA SubmitFacts ==
    ASSUME TxInv, job_submit
    PROVE  /\ Visiting \in Visit
           /\ InTx(Visiting.from)
           /\ \E k \in DOMAIN agenda : agenda[k] = Visiting
           /\ Visiting.from \in Job /\ Visiting.required \in BOOLEAN
           /\ Sought \in Job
           /\ jobs' \in [Objects -> Seq(JobTypes)]
           /\ \A j \in Job : InTx(j)' <=> InTx(j) \/ j = Sought
           /\ agenda' \in Seq(Visit)
           /\ \A k \in DOMAIN agenda' :
                 \/ \E i \in DOMAIN Visits(Sought) : agenda'[k] = Visits(Sought)[i]
                 \/ \E i \in DOMAIN agenda : agenda'[k] = agenda[i]
           /\ \A i \in DOMAIN agenda :
                 agenda[i] = Visiting \/ \E k \in DOMAIN agenda' : agenda'[k] = agenda[i]
           /\ \/ InTx(Sought)
              \/ \A i \in DOMAIN Visits(Sought) :
                    \E k \in DOMAIN agenda' : agenda'[k] = Visits(Sought)[i]
<1> DEFINE v == Visiting
           sj == Sought
<1>1. TypeOK /\ LinkInv
  BY DEF TxInv
<1>2. /\ agenda # << >>
      /\ \/ InTx(sj) /\ agenda' = Tail(agenda) /\ UNCHANGED jobs
         \/ /\ ~InTx(sj)
            /\ jobs' = [jobs EXCEPT ![v.to] = Append(@, v.op)]
            /\ agenda' = Visits(sj) \o Tail(agenda)
  BY DEF job_submit, Visiting, Sought
<1>3. /\ v \in Visit
      /\ Tail(agenda) \in Seq(Visit)
      /\ InTx(v.from)
      /\ \E k \in DOMAIN agenda : agenda[k] = v
      /\ \A k \in DOMAIN agenda :
            agenda[k] = v \/ \E i \in DOMAIN Tail(agenda) : Tail(agenda)[i] = agenda[k]
      /\ \A i \in DOMAIN Tail(agenda) : \E k \in DOMAIN agenda : agenda[k] = Tail(agenda)[i]
  <2>1. agenda \in Seq(Visit)
    BY <1>1 DEF TypeOK
  <2>2. 1 \in DOMAIN agenda /\ v = agenda[1]
    BY <1>2, <2>1, HeadTailElements DEF Visiting
  <2> QED BY <1>1, <1>2, <2>1, <2>2, HeadTailElements DEF LinkInv
<1>4. /\ v.from \in Job /\ v.to \in Objects /\ v.op \in JobTypes /\ v.required \in BOOLEAN
      /\ sj \in Job
      /\ sj.object = v.to
      /\ sj.type = v.op
  BY <1>3 DEF Visit, Job, Sought, Visiting
<1>5. /\ jobs' \in [Objects -> Seq(JobTypes)]
      /\ \A j \in Job : InTx(j)' <=> InTx(j) \/ j = sj
  <2>1. jobs \in [Objects -> Seq(JobTypes)]
    BY <1>1 DEF TypeOK
  <2>2. CASE InTx(sj) /\ UNCHANGED jobs
    BY <2>1, <2>2 DEF InTx
  <2>3. CASE jobs' = [jobs EXCEPT ![v.to] = Append(@, v.op)]
    <3>1. jobs[v.to] \in Seq(JobTypes)
      BY <1>4, <2>1
    <3>2. Append(jobs[v.to], v.op) \in Seq(JobTypes)
      BY <1>4, <3>1, AppendKeeps
    <3>3. jobs' \in [Objects -> Seq(JobTypes)] /\ jobs'[v.to] = Append(jobs[v.to], v.op)
      BY <1>4, <2>1, <2>3, <3>2
    <3>4. ASSUME NEW j \in Job PROVE InTx(j)' <=> InTx(j) \/ j = sj
      <4>1. j.object \in Objects
        BY DEF Job
      <4>2. j = sj <=> j.object = v.to /\ j.type = v.op
        BY <1>4 DEF Job
      <4>3. CASE j.object = v.to
        <5>1. (\E k \in DOMAIN jobs'[v.to] : jobs'[v.to][k] = j.type) <=>
                 (\E k \in DOMAIN jobs[v.to] : jobs[v.to][k] = j.type) \/ j.type = v.op
          BY <1>4, <3>1, <3>3, AppendKeeps
        <5> QED BY <4>2, <4>3, <5>1 DEF InTx
      <4>4. CASE j.object # v.to
        <5>1. jobs'[j.object] = jobs[j.object]
          BY <2>1, <2>3, <4>1, <4>4
        <5> QED BY <4>2, <4>4, <5>1 DEF InTx
      <4> QED BY <4>3, <4>4
    <3> QED BY <3>3, <3>4
  <2> QED BY <1>2, <2>2, <2>3
<1>6. /\ agenda' \in Seq(Visit)
      /\ \A k \in DOMAIN agenda' : \/ \E i \in DOMAIN Visits(sj) : agenda'[k] = Visits(sj)[i]
                                   \/ \E i \in DOMAIN agenda : agenda'[k] = agenda[i]
      /\ \A i \in DOMAIN agenda : agenda[i] = v \/ \E k \in DOMAIN agenda' : agenda'[k] = agenda[i]
      /\ InTx(sj) \/ \A i \in DOMAIN Visits(sj) : \E k \in DOMAIN agenda' : agenda'[k] = Visits(sj)[i]
  <2>1. CASE InTx(sj) /\ agenda' = Tail(agenda)
    BY <1>3, <2>1
  <2>2. CASE agenda' = Visits(sj) \o Tail(agenda)
    <3>1. /\ Visits(sj) \in Seq(Visit)
          /\ \A k \in DOMAIN Visits(sj) : Visits(sj)[k].from = sj
      BY <1>1, <1>4, VisitsType DEF TypeOK
    <3>2. /\ agenda' \in Seq(Visit)
          /\ \A k \in DOMAIN Visits(sj) : \E i \in DOMAIN agenda' : agenda'[i] = Visits(sj)[k]
          /\ \A k \in DOMAIN Tail(agenda) : \E i \in DOMAIN agenda' : agenda'[i] = Tail(agenda)[k]
          /\ \A i \in DOMAIN agenda' :
                \/ \E k \in DOMAIN Visits(sj) : agenda'[i] = Visits(sj)[k]
                \/ \E k \in DOMAIN Tail(agenda) : agenda'[i] = Tail(agenda)[k]
      <4>1. Joins(Visits(sj) \o Tail(agenda), Visits(sj), Tail(agenda), Visit)
        BY <1>3, <3>1, ConcatElements
      <4>2. Joins(agenda', Visits(sj), Tail(agenda), Visit)
        BY <2>2, <4>1
      <4> QED BY <4>2 DEF Joins
    <3>3. \A k \in DOMAIN agenda' : \/ \E i \in DOMAIN Visits(sj) : agenda'[k] = Visits(sj)[i]
                                    \/ \E i \in DOMAIN agenda : agenda'[k] = agenda[i]
      <4> TAKE k \in DOMAIN agenda'
      <4>1. CASE \E i \in DOMAIN Visits(sj) : agenda'[k] = Visits(sj)[i]
        BY <4>1
      <4>2. CASE \E i \in DOMAIN Tail(agenda) : agenda'[k] = Tail(agenda)[i]
        BY <1>3, <4>2, Zenon
      <4> QED BY <3>2, <4>1, <4>2
    <3>4. \A i \in DOMAIN agenda :
             agenda[i] = v \/ \E k \in DOMAIN agenda' : agenda'[k] = agenda[i]
      BY <1>3, <3>2
    <3> QED BY <3>2, <3>3, <3>4
  <2> QED BY <1>2, <2>1, <2>2
<1> QED BY <1>3, <1>4, <1>5, <1>6

(* A turn of the loop of job_submit() keeps the invariant. *)
LEMMA SubmitStep ==
    ASSUME TxInv, job_submit
    PROVE  TxInv' /\ GoalKept
<1> DEFINE v == Visiting
           sj == Sought
           goal == v.from \in goal_required /\ v.required
<1>1. TypeOK /\ LinkInv /\ GoalInv /\ NothingLeftOut /\ PathInv
  BY DEF TxInv
<1>2. /\ phase = "submit"
      /\ goal_required' = IF goal THEN goal_required \cup {sj} ELSE goal_required
      /\ reqs' = reqs \cup {[from |-> v.from, to |-> sj, required |-> v.required,
                             goal_required |-> goal]}
      /\ UNCHANGED <<edges, objective, phase, cursor, path, removed>>
  BY DEF job_submit, Visiting, Sought
<1>3. InTx(v.from)
  BY SubmitFacts
<1>4. v.from \in Job /\ v.required \in BOOLEAN /\ sj \in Job
  BY SubmitFacts
<1>5. /\ jobs' \in [Objects -> Seq(JobTypes)]
      /\ \A j \in Job : InTx(j)' <=> InTx(j) \/ j = sj
  BY SubmitFacts
<1>6. /\ agenda' \in Seq(Visit)
      /\ \A k \in DOMAIN agenda' :
            agenda'[k].from = sj \/ \E i \in DOMAIN agenda : agenda'[k] = agenda[i]
      /\ \A i \in DOMAIN agenda : agenda[i] = v \/ \E k \in DOMAIN agenda' : agenda'[k] = agenda[i]
      /\ InTx(sj) \/ \A i \in DOMAIN Visits(sj) : \E k \in DOMAIN agenda' : agenda'[k] = Visits(sj)[i]
  <2>1. \A k \in DOMAIN Visits(sj) : Visits(sj)[k].from = sj
    BY <1>1, <1>4, VisitsType DEF TypeOK
  <2>2. \A k \in DOMAIN agenda' : \/ \E i \in DOMAIN Visits(sj) : agenda'[k] = Visits(sj)[i]
                                  \/ \E i \in DOMAIN agenda : agenda'[k] = agenda[i]
    BY SubmitFacts
  <2>3. \A k \in DOMAIN agenda' :
            agenda'[k].from = sj \/ \E i \in DOMAIN agenda : agenda'[k] = agenda[i]
    BY <2>1, <2>2
  <2> QED BY <2>3, SubmitFacts
<1>7. TypeOK'
  <2>1. goal \in BOOLEAN
    BY <1>4
  <2> HIDE DEF goal
  <2>2. reqs' \subseteq Requirement
    BY <1>1, <1>2, <1>4, <2>1 DEF TypeOK, Requirement
  <2>3. goal_required' \subseteq Job
    BY <1>1, <1>2, <1>4 DEF TypeOK
  <2> QED BY <1>1, <1>2, <1>5, <1>6, <2>2, <2>3 DEF TypeOK
<1>8. LinkInv'
  <2>1. \A r \in reqs' : r \in reqs \/ (r.from = v.from /\ r.to = sj)
    BY <1>2
  <2>2. \A r \in reqs : r.from \in Job /\ r.to \in Job
    BY <1>1 DEF TypeOK, Requirement
  <2>3. \A r \in reqs' : InTx(r.from)' /\ InTx(r.to)'
    BY <1>1, <1>3, <1>4, <1>5, <2>1, <2>2 DEF LinkInv, ReqsConnectJobs
  <2>4. \A j \in goal_required' : InTx(j)'
    BY <1>1, <1>2, <1>4, <1>5 DEF LinkInv, ReqsConnectJobs, TypeOK
  <2>5. \A k \in DOMAIN agenda : agenda[k].from \in Job
    <3>1. agenda \in Seq(Visit)
      BY <1>1 DEF TypeOK
    <3>2. \A k \in DOMAIN agenda : agenda[k] \in Visit
      BY <3>1, LenProperties, ElementOfSeq
    <3> QED BY <3>2 DEF Visit
  <2>6. \A k \in DOMAIN agenda' :
           agenda'[k].from \in Job /\ (InTx(agenda'[k].from) \/ agenda'[k].from = sj)
    BY <1>1, <1>4, <1>6, <2>5 DEF LinkInv
  <2>7. (\A k \in DOMAIN agenda : InTx(agenda[k].from))'
    BY <1>5, <2>6 DEF InTx
  <2> QED BY <1>2, <2>3, <2>4, <2>7 DEF LinkInv, ReqsConnectJobs
<1>9. GoalInv'
  <2> DEFINE r0 == [from |-> v.from, to |-> sj, required |-> v.required, goal_required |-> goal]
  <2>1. /\ r0 \in reqs' /\ r0.from = v.from /\ r0.to = sj /\ r0.goal_required = goal
        /\ \A r \in reqs' : r \in reqs \/ r = r0
        /\ reqs \subseteq reqs'
        /\ goal_required \subseteq goal_required'
        /\ \A j \in goal_required' : j \in goal_required \/ (j = sj /\ goal)
    BY <1>2
  <2>2. goal => v.from \in goal_required
    OBVIOUS
  <2> HIDE DEF r0, goal
  <2> QED BY <1>1, <1>2, <2>1, <2>2 DEF GoalInv
<1>10. NothingLeftOut'
  <2> DEFINE Done(j, u) == \E r \in reqs' : /\ r.from = j
                                            /\ r.to = [object |-> u.to, type |-> u.op]
                                            /\ r.required = u.required
  <2>1. ASSUME NEW o \in Objects, NEW j \in JobsOf(o)', NEW k \in DOMAIN Visits(j)
        PROVE  (\E i \in DOMAIN agenda' : agenda'[i] = Visits(j)[k]) \/ Done(j, Visits(j)[k])
    <3> DEFINE u == Visits(j)[k]
    <3>1. j \in Job /\ j.object = o /\ InTx(j)'
      <4>1. j \in {[object |-> o, type |-> jobs'[o][h]] : h \in DOMAIN jobs'[o]}
        BY DEF JobsOf
      <4>2. j \in Job /\ j.object = o /\ \E h \in DOMAIN jobs'[o] : jobs'[o][h] = j.type
        BY <1>5, <4>1, ListedJobs
      <4> QED BY <4>2 DEF InTx
    <3>2. u.from = j
      BY <1>1, <3>1, VisitsType DEF TypeOK
    <3>3. CASE InTx(j)
      <4>1. j \in JobsOf(o)
        BY <1>1, <3>1, <3>3, JobsOfFacts
      <4>2. \/ \E i \in DOMAIN agenda : agenda[i] = u
            \/ \E r \in reqs : /\ r.from = j
                               /\ r.to = [object |-> u.to, type |-> u.op]
                               /\ r.required = u.required
        BY <1>1, <1>2, <4>1 DEF NothingLeftOut
      <4> HIDE DEF u
      <4>3. CASE \E i \in DOMAIN agenda : agenda[i] = u
        <5>1. u = v \/ \E i \in DOMAIN agenda' : agenda'[i] = u
          BY <1>6, <4>3
        <5>2. CASE u = v
          <6> DEFINE r0 == [from |-> v.from, to |-> sj, required |-> v.required,
                            goal_required |-> goal]
          <6>1. r0 \in reqs' /\ r0.from = v.from /\ r0.to = sj /\ r0.required = v.required
            BY <1>2
          <6> HIDE DEF r0
          <6>2. Done(j, u)
            BY <3>2, <5>2, <6>1 DEF Sought
          <6> QED BY <6>2 DEF u
        <5> QED BY <5>1, <5>2 DEF u
      <4>4. CASE \E r \in reqs : /\ r.from = j
                                 /\ r.to = [object |-> u.to, type |-> u.op]
                                 /\ r.required = u.required
        <5>1. Done(j, u)
          BY <1>2, <4>4
        <5> QED BY <5>1 DEF u
      <4> QED BY <4>2, <4>3, <4>4
    <3>4. CASE ~InTx(j)
      <4>1. j = sj /\ ~InTx(sj)
        BY <1>5, <3>1, <3>4
      <4> QED BY <1>6, <4>1
    <3> QED BY <3>3, <3>4
  <2>2. \A j : Visits(j)' = Visits(j)
    BY <1>2, SameVisits
  <2> HIDE DEF Done
  <2>3. \A o \in Objects : \A j \in JobsOf(o)' : \A k \in DOMAIN Visits(j) :
           (\E i \in DOMAIN agenda' : agenda'[i] = Visits(j)[k]) \/ Done(j, Visits(j)[k])
    BY <2>1
  <2> QED BY <2>2, <2>3 DEF NothingLeftOut, Done
<1>11. PathInv'
  <2>1. path = << >>
    BY <1>1, <1>2 DEF TypeOK
  <2> QED BY <1>1, <1>2, <2>1, EmptySeq DEF PathInv
<1>12. (SearchInv /\ AcyclicUnlessRemoved /\ MergeInv)'
  BY <1>2 DEF SearchInv, AcyclicUnlessRemoved, MergeInv
<1>13. GoalKept
  BY <1>2 DEF GoalKept
<1> QED BY <1>7, <1>8, <1>9, <1>10, <1>11, <1>12, <1>13 DEF TxInv

(* What is said of the jobs and the edges stays true while they do. *)
LEMMA SameJobs ==
    ASSUME UNCHANGED <<edges, jobs>>
    PROVE  /\ \A o : After(o)' = After(o)
           /\ \A o : HasJobs(o)' <=> HasJobs(o)
           /\ \A j : InTx(j)' <=> InTx(j)
           /\ \A o, p : Ordered(o, p)' <=> Ordered(o, p)
           /\ \A S : Circular(S)' <=> Circular(S)
           /\ Acyclic' <=> Acyclic
<1>1. \A o : HasJobs(o)' <=> HasJobs(o)
  BY DEF HasJobs
<1>2. \A o, p : Ordered(o, p)' <=> Ordered(o, p)
  BY DEF Ordered
<1>3. \A o : After(o)' = After(o)
  BY DEF After, HasJobs
<1>4. \A S : Circular(S)' <=> Circular(S)
  BY <1>1, <1>2 DEF Circular
<1>5. \A j : InTx(j)' <=> InTx(j)
  BY DEF InTx
<1>6. Acyclic' <=> Acyclic
  BY DEF Acyclic, HasJobs
<1> QED BY <1>1, <1>2, <1>3, <1>4, <1>5, <1>6

(* Steps of the loops that delete nothing. *)
LEMMA SameLinks ==
    ASSUME TxInv, UNCHANGED <<edges, objective, jobs, goal_required, reqs, agenda>>,
           phase' # "submit", phase # "submit" \/ agenda = << >>,
           phase = "merge" => phase' # "verify"
    PROVE  /\ (LinkInv /\ NothingLeftOut)'
           /\ phase \in {"submit", "verify"} \/ phase' \notin {"submit", "verify"} => GoalInv'
           /\ GoalKept
<1>1. LinkInv /\ GoalInv
  BY DEF TxInv
<1>2. ReqsConnectJobs'
  BY <1>1 DEF LinkInv, ReqsConnectJobs, InTx
<1>3. LinkInv'
  BY <1>1, <1>2 DEF LinkInv, InTx
<1>4. NothingLeftOut'
  BY DEF NothingLeftOut
<1>5. phase \in {"submit", "verify"} \/ phase' \notin {"submit", "verify"} => GoalInv'
  BY <1>1 DEF GoalInv
<1> QED BY <1>3, <1>4, <1>5 DEF GoalKept

(* The end of submission keeps it: the loops have nothing left to visit. *)
LEMMA SubmittedStep ==
    ASSUME TxInv, submitted
    PROVE  TxInv' /\ GoalKept
<1>1. TypeOK /\ PathInv
  BY DEF TxInv
<1>2. TypeOK'
  BY <1>1 DEF submitted, TypeOK, Phases
<1>3. (LinkInv /\ GoalInv /\ NothingLeftOut)' /\ GoalKept
  BY SameLinks DEF submitted
<1>4. path = << >> /\ path' = << >> /\ cursor' = 1
  BY <1>1 DEF submitted, TypeOK, PathInv
<1>5. PathInv'
  BY <1>4, EmptySeq DEF submitted, PathInv
<1>6. SearchInv'
  BY <1>4, EmptySeq DEF SearchInv
<1>7. (AcyclicUnlessRemoved /\ MergeInv)'
  BY DEF submitted, AcyclicUnlessRemoved, MergeInv
<1> QED BY <1>2, <1>3, <1>5, <1>6, <1>7 DEF TxInv

-----------------------------------------------------------------------------
(* Ordering cycles                                                         *)

(* An object of a circular set has an edge into the set. *)
LEMMA WayOn ==
    ASSUME TypeOK, NEW S \in SUBSET Objects, Circular(S), NEW o \in S
    PROVE  \E m \in DOMAIN After(o) : m >= 1 /\ After(o)[m].to \in S
<1>1. PICK p \in S : Ordered(o, p)
  BY DEF Circular
<1>2. HasJobs(p) /\ o \in Objects
  BY DEF Circular
<1>3. PICK m \in DOMAIN After(o) : After(o)[m].to = p
  BY <1>1, <1>2, AfterFacts
<1>4. m >= 1
  BY <1>2, AfterFacts
<1> QED BY <1>3, <1>4

(* A turn of the loop of verify_acyclic() keeps it, whether it starts a search or
   moves on to the next object. *)
LEMMA VerifyStep ==
    ASSUME TxInv, verify_object
    PROVE  TxInv' /\ GoalKept
<1>1. TypeOK /\ PathInv /\ SearchInv
  BY DEF TxInv
<1>2. /\ phase = "verify" /\ path = << >> /\ phase' # "submit"
      /\ UNCHANGED <<edges, objective, jobs, goal_required, reqs, agenda, removed>>
  BY DEF verify_object
<1>3. /\ Order \in Seq(Objects) /\ Len(Order) \in Nat
      /\ \A i \in 1 .. Len(Order) : Order[i] \in Objects
      /\ \A o \in Objects : \E i \in 1 .. Len(Order) : Order[i] = o
      /\ cursor \in 1 .. Len(Order) + 1
  <2>1. Order \in Seq(Objects) /\ \A o \in Objects : \E i \in DOMAIN Order : Order[i] = o
    BY TxGenAssumption
  <2> QED BY <1>1, <2>1, LenProperties, ElementOfSeq DEF TypeOK
<1>4. (LinkInv /\ GoalInv /\ NothingLeftOut)' /\ GoalKept
  BY <1>2, SameLinks
<1>5. CASE /\ cursor <= Len(Order) /\ HasJobs(Order[cursor])
           /\ path' = <<[object |-> Order[cursor], next |-> 1]>>
           /\ UNCHANGED <<cursor, phase>>
  <2> DEFINE q == [object |-> Order[cursor], next |-> 1]
  <2>1. /\ Order[cursor] \in Objects
        /\ q \in [object : Objects, next : Nat]
        /\ q.object = Order[cursor] /\ q.next = 1
    BY <1>3, <1>5
  <2>2. Len(path') = 1 /\ path'[1] = q /\ path' \in Seq([object : Objects, next : Nat])
    BY <1>5, <2>1
  <2> HIDE DEF q
  <2>3. TypeOK'
    BY <1>1, <1>2, <1>5, <2>2 DEF TypeOK
  <2>4. PathInv'
    <3>1. HasJobs(path'[1].object) /\ path'[1].next >= 1
      BY <1>5, <2>1, <2>2
    <3>2. \A k \in 1 .. Len(path') : k = 1
      BY <2>2
    <3>3. (\A k \in 1 .. Len(path) : HasJobs(path[k].object) /\ path[k].next >= 1)'
      BY <1>2, <3>1, <3>2 DEF HasJobs
    <3>4. \A k \in 1 .. (Len(path') - 1) : FALSE
      BY <2>2
    <3> QED BY <1>2, <1>5, <2>1, <2>2, <3>3, <3>4 DEF PathInv
  <2>5. SearchInv'
    <3> SUFFICES ASSUME removed = {}, NEW S \in SUBSET Objects, Circular(S)
                 PROVE  /\ \A i \in 1 .. (cursor - 1) : Order[i] \notin S
                        /\ \A k \in 1 .. Len(path') : path'[k].object \in S =>
                              \E m \in DOMAIN After(path'[k].object) :
                                 m >= path'[k].next /\ After(path'[k].object)[m].to \in S
      BY <1>2, <1>5, SameJobs DEF SearchInv
    <3>1. \A i \in 1 .. (cursor - 1) : Order[i] \notin S
      BY <1>1, <1>2 DEF SearchInv
    <3>2. ASSUME NEW k \in 1 .. Len(path'), path'[k].object \in S
          PROVE  \E m \in DOMAIN After(path'[k].object) :
                    m >= path'[k].next /\ After(path'[k].object)[m].to \in S
      <4>1. path'[k] = q
        BY <2>2
      <4> QED BY <1>1, <2>1, <3>2, <4>1, WayOn
    <3> QED BY <3>1, <3>2
  <2>6. (AcyclicUnlessRemoved /\ MergeInv)'
    BY <1>2, <1>5 DEF AcyclicUnlessRemoved, MergeInv
  <2> QED BY <1>4, <2>3, <2>4, <2>5, <2>6 DEF TxInv
<1>6. CASE /\ cursor <= Len(Order) /\ ~HasJobs(Order[cursor])
           /\ cursor' = cursor + 1
           /\ UNCHANGED <<path, phase>>
  <2>1. TypeOK'
    <3>1. cursor' \in 1 .. Len(Order) + 1
      BY <1>3, <1>6
    <3> QED BY <1>1, <1>2, <1>6, <3>1 DEF TypeOK
  <2>2. PathInv'
    BY <1>2, <1>6, EmptySeq DEF PathInv
  <2>3. SearchInv'
    <3> SUFFICES ASSUME removed = {}, NEW S \in SUBSET Objects, Circular(S)
                 PROVE  \A i \in 1 .. ((cursor + 1) - 1) : Order[i] \notin S
      <4>1. \A k \in 1 .. Len(path') : FALSE
        BY <1>2, <1>6, EmptySeq
      <4>2. \A S \in SUBSET Objects : Circular(S)' <=> Circular(S)
        BY <1>2, SameJobs
      <4> QED BY <1>2, <1>6, <4>1, <4>2 DEF SearchInv
    <3>1. \A i \in 1 .. (cursor - 1) : Order[i] \notin S
      BY <1>1, <1>2 DEF SearchInv
    <3>2. Order[cursor] \notin S
      BY <1>6 DEF Circular
    <3>3. \A i \in 1 .. ((cursor + 1) - 1) : i \in 1 .. (cursor - 1) \/ i = cursor
      BY <1>3
    <3> QED BY <3>1, <3>2, <3>3
  <2>4. (AcyclicUnlessRemoved /\ MergeInv)'
    BY <1>2, <1>6 DEF AcyclicUnlessRemoved, MergeInv
  <2> QED BY <1>4, <2>1, <2>2, <2>3, <2>4 DEF TxInv
<1>7. CASE cursor > Len(Order) /\ phase' = "merge" /\ cursor' = 1 /\ UNCHANGED path
  <2>1. TypeOK'
    BY <1>1, <1>2, <1>3, <1>7 DEF TypeOK, Phases
  <2>2. PathInv'
    BY <1>2, <1>7, EmptySeq DEF PathInv
  <2>3. SearchInv' /\ MergeInv'
    BY <1>7 DEF SearchInv, MergeInv
  <2>4. AcyclicUnlessRemoved'
    <3> SUFFICES ASSUME removed = {} PROVE Acyclic
      BY <1>2, SameJobs DEF AcyclicUnlessRemoved
    <3>1. ASSUME NEW S \in SUBSET Objects, Circular(S) PROVE FALSE
      <4>1. PICK o \in S : TRUE
        BY <3>1 DEF Circular
      <4>2. PICK i \in 1 .. Len(Order) : Order[i] = o
        BY <1>3
      <4>3. i \in 1 .. (cursor - 1)
        BY <1>3, <1>7
      <4> QED BY <1>1, <1>2, <3>1, <4>1, <4>2, <4>3 DEF SearchInv
    <3> QED BY <1>1, <3>1, AcyclicFacts
  <2> QED BY <1>4, <2>1, <2>2, <2>3, <2>4 DEF TxInv
<1> QED BY <1>5, <1>6, <1>7 DEF verify_object

(* The last object of the path. *)
LEMMA TopFacts ==
    ASSUME TypeOK, PathInv, path # << >>
    PROVE  /\ Len(path) \in Nat \ {0}
           /\ DOMAIN path = 1 .. Len(path)
           /\ \A k \in 1 .. Len(path) : /\ path[k] \in [object : Objects, next : Nat]
                                        /\ path[k].object \in Objects
                                        /\ path[k].next \in Nat
                                        /\ HasJobs(path[k].object)
           /\ phase = "verify"
           /\ cursor \in 1 .. Len(Order)
           /\ Len(Order) \in Nat
<1>1. path \in Seq([object : Objects, next : Nat]) /\ Order \in Seq(Objects)
  BY TxGenAssumption DEF TypeOK
<1>2. Len(path) \in Nat \ {0} /\ DOMAIN path = 1 .. Len(path) /\ Len(Order) \in Nat
  BY <1>1, EmptySeq, LenProperties
<1>3. \A k \in 1 .. Len(path) : path[k] \in [object : Objects, next : Nat]
  BY <1>1, ElementOfSeq
<1>4. cursor \in 1 .. Len(Order)
  BY <1>2 DEF TypeOK, PathInv
<1> QED BY <1>2, <1>3, <1>4 DEF TypeOK, PathInv

(* object_creates_cycle() entering an object keeps it. *)
LEMMA PushStep ==
    ASSUME TxInv, path_push
    PROVE  TxInv' /\ GoalKept
<1> DEFINE n == Len(path)
           t == path[n].object
           to == After(t)[path[n].next].to
           P == [object : Objects, next : Nat]
           moved == [object |-> t, next |-> path[n].next + 1]
           new == [object |-> to, next |-> 1]
<1>1. TypeOK /\ PathInv /\ SearchInv
  BY DEF TxInv
<1>2. /\ phase = "verify" /\ path # << >>
      /\ path[n].next <= Len(After(t))
      /\ path' = Append([path EXCEPT ![n].next = @ + 1], new)
      /\ UNCHANGED <<edges, objective, jobs, goal_required, reqs, phase, agenda, cursor, removed>>
  BY DEF path_push, Deeper, Top
<1>3. /\ n \in Nat \ {0} /\ n \in DOMAIN path
      /\ DOMAIN path = 1 .. n
      /\ \A k \in 1 .. n : path[k] \in P /\ HasJobs(path[k].object)
      /\ t \in Objects /\ path[n].next \in Nat /\ HasJobs(t)
      /\ path \in Seq(P)
  <2>1. path \in Seq(P)
    BY <1>1 DEF TypeOK
  <2>2. /\ n \in Nat \ {0} /\ DOMAIN path = 1 .. n
        /\ \A k \in 1 .. n : /\ path[k] \in P /\ HasJobs(path[k].object)
                             /\ path[k].object \in Objects /\ path[k].next \in Nat
    BY <1>1, <1>2, TopFacts
  <2> HIDE DEF n, P
  <2>3. n \in 1 .. n
    BY <2>2
  <2> QED BY <2>1, <2>2, <2>3
<1>4. /\ path[n].next \in DOMAIN After(t)
      /\ to \in Objects /\ HasJobs(to) /\ Ordered(t, to)
  <2>1. path[n].next >= 1
    BY <1>1, <1>3 DEF PathInv
  <2> HIDE DEF t, n
  <2>2. Len(After(t)) \in Nat /\ DOMAIN After(t) = 1 .. Len(After(t))
    BY <1>1, <1>3, AfterFacts
  <2>3. path[n].next \in DOMAIN After(t)
    BY <1>2, <1>3, <2>1, <2>2
  <2> QED BY <1>1, <1>3, <2>3, AfterFacts
<1>5. moved \in P /\ moved.object = t /\ moved.next = path[n].next + 1
  BY <1>3
<1>6. new \in P /\ new.object = to /\ new.next = 1
  BY <1>4
<1>7. /\ [path EXCEPT ![n].next = @ + 1] \in Seq(P)
      /\ Len([path EXCEPT ![n].next = @ + 1]) = n
      /\ \A k \in 1 .. n : [path EXCEPT ![n].next = @ + 1][k] = IF k = n THEN moved ELSE path[k]
  <2>1. [path EXCEPT ![n].next = @ + 1] = [path EXCEPT ![n] = moved]
    <3>1. path[n] \in P
      BY <1>3
    <3>2. [path[n] EXCEPT !.next = @ + 1] = moved
      BY <3>1
    <3> QED BY <1>3, <3>2
  <2> HIDE DEF moved, n
  <2> QED BY <1>3, <1>5, <2>1, ExceptSeq
<1> HIDE DEF moved, new, to, t
<1>8. /\ path' \in Seq(P)
      /\ Len(path') = n + 1
      /\ \A k \in 1 .. n : path'[k] = IF k = n THEN moved ELSE path[k]
      /\ path'[n + 1] = new
  <2> DEFINE base == [path EXCEPT ![n].next = @ + 1]
  <2>1. base \in Seq(P) /\ Len(base) = n /\ path' = Append(base, new)
    BY <1>2, <1>7
  <2>2. \A k \in 1 .. n : base[k] = IF k = n THEN moved ELSE path[k]
    BY <1>7
  <2> HIDE DEF base, P, n
  <2> QED BY <1>6, <2>1, <2>2, AppendProperties
<1>9. TypeOK'
  BY <1>1, <1>2, <1>8 DEF TypeOK
<1>10. (LinkInv /\ GoalInv /\ NothingLeftOut)' /\ GoalKept
  BY <1>2, SameLinks
<1> HIDE DEF n
<1>11. \A k \in 1 .. n : path'[k].object = path[k].object
  BY <1>5, <1>8 DEF t
<1>12. PathInv'
  <2>1. cursor <= Len(Order) /\ path'[1].object = Order[cursor]
    BY <1>1, <1>2, <1>3, <1>11 DEF PathInv
  <2>2. ASSUME NEW k \in 1 .. Len(path') PROVE HasJobs(path'[k].object) /\ path'[k].next >= 1
    <3>1. CASE k = n + 1
      BY <1>4, <1>6, <1>8, <3>1
    <3>2. CASE k = n
      BY <1>3, <1>5, <1>8, <3>2
    <3>3. CASE k \in 1 .. n /\ k # n
      BY <1>1, <1>8, <3>3 DEF PathInv, n
    <3> QED BY <1>3, <1>8, <3>1, <3>2, <3>3
  <2>3. ASSUME NEW k \in 1 .. (Len(path') - 1)
        PROVE  Ordered(path'[k].object, path'[k + 1].object)
    <3>1. CASE k = n
      BY <1>3, <1>4, <1>5, <1>6, <1>8, <3>1
    <3>2. CASE k # n
      <4>1. k \in 1 .. (n - 1) /\ k \in 1 .. n /\ k + 1 \in 1 .. n
        BY <1>3, <1>8, <3>2
      <4>2. Ordered(path[k].object, path[k + 1].object)
        BY <1>1, <4>1 DEF PathInv, n
      <4> QED BY <1>11, <4>1, <4>2
    <3> QED BY <3>1, <3>2
  <2>4. (\A k \in 1 .. Len(path) : HasJobs(path[k].object) /\ path[k].next >= 1)'
    BY <1>2, <2>2 DEF HasJobs
  <2>5. (\A k \in 1 .. (Len(path) - 1) : Ordered(path[k].object, path[k + 1].object))'
    BY <1>2, <2>3 DEF Ordered
  <2> QED BY <1>2, <2>1, <2>4, <2>5 DEF PathInv
<1>13. SearchInv'
  <2> SUFFICES ASSUME removed = {}, NEW S \in SUBSET Objects, Circular(S)
               PROVE  /\ \A i \in 1 .. (cursor - 1) : Order[i] \notin S
                      /\ \A k \in 1 .. Len(path') : path'[k].object \in S =>
                            \/ \E m \in DOMAIN After(path'[k].object) :
                                  m >= path'[k].next /\ After(path'[k].object)[m].to \in S
                            \/ k < Len(path') /\ path'[k + 1].object \in S
    BY <1>2, SameJobs DEF SearchInv
  <2>1. /\ \A i \in 1 .. (cursor - 1) : Order[i] \notin S
        /\ \A k \in 1 .. n : path[k].object \in S =>
              \/ \E m \in DOMAIN After(path[k].object) :
                    m >= path[k].next /\ After(path[k].object)[m].to \in S
              \/ k < n /\ path[k + 1].object \in S
    BY <1>1, <1>2 DEF SearchInv, n
  <2>2. ASSUME NEW k \in 1 .. Len(path'), path'[k].object \in S
        PROVE  \/ \E m \in DOMAIN After(path'[k].object) :
                     m >= path'[k].next /\ After(path'[k].object)[m].to \in S
               \/ k < Len(path') /\ path'[k + 1].object \in S
    <3>1. CASE k = n + 1
      <4>1. path'[k].object = to /\ path'[k].next = 1
        BY <1>6, <1>8, <3>1
      <4> QED BY <1>1, <2>2, <4>1, WayOn
    <3>2. CASE k = n
      <4>1. path'[k].object = t /\ path'[k].next = path[n].next + 1
        BY <1>3, <1>5, <1>8, <3>2
      <4>2. PICK m \in DOMAIN After(t) : m >= path[n].next /\ After(t)[m].to \in S
        BY <1>3, <2>1, <2>2, <4>1 DEF t
      <4>3. CASE m = path[n].next
        BY <1>3, <1>6, <1>8, <3>2, <4>2, <4>3 DEF to
      <4>4. CASE m # path[n].next
        <5>1. m \in Nat
          BY <1>1, <1>3, AfterFacts
        <5>2. m >= path[n].next + 1
          BY <1>3, <4>2, <4>4, <5>1
        <5> QED BY <4>1, <4>2, <5>2
      <4> QED BY <4>3, <4>4
    <3>3. CASE k \in 1 .. n /\ k # n
      <4>1. path'[k] = path[k] /\ k + 1 \in 1 .. n /\ k < Len(path')
        BY <1>3, <1>8, <3>3
      <4>2. path'[k + 1].object = path[k + 1].object
        BY <1>11, <4>1
      <4> QED BY <2>1, <2>2, <3>3, <4>1, <4>2
    <3> QED BY <1>3, <1>8, <3>1, <3>2, <3>3
  <2> QED BY <2>1, <2>2
<1>14. (AcyclicUnlessRemoved /\ MergeInv)'
  BY <1>2 DEF AcyclicUnlessRemoved, MergeInv
<1> QED BY <1>9, <1>10, <1>12, <1>13, <1>14 DEF TxInv

(* object_creates_cycle() returning from an object keeps it: all its edges have been
   followed. *)
LEMMA PopStep ==
    ASSUME TxInv, path_pop
    PROVE  TxInv' /\ GoalKept
<1> DEFINE n == Len(path)
           t == path[n].object
           P == [object : Objects, next : Nat]
<1>1. TypeOK /\ PathInv /\ SearchInv
  BY DEF TxInv
<1>2. /\ phase = "verify" /\ path # << >>
      /\ path[n].next > Len(After(t))
      /\ path' = SubSeq(path, 1, n - 1)
      /\ cursor' = IF n = 1 THEN cursor + 1 ELSE cursor
      /\ UNCHANGED <<edges, objective, jobs, goal_required, reqs, phase, agenda, removed>>
  BY DEF path_pop, Top
<1>3. /\ n \in Nat \ {0}
      /\ t \in Objects /\ path[n].next \in Nat
      /\ path \in Seq(P)
      /\ Len(Order) \in Nat /\ cursor \in 1 .. Len(Order)
  <2>1. path \in Seq(P)
    BY <1>1 DEF TypeOK
  <2>2. /\ n \in Nat \ {0}
        /\ \A k \in 1 .. n : path[k].object \in Objects /\ path[k].next \in Nat
        /\ Len(Order) \in Nat /\ cursor \in 1 .. Len(Order)
    BY <1>1, <1>2, TopFacts
  <2> HIDE DEF n, P
  <2>3. n \in 1 .. n
    BY <2>2
  <2> QED BY <2>1, <2>2, <2>3
<1>4. path' \in Seq(P) /\ Len(path') = n - 1 /\ \A k \in 1 .. (n - 1) : path'[k] = path[k]
  <2> HIDE DEF P
  <2>1. /\ SubSeq(path, 1, n - 1) \in Seq(P)
        /\ Len(SubSeq(path, 1, n - 1)) = n - 1
        /\ \A k \in 1 .. (n - 1) : SubSeq(path, 1, n - 1)[k] = path[k]
    <3>1. \A k \in 1 .. (n - 1) : path[k] \in P
      BY <1>3, ElementOfSeq
    <3> HIDE DEF n
    <3>2. /\ n - 1 \in Int /\ 1 \in Int
          /\ 1 <= n - 1 \/ n - 1 = 0
          /\ (n - 1) - 1 + 1 = n - 1
          /\ \A k \in 1 .. (n - 1) : 1 + k - 1 = k
      <4>1. n \in Nat \ {0}
        BY <1>3
      <4> QED BY <4>1
    <3>3. /\ SubSeq(path, 1, n - 1) \in Seq(P)
          /\ Len(SubSeq(path, 1, n - 1)) = IF 1 <= n - 1 THEN (n - 1) - 1 + 1 ELSE 0
          /\ \A k \in 1 .. (n - 1) - 1 + 1 : SubSeq(path, 1, n - 1)[k] = path[1 + k - 1]
      BY <3>1, <3>2, SubSeqProperties
    <3> QED BY <3>2, <3>3
  <2> QED BY <1>2, <2>1
<1> HIDE DEF n, t
<1>5. TypeOK'
  <2>1. cursor' \in 1 .. Len(Order) + 1
    BY <1>2, <1>3
  <2> QED BY <1>1, <1>2, <1>4, <2>1 DEF TypeOK
<1>6. (LinkInv /\ GoalInv /\ NothingLeftOut)' /\ GoalKept
  BY <1>2, SameLinks
<1>7. PathInv'
  <2>1. path' # << >> => cursor' <= Len(Order) /\ path'[1].object = Order[cursor']
    <3>1. CASE n = 1
      BY <1>4, <3>1, EmptySeq
    <3>2. CASE n # 1
      BY <1>1, <1>2, <1>3, <1>4, <3>2 DEF PathInv
    <3> QED BY <3>1, <3>2
  <2>2. \A k \in 1 .. Len(path') : HasJobs(path'[k].object) /\ path'[k].next >= 1
    <3> TAKE k \in 1 .. Len(path')
    <3>1. k \in 1 .. n /\ k \in 1 .. (n - 1)
      BY <1>3, <1>4
    <3>2. HasJobs(path[k].object) /\ path[k].next >= 1
      BY <1>1, <3>1 DEF PathInv, n
    <3> QED BY <1>4, <3>1, <3>2
  <2>3. \A k \in 1 .. (Len(path') - 1) : Ordered(path'[k].object, path'[k + 1].object)
    <3> TAKE k \in 1 .. (Len(path') - 1)
    <3>1. k \in 1 .. (n - 1) /\ k + 1 \in 1 .. (n - 1)
      BY <1>3, <1>4
    <3> QED BY <1>1, <1>4, <3>1 DEF PathInv, n
  <2>4. (\A k \in 1 .. Len(path) : HasJobs(path[k].object) /\ path[k].next >= 1)'
    BY <1>2, <2>2 DEF HasJobs
  <2>5. (\A k \in 1 .. (Len(path) - 1) : Ordered(path[k].object, path[k + 1].object))'
    BY <1>2, <2>3 DEF Ordered
  <2> QED BY <1>2, <2>1, <2>4, <2>5 DEF PathInv
<1>8. SearchInv'
  <2> SUFFICES ASSUME removed = {}, NEW S \in SUBSET Objects, Circular(S)
               PROVE  /\ \A i \in 1 .. (cursor' - 1) : Order[i] \notin S
                      /\ \A k \in 1 .. Len(path') : path'[k].object \in S =>
                            \/ \E m \in DOMAIN After(path'[k].object) :
                                  m >= path'[k].next /\ After(path'[k].object)[m].to \in S
                            \/ k < Len(path') /\ path'[k + 1].object \in S
    BY <1>2, SameJobs DEF SearchInv
  <2>1. /\ \A i \in 1 .. (cursor - 1) : Order[i] \notin S
        /\ \A k \in 1 .. n : path[k].object \in S =>
              \/ \E m \in DOMAIN After(path[k].object) :
                    m >= path[k].next /\ After(path[k].object)[m].to \in S
              \/ k < n /\ path[k + 1].object \in S
    BY <1>1, <1>2 DEF SearchInv, n
  <2>2. path[n].object \notin S
    <3>1. \A m \in DOMAIN After(t) : ~(m >= path[n].next)
      BY <1>1, <1>2, <1>3, AfterFacts, SMTT(30), ZenonT(30)
    <3> QED BY <1>3, <2>1, <3>1 DEF t
  <2>3. \A i \in 1 .. (cursor' - 1) : Order[i] \notin S
    <3>1. CASE n = 1
      <4>1. Order[cursor] \notin S
        BY <1>1, <1>2, <2>2, <3>1 DEF PathInv
      <4>2. \A i \in 1 .. (cursor' - 1) : i \in 1 .. (cursor - 1) \/ i = cursor
        BY <1>2, <1>3, <3>1
      <4> QED BY <2>1, <4>1, <4>2
    <3>2. CASE n # 1
      BY <1>2, <2>1, <3>2
    <3> QED BY <3>1, <3>2
  <2>4. ASSUME NEW k \in 1 .. Len(path'), path'[k].object \in S
        PROVE  \/ \E m \in DOMAIN After(path'[k].object) :
                     m >= path'[k].next /\ After(path'[k].object)[m].to \in S
               \/ k < Len(path') /\ path'[k + 1].object \in S
    <3>1. k \in 1 .. n /\ k \in 1 .. (n - 1) /\ path'[k] = path[k]
      BY <1>3, <1>4, SMTT(30), ZenonT(30)
    <3>2. CASE \E m \in DOMAIN After(path[k].object) :
                  m >= path[k].next /\ After(path[k].object)[m].to \in S
      <4> PICK m \in DOMAIN After(path[k].object) :
                 m >= path[k].next /\ After(path[k].object)[m].to \in S
        BY <3>2
      <4> QED BY <3>1
    <3>3. CASE path[k + 1].object \in S
      <4>1. k + 1 # n
        BY <2>2, <3>3
      <4>2. k < Len(path') /\ k + 1 \in 1 .. (n - 1)
        BY <1>3, <1>4, <3>1, <4>1
      <4> QED BY <1>4, <3>3, <4>2
    <3> QED BY <2>1, <2>4, <3>1, <3>2, <3>3
  <2> QED BY <2>3, <2>4
<1>9. (AcyclicUnlessRemoved /\ MergeInv)'
  BY <1>2 DEF AcyclicUnlessRemoved, MergeInv
<1> QED BY <1>5, <1>6, <1>7, <1>8, <1>9 DEF TxInv

(* Deleting jobs that are not marked as required for the goal. *)
LEMMA DeleteStep ==
    ASSUME TxInv, phase # "submit",
           NEW gone \in SUBSET Job, goal_required \cap gone = {},
           jobs' = Without(gone), Destroy(gone),
           UNCHANGED <<edges, objective, agenda>>,
           phase' = phase
    PROVE  /\ jobs' \in [Objects -> Seq(JobTypes)]
           /\ goal_required' = goal_required
           /\ reqs' \subseteq reqs
           /\ (LinkInv /\ GoalInv /\ NothingLeftOut)'
           /\ GoalKept
           /\ \A o \in Objects : Len(jobs'[o]) <= Len(jobs[o])
           /\ \A o \in Objects : HasJobs(o)' => HasJobs(o)
<1>1. TypeOK /\ LinkInv /\ GoalInv
  BY DEF TxInv
<1>2. /\ reqs' = {r \in reqs : r.from \notin gone /\ r.to \notin gone}
      /\ goal_required' = goal_required
  BY DEF Destroy
<1>3. /\ jobs' \in [Objects -> Seq(JobTypes)]
      /\ \A o \in Objects : Len(jobs'[o]) <= Len(jobs[o])
      /\ \A j \in Job : InTx(j)' <=> InTx(j) /\ j \notin gone
  BY <1>1, WithoutFacts
<1>4. LinkInv'
  <2>1. \A r \in reqs : r.from \in Job /\ r.to \in Job
    BY <1>1 DEF TypeOK, Requirement
  <2>2. \A r \in reqs' : InTx(r.from)' /\ InTx(r.to)'
    BY <1>1, <1>2, <1>3, <2>1 DEF LinkInv, ReqsConnectJobs
  <2>3. \A j \in goal_required' : InTx(j)'
    BY <1>1, <1>2, <1>3 DEF LinkInv, ReqsConnectJobs, TypeOK
  <2>4. agenda = << >> /\ agenda' = << >>
    BY <1>1 DEF LinkInv
  <2> QED BY <2>2, <2>3, <2>4 DEF LinkInv, ReqsConnectJobs
<1>5. GoalInv'
  <2>1. ASSUME phase = "verify", NEW j \in goal_required, j # objective
        PROVE  \E r \in reqs' : r.to = j /\ r.goal_required
    <3>1. PICK r \in reqs : r.to = j /\ r.goal_required
      BY <1>1, <2>1 DEF GoalInv
    <3>2. r.from \in goal_required
      BY <1>1, <2>1, <3>1 DEF GoalInv
    <3> QED BY <1>2, <3>1, <3>2
  <2>2. phase = "verify" => /\ objective \in goal_required
                            /\ \A r \in reqs' : r.goal_required => r.from \in goal_required
    BY <1>1, <1>2 DEF GoalInv
  <2>3. \E j \in goal_required : j.object = objective.object
    BY <1>1 DEF GoalInv
  <2> QED BY <1>2, <2>1, <2>2, <2>3 DEF GoalInv
<1>6. NothingLeftOut'
  BY DEF NothingLeftOut
<1>7. GoalKept
  BY <1>2 DEF GoalKept
<1>8. ASSUME NEW o \in Objects, HasJobs(o)' PROVE HasJobs(o)
  <2>1. jobs[o] \in Seq(JobTypes) /\ jobs'[o] \in Seq(JobTypes)
    BY <1>1, <1>3 DEF TypeOK
  <2>2. Len(jobs'[o]) <= Len(jobs[o])
    BY <1>3
  <2> QED BY <1>8, <2>1, <2>2, EmptySeq, LenProperties DEF HasJobs
<1> QED BY <1>2, <1>3, <1>4, <1>5, <1>6, <1>7, <1>8

(* try_remove_cycle() keeps it, whether it deletes jobs or rejects the transaction. *)
LEMMA RemoveStep ==
    ASSUME TxInv, try_remove_cycle
    PROVE  TxInv' /\ GoalKept
<1>1. TypeOK /\ PathInv /\ LinkInv /\ GoalInv
  BY DEF TxInv
<1>2. /\ phase = "verify" /\ path # << >> /\ path' = << >>
      /\ UNCHANGED <<edges, objective, agenda>>
  BY DEF try_remove_cycle, Deeper
<1>3. /\ DOMAIN path = 1 .. Len(path)
      /\ \A k \in 1 .. Len(path) : path[k].object \in Objects
      /\ cursor \in 1 .. Len(Order)
      /\ Len(Order) \in Nat
  BY <1>1, <1>2, TopFacts
<1>4. path' \in Seq([object : Objects, next : Nat]) /\ Len(path') = 0
  BY <1>2, EmptySeq
<1>5. CASE phase' = "cyclical" /\ UNCHANGED <<jobs, goal_required, reqs, removed, cursor>>
  <2>1. TypeOK'
    BY <1>1, <1>2, <1>4, <1>5 DEF TypeOK, Phases
  <2>2. (LinkInv /\ GoalInv /\ NothingLeftOut)' /\ GoalKept
    BY <1>2, <1>5, SameLinks
  <2>3. PathInv'
    BY <1>2, <1>4, <1>5 DEF PathInv
  <2>4. (SearchInv /\ AcyclicUnlessRemoved /\ MergeInv)'
    BY <1>5 DEF SearchInv, AcyclicUnlessRemoved, MergeInv
  <2> QED BY <2>1, <2>2, <2>3, <2>4 DEF TxInv
<1>6. CASE \E k \in DOMAIN path :
              /\ ~object_requires_all_jobs(path[k].object)
              /\ object_del_jobs(path[k].object)
              /\ removed' = removed \cup {path[k].object}
              /\ cursor' = cursor + 1
              /\ UNCHANGED phase
  <2>1. PICK k \in DOMAIN path :
              /\ ~object_requires_all_jobs(path[k].object)
              /\ object_del_jobs(path[k].object)
              /\ removed' = removed \cup {path[k].object}
              /\ cursor' = cursor + 1
              /\ UNCHANGED phase
    BY <1>6
  <2> DEFINE o == path[k].object
             gone == JobsOf(o)
  <2>2. o \in Objects
    BY <1>3
  <2>3. jobs' = Without(gone) /\ Destroy(gone)
    <3>1. UNION {get_del_list(j) : j \in JobsOf(o)} = gone
      BY DEF get_del_list
    <3> QED BY <2>1, <3>1 DEF object_del_jobs
  <2>4. gone \in SUBSET Job /\ goal_required \cap gone = {}
    <3>1. gone \in SUBSET Job
      BY <1>1, <2>2, JobsOfFacts
    <3>2. ASSUME NEW j \in goal_required, j \in gone PROVE FALSE
      <4>1. j = objective \/ \E r \in reqs : r.to = j /\ r.goal_required
        BY <1>1, <1>2 DEF GoalInv
      <4> QED BY <2>1, <3>2, <4>1 DEF object_requires_all_jobs
    <3> QED BY <3>1, <3>2
  <2> HIDE DEF gone, o
  <2>5. /\ jobs' \in [Objects -> Seq(JobTypes)]
        /\ goal_required' = goal_required
        /\ reqs' \subseteq reqs
        /\ (LinkInv /\ GoalInv /\ NothingLeftOut)'
        /\ GoalKept
    BY <1>2, <2>1, <2>3, <2>4, DeleteStep
  <2>6. TypeOK'
    <3>1. removed' \subseteq Objects
      BY <1>1, <2>1, <2>2 DEF TypeOK, o
    <3>2. cursor' \in 1 .. Len(Order) + 1
      BY <1>3, <2>1
    <3>3. reqs' \subseteq Requirement /\ goal_required' \subseteq Job
      BY <1>1, <2>5 DEF TypeOK
    <3> QED BY <1>1, <1>2, <1>4, <2>1, <2>5, <3>1, <3>2, <3>3 DEF TypeOK
  <2>7. PathInv'
    BY <1>2, <1>4, <2>1 DEF PathInv
  <2>8. removed' # {} /\ phase' = "verify"
    BY <1>2, <2>1
  <2>9. (SearchInv /\ AcyclicUnlessRemoved /\ MergeInv)'
    BY <2>8 DEF SearchInv, AcyclicUnlessRemoved, MergeInv
  <2> QED BY <2>5, <2>6, <2>7, <2>9 DEF TxInv
<1> QED BY <1>5, <1>6 DEF try_remove_cycle

(* The objects from the one that an edge leads back to are a circular set. *)
LEMMA PathCycle ==
    ASSUME TxInv, try_remove_cycle
    PROVE  \E S \in SUBSET {path[k].object : k \in DOMAIN path} : S \in SUBSET Objects /\ Circular(S)
<1> DEFINE n == Len(path)
           t == path[n].object
           m == path[n].next
<1>1. TypeOK /\ PathInv
  BY DEF TxInv
<1>2. path # << >> /\ m <= Len(After(t)) /\ OnPath(After(t)[m].to)
  BY DEF try_remove_cycle, Deeper, Top
<1>3. /\ n \in Nat \ {0} /\ DOMAIN path = 1 .. n
      /\ \A k \in 1 .. n : /\ path[k].object \in Objects
                           /\ path[k].next \in Nat
                           /\ HasJobs(path[k].object)
  BY <1>1, <1>2, TopFacts
<1>4. PICK i \in 1 .. n : path[i].object = After(t)[m].to
  BY <1>2, <1>3 DEF OnPath
<1> HIDE DEF n
<1>5. n \in 1 .. n
  BY <1>3
<1>6. Ordered(t, path[i].object)
  <2>1. t \in Objects /\ m \in Nat /\ m >= 1
    BY <1>1, <1>3, <1>5 DEF PathInv, n
  <2> HIDE DEF t, m
  <2>2. Len(After(t)) \in Nat /\ DOMAIN After(t) = 1 .. Len(After(t))
    BY <1>1, <2>1, AfterFacts
  <2>3. m \in DOMAIN After(t)
    BY <1>2, <2>1, <2>2
  <2> QED BY <1>1, <1>4, <2>1, <2>3, AfterFacts
<1> DEFINE S == {path[k].object : k \in i .. n}
<1>7. /\ S \in SUBSET {path[k].object : k \in DOMAIN path}
      /\ S \in SUBSET Objects
      /\ S # {}
  <2>1. n \in i .. n /\ \A k \in i .. n : k \in 1 .. n
    BY <1>3, <1>4
  <2> QED BY <1>3, <2>1
<1>8. ASSUME NEW o \in S PROVE HasJobs(o) /\ \E p \in S : Ordered(o, p)
  <2>1. PICK k \in i .. n : o = path[k].object
    OBVIOUS
  <2>2. k \in 1 .. n /\ i \in i .. n
    BY <1>3, <1>4
  <2>3. CASE k = n
    BY <1>3, <1>6, <2>1, <2>2, <2>3
  <2>4. CASE k # n
    <3>1. k \in 1 .. (n - 1) /\ k + 1 \in i .. n
      BY <1>3, <1>4, <2>2, <2>4
    <3>2. Ordered(path[k].object, path[k + 1].object)
      BY <1>1, <3>1 DEF PathInv, n
    <3> QED BY <1>3, <2>1, <2>2, <3>1, <3>2
  <2> QED BY <2>3, <2>4
<1>9. Circular(S)
  BY <1>7, <1>8 DEF Circular
<1> QED BY <1>7, <1>9

(* So the order graph has a cycle. *)
LEMMA CycleFound ==
    ASSUME TxInv, try_remove_cycle
    PROVE  ~Acyclic
<1>1. TypeOK
  BY DEF TxInv
<1> QED BY <1>1, PathCycle, AcyclicFacts

-----------------------------------------------------------------------------
(* Merging                                                                 *)

(* No object gets its first job while jobs are merged. *)
LEMMA StaysAcyclic ==
    ASSUME TxInv, phase = "merge", phase' \in {"merge", "done", "unmergeable"},
           UNCHANGED <<edges, removed>>, \A o \in Objects : HasJobs(o)' => HasJobs(o)
    PROVE  AcyclicUnlessRemoved'
<1> SUFFICES ASSUME removed = {} PROVE Acyclic'
  BY DEF AcyclicUnlessRemoved
<1>1. Acyclic
  BY DEF TxInv, AcyclicUnlessRemoved
<1> SUFFICES ASSUME NEW S \in SUBSET {o \in Objects : HasJobs(o)'}, S # {}
             PROVE  \E o \in S : \A e \in Range(edges[o]) : "After" \in e.type => e.to \notin S
  BY DEF Acyclic
<1>2. S \in SUBSET {o \in Objects : HasJobs(o)}
  OBVIOUS
<1> QED BY <1>1, <1>2 DEF Acyclic

(* A turn of merge_jobs() that leaves the other invariants alone. *)
LEMMA MergeTurn ==
    ASSUME TxInv, phase = "merge", phase' \in {"merge", "unmergeable"},
           UNCHANGED <<edges, objective, agenda, path, removed, cursor>>,
           jobs' \in [Objects -> Seq(JobTypes)],
           goal_required' \subseteq Job, reqs' \subseteq Requirement,
           \A o \in Objects : Len(jobs'[o]) <= Len(jobs[o])
    PROVE  (TypeOK /\ NothingLeftOut /\ PathInv /\ SearchInv /\ AcyclicUnlessRemoved /\ MergeInv)'
<1>1. TypeOK /\ PathInv /\ MergeInv
  BY DEF TxInv
<1>2. TypeOK'
  BY <1>1 DEF TypeOK, Phases
<1>3. path = << >> /\ Len(path) = 0
  BY <1>1, EmptySeq DEF TypeOK
<1>4. PathInv'
  BY <1>3 DEF PathInv
<1>5. NothingLeftOut' /\ SearchInv'
  BY DEF NothingLeftOut, SearchInv
<1>6. ASSUME NEW o \in Objects
      PROVE  /\ Len(jobs[o]) \in Nat /\ Len(jobs'[o]) \in Nat
             /\ HasJobs(o)' => HasJobs(o)
  <2>1. jobs[o] \in Seq(JobTypes) /\ jobs'[o] \in Seq(JobTypes)
    BY <1>1 DEF TypeOK
  <2> QED BY <2>1, EmptySeq, LenProperties DEF HasJobs
<1>7. AcyclicUnlessRemoved'
  BY <1>6, StaysAcyclic
<1>8. MergeInv'
  <2>1. ASSUME NEW i \in 1 .. (cursor - 1) PROVE Len(jobs'[Order[i]]) <= 1
    <3>1. Order \in Seq(Objects) /\ Len(Order) \in Nat /\ cursor \in 1 .. Len(Order) + 1
      BY <1>1, TxGenAssumption, LenProperties DEF TypeOK
    <3>2. i \in 1 .. Len(Order)
      BY <3>1
    <3>3. Order[i] \in Objects
      BY <3>1, <3>2, ElementOfSeq
    <3>4. Len(jobs[Order[i]]) <= 1
      BY <1>1 DEF MergeInv
    <3> QED BY <1>6, <3>3, <3>4
  <2> QED BY <2>1 DEF MergeInv
<1> QED BY <1>2, <1>4, <1>5, <1>7, <1>8

(* The first job of an object goes, the second stands for both. *)
LEMMA MergeIntoFacts ==
    ASSUME TypeOK, NEW o \in Objects, Len(jobs[o]) > 1,
           NEW j1, j1 = [object |-> o, type |-> jobs[o][1]],
           NEW j2, j2 = [object |-> o, type |-> jobs[o][2]],
           jobs' = [jobs EXCEPT ![o] = Tail(@)]
    PROVE  /\ j1 \in Job /\ j2 \in Job /\ j1.object = o /\ j2.object = o
           /\ jobs' \in [Objects -> Seq(JobTypes)]
           /\ \A p \in Objects : Len(jobs'[p]) <= Len(jobs[p])
           /\ InTx(j2)'
           /\ \A j \in Job : j # j1 /\ InTx(j) => InTx(j)'
<1>1. jobs \in [Objects -> Seq(JobTypes)] /\ jobs[o] \in Seq(JobTypes)
  BY DEF TypeOK
<1>2. Len(jobs[o]) \in Nat /\ DOMAIN jobs[o] = 1 .. Len(jobs[o]) /\ jobs[o] # << >>
  BY <1>1, EmptySeq, LenProperties
<1>3. /\ Tail(jobs[o]) \in Seq(JobTypes)
      /\ Len(Tail(jobs[o])) = Len(jobs[o]) - 1
      /\ \A i \in 1 .. Len(Tail(jobs[o])) : Tail(jobs[o])[i] = jobs[o][i + 1]
      /\ DOMAIN Tail(jobs[o]) = 1 .. Len(Tail(jobs[o]))
  BY <1>1, <1>2, HeadTailProperties, LenProperties
<1>4. j1 \in Job /\ j2 \in Job /\ j1.object = o /\ j2.object = o /\ j2.type = jobs[o][2]
  <2>1. jobs[o][1] \in JobTypes /\ jobs[o][2] \in JobTypes
    BY <1>1, <1>2, ElementOfSeq
  <2> QED BY <2>1 DEF Job
<1>5. /\ jobs' \in [Objects -> Seq(JobTypes)]
      /\ jobs'[o] = Tail(jobs[o])
      /\ \A p \in Objects : p # o => jobs'[p] = jobs[p]
  BY <1>1, <1>3
<1>6. \A p \in Objects : Len(jobs'[p]) <= Len(jobs[p])
  <2> TAKE p \in Objects
  <2>1. CASE p = o
    BY <1>2, <1>3, <1>5, <2>1
  <2>2. CASE p # o
    <3>1. Len(jobs[p]) \in Nat
      <4>1. jobs[p] \in Seq(JobTypes)
        BY <1>1
      <4> QED BY <4>1, LenProperties
    <3> QED BY <1>5, <2>2, <3>1
  <2> QED BY <2>1, <2>2
<1>7. InTx(j2)'
  <2>1. 1 \in DOMAIN Tail(jobs[o]) /\ Tail(jobs[o])[1] = j2.type
    BY <1>2, <1>3, <1>4
  <2>2. jobs'[j2.object] = Tail(jobs[o])
    BY <1>4, <1>5
  <2> QED BY <2>1, <2>2 DEF InTx
<1>8. ASSUME NEW j \in Job, j # j1, InTx(j) PROVE InTx(j)'
  <2>1. CASE j.object = o
    <3>1. PICK k \in DOMAIN jobs[o] : jobs[o][k] = j.type
      BY <1>8, <2>1 DEF InTx
    <3>2. j = [object |-> o, type |-> j.type]
      BY <2>1 DEF Job
    <3>3. k # 1
      BY <1>8, <3>1, <3>2
    <3>4. k - 1 \in DOMAIN Tail(jobs[o]) /\ Tail(jobs[o])[k - 1] = j.type
      BY <1>2, <1>3, <3>1, <3>3
    <3> QED BY <1>5, <2>1, <3>4 DEF InTx
  <2>2. CASE j.object # o
    BY <1>5, <1>8, <2>2 DEF Job, InTx
  <2> QED BY <2>1, <2>2
<1> QED BY <1>4, <1>5, <1>6, <1>7, <1>8

(* The first job of an object gives way to the second. *)
LEMMA MergeIntoStep ==
    ASSUME TxInv, phase = "merge", phase' = "merge",
           UNCHANGED <<edges, objective, agenda, path, removed, cursor>>,
           NEW o \in Objects, Len(jobs[o]) > 1,
           merge_job_into([object |-> o, type |-> jobs[o][1]], [object |-> o, type |-> jobs[o][2]])
    PROVE  TxInv' /\ GoalKept
<1>1. TypeOK /\ LinkInv /\ GoalInv
  BY DEF TxInv
<1>2. PICK j1 : j1 = [object |-> o, type |-> jobs[o][1]]
  OBVIOUS
<1>3. PICK j2 : j2 = [object |-> o, type |-> jobs[o][2]]
  OBVIOUS
<1> DEFINE Now(j) == IF j = j1 THEN j2 ELSE j
<1>4. /\ reqs' = {[r EXCEPT !.from = Now(@), !.to = Now(@)] : r \in reqs}
      /\ goal_required' = {Now(j) : j \in goal_required}
      /\ jobs' = [jobs EXCEPT ![o] = Tail(@)]
  <2>1. merge_job_into(j1, j2) /\ j1.object = o
    BY <1>2, <1>3
  <2> QED BY <2>1 DEF merge_job_into
<1>5. /\ j1 \in Job /\ j2 \in Job /\ j1.object = o /\ j2.object = o
      /\ jobs' \in [Objects -> Seq(JobTypes)]
      /\ \A p \in Objects : Len(jobs'[p]) <= Len(jobs[p])
      /\ InTx(j2)'
      /\ \A j \in Job : j # j1 /\ InTx(j) => InTx(j)'
  BY <1>1, <1>2, <1>3, <1>4, MergeIntoFacts
<1>6. \A j \in Job : InTx(j) => Now(j) \in Job /\ Now(j).object = j.object /\ InTx(Now(j))'
  <2> TAKE j \in Job
  <2>1. CASE j = j1
    <3>1. Now(j) = j2
      BY <2>1
    <3> HIDE DEF Now
    <3> QED BY <1>5, <2>1, <3>1 DEF InTx
  <2>2. CASE j # j1
    <3>1. Now(j) = j
      BY <2>2
    <3> HIDE DEF Now
    <3> QED BY <1>5, <2>2, <3>1 DEF InTx
  <2> QED BY <2>1, <2>2
<1> HIDE DEF Now
<1>7. \A r \in reqs' : \E q \in reqs : /\ r.from = Now(q.from)
                                        /\ r.to = Now(q.to)
                                        /\ r.required = q.required
                                        /\ r.goal_required = q.goal_required
                                        /\ r = [from |-> r.from, to |-> r.to,
                                                required |-> r.required,
                                                goal_required |-> r.goal_required]
  <2> TAKE r \in reqs'
  <2>1. PICK q \in reqs : r = [q EXCEPT !.from = Now(@), !.to = Now(@)]
    BY <1>4
  <2>2. q \in Requirement
    BY <1>1 DEF TypeOK
  <2> QED BY <2>1, <2>2 DEF Requirement
<1>8. \A r \in reqs : /\ r.from \in Job /\ r.to \in Job
                       /\ r.required \in BOOLEAN /\ r.goal_required \in BOOLEAN
                       /\ InTx(r.from) /\ InTx(r.to)
  BY <1>1 DEF TypeOK, LinkInv, ReqsConnectJobs, Requirement
<1>9. \A j \in goal_required : j \in Job /\ InTx(j)
  BY <1>1 DEF TypeOK, LinkInv, ReqsConnectJobs
<1>10. reqs' \subseteq Requirement
  <2> SUFFICES ASSUME NEW r \in reqs' PROVE r \in Requirement
    OBVIOUS
  <2>1. /\ r.from \in Job /\ r.to \in Job
        /\ r.required \in BOOLEAN /\ r.goal_required \in BOOLEAN
    BY <1>6, <1>7, <1>8
  <2>2. r = [from |-> r.from, to |-> r.to, required |-> r.required,
             goal_required |-> r.goal_required]
    BY <1>7
  <2> QED BY <2>1, <2>2 DEF Requirement
<1>11. goal_required' \subseteq Job
  BY <1>4, <1>6, <1>9
<1>12. (TypeOK /\ NothingLeftOut /\ PathInv /\ SearchInv /\ AcyclicUnlessRemoved /\ MergeInv)'
  BY <1>5, <1>10, <1>11, MergeTurn
<1>13. LinkInv'
  <2>1. \A r \in reqs' : InTx(r.from)' /\ InTx(r.to)'
    BY <1>6, <1>7, <1>8
  <2>2. \A j \in goal_required' : InTx(j)'
    BY <1>4, <1>6, <1>9
  <2>3. agenda = << >> /\ agenda' = << >>
    BY <1>1 DEF LinkInv
  <2> QED BY <2>1, <2>2, <2>3 DEF LinkInv, ReqsConnectJobs
<1>14. GoalKept
  BY <1>4, <1>6, <1>9 DEF GoalKept
<1>15. GoalInv'
  <2>1. PICK j \in goal_required : j.object = objective.object
    BY <1>1 DEF GoalInv
  <2>2. \E k \in goal_required' : k.object = objective.object
    BY <1>14, <2>1 DEF GoalKept
  <2> QED BY <2>2 DEF GoalInv
<1> QED BY <1>12, <1>13, <1>14, <1>15 DEF TxInv

(* A turn of the loop of merge_jobs() keeps it. *)
LEMMA MergeStep ==
    ASSUME TxInv, merge_jobs
    PROVE  TxInv' /\ GoalKept
<1> DEFINE o == Order[cursor]
           j1 == [object |-> o, type |-> jobs[o][1]]
           j2 == [object |-> o, type |-> jobs[o][2]]
<1>1. TypeOK /\ MergeInv /\ PathInv
  BY DEF TxInv
<1>2. /\ phase = "merge" /\ cursor <= Len(Order)
      /\ UNCHANGED <<edges, objective, agenda, path, removed>>
  BY DEF merge_jobs
<1>3. /\ Order \in Seq(Objects) /\ Len(Order) \in Nat /\ cursor \in 1 .. Len(Order)
      /\ o \in Objects
  <2>1. Order \in Seq(Objects) /\ Len(Order) \in Nat
    BY TxGenAssumption, LenProperties
  <2>2. cursor \in 1 .. Len(Order)
    BY <1>1, <1>2, <2>1 DEF TypeOK
  <2> QED BY <2>1, <2>2, ElementOfSeq
<1>4. jobs[o] \in Seq(JobTypes) /\ Len(jobs[o]) \in Nat
  <2>1. jobs[o] \in Seq(JobTypes)
    BY <1>1, <1>3 DEF TypeOK
  <2> QED BY <2>1, LenProperties
<1>5. CASE Len(jobs[o]) > 1 /\ merge_job_into(j1, j2) /\ UNCHANGED <<phase, cursor>>
  BY <1>2, <1>3, <1>5, MergeIntoStep
<1>6. CASE phase' = "unmergeable" /\ UNCHANGED <<jobs, goal_required, reqs, cursor>>
  <2>1. (LinkInv /\ GoalInv)' /\ GoalKept
    BY <1>2, <1>6, SameLinks
  <2>2. \A p \in Objects : Len(jobs'[p]) <= Len(jobs[p])
    <3> TAKE p \in Objects
    <3>1. jobs[p] \in Seq(JobTypes)
      BY <1>1 DEF TypeOK
    <3>2. Len(jobs[p]) \in Nat
      BY <3>1, LenProperties
    <3> QED BY <1>6, <3>2
  <2>3. /\ jobs' \in [Objects -> Seq(JobTypes)]
        /\ goal_required' \subseteq Job
        /\ reqs' \subseteq Requirement
    BY <1>1, <1>6 DEF TypeOK
  <2>4. (TypeOK /\ NothingLeftOut /\ PathInv /\ SearchInv /\ AcyclicUnlessRemoved /\ MergeInv)'
    BY <1>2, <1>6, <2>2, <2>3, MergeTurn
  <2> QED BY <2>1, <2>4 DEF TxInv
<1>7. CASE /\ Len(jobs[o]) > 1
           /\ ~({j1, j2} \subseteq goal_required)
           /\ jobs' = Without(get_del_list(to_delete(j1, j2)))
           /\ Destroy(get_del_list(to_delete(j1, j2)))
           /\ UNCHANGED <<phase, cursor>>
  <2> DEFINE gone == get_del_list(to_delete(j1, j2))
  <2>1. j1 \in Job /\ j2 \in Job
    <3>1. 1 \in 1 .. Len(jobs[o]) /\ 2 \in 1 .. Len(jobs[o])
      BY <1>4, <1>7
    <3>2. jobs[o][1] \in JobTypes /\ jobs[o][2] \in JobTypes
      BY <1>4, <3>1, ElementOfSeq
    <3> QED BY <1>3, <3>2 DEF Job
  <2> HIDE DEF j1, j2
  <2>2. gone \in SUBSET Job /\ goal_required \cap gone = {}
    BY <1>7, <2>1 DEF get_del_list, to_delete
  <2>3. jobs' = Without(gone) /\ Destroy(gone)
    BY <1>7
  <2> HIDE DEF gone
  <2>4. /\ jobs' \in [Objects -> Seq(JobTypes)]
        /\ goal_required' = goal_required
        /\ reqs' \subseteq reqs
        /\ (LinkInv /\ GoalInv)'
        /\ GoalKept
        /\ \A p \in Objects : Len(jobs'[p]) <= Len(jobs[p])
    BY <1>2, <1>7, <2>2, <2>3, DeleteStep
  <2>5. goal_required' \subseteq Job /\ reqs' \subseteq Requirement
    BY <1>1, <2>4 DEF TypeOK
  <2>6. (TypeOK /\ NothingLeftOut /\ PathInv /\ SearchInv /\ AcyclicUnlessRemoved /\ MergeInv)'
    BY <1>2, <1>7, <2>4, <2>5, MergeTurn
  <2> QED BY <2>4, <2>6 DEF TxInv
<1>8. CASE /\ Len(jobs[o]) <= 1
           /\ cursor' = cursor + 1
           /\ UNCHANGED <<jobs, goal_required, reqs, phase>>
  <2>1. (LinkInv /\ GoalInv /\ NothingLeftOut)' /\ GoalKept
    BY <1>2, <1>8, SameLinks
  <2>2. TypeOK'
    <3>1. cursor' \in 1 .. Len(Order) + 1
      BY <1>3, <1>8
    <3> QED BY <1>1, <1>2, <1>8, <3>1 DEF TypeOK
  <2>3. path = << >> /\ Len(path) = 0
    BY <1>1, <1>2, EmptySeq DEF TypeOK
  <2>4. PathInv' /\ SearchInv'
    BY <1>2, <1>8, <2>3 DEF PathInv, SearchInv
  <2>5. AcyclicUnlessRemoved'
    BY <1>2, <1>8, StaysAcyclic DEF HasJobs
  <2>6. MergeInv'
    <3>1. \A i \in 1 .. (cursor' - 1) : i \in 1 .. (cursor - 1) \/ i = cursor
      BY <1>3, <1>8
    <3>2. \A i \in 1 .. (cursor - 1) : Len(jobs[Order[i]]) <= 1
      BY <1>1, <1>2 DEF MergeInv
    <3> QED BY <1>2, <1>8, <3>1, <3>2 DEF MergeInv
  <2> QED BY <2>1, <2>2, <2>4, <2>5, <2>6 DEF TxInv
<1> QED BY <1>5, <1>6, <1>7, <1>8 DEF merge_jobs

(* The end of merging keeps it. *)
LEMMA MergedStep ==
    ASSUME TxInv, merged
    PROVE  TxInv' /\ GoalKept
<1>1. TypeOK /\ MergeInv /\ PathInv
  BY DEF TxInv
<1>2. /\ phase = "merge" /\ cursor > Len(Order) /\ phase' = "done"
      /\ UNCHANGED <<edges, objective, jobs, goal_required, reqs, agenda, cursor, path, removed>>
  BY DEF merged
<1>3. TypeOK'
  BY <1>1, <1>2 DEF TypeOK, Phases
<1>4. (LinkInv /\ GoalInv /\ NothingLeftOut)' /\ GoalKept
  BY <1>2, SameLinks
<1>5. path = << >> /\ Len(path) = 0
  BY <1>1, <1>2, EmptySeq DEF TypeOK
<1>6. PathInv' /\ SearchInv'
  BY <1>2, <1>5 DEF PathInv, SearchInv
<1>7. AcyclicUnlessRemoved'
  BY <1>2, StaysAcyclic DEF HasJobs
<1>8. MergeInv'
  <2>1. ASSUME NEW o \in Objects PROVE Len(jobs[o]) <= 1
    <3>1. Order \in Seq(Objects) /\ \E k \in DOMAIN Order : Order[k] = o
      BY TxGenAssumption
    <3>2. PICK k \in 1 .. Len(Order) : Order[k] = o
      BY <3>1, LenProperties
    <3>3. Len(Order) \in Nat /\ cursor \in 1 .. Len(Order) + 1
      BY <1>1, <3>1, LenProperties DEF TypeOK
    <3>4. k \in 1 .. (cursor - 1)
      BY <1>2, <3>3
    <3> QED BY <1>1, <1>2, <3>2, <3>4 DEF MergeInv
  <2> QED BY <1>2, <2>1 DEF MergeInv
<1> QED BY <1>3, <1>4, <1>6, <1>7, <1>8 DEF TxInv

-----------------------------------------------------------------------------
(* Every step                                                              *)

(* Steps that change nothing. *)
LEMMA StutterStep ==
    ASSUME TxInv, UNCHANGED vars
    PROVE  TxInv' /\ GoalKept
<1>1. /\ UNCHANGED <<edges, objective, jobs, goal_required, reqs, phase, agenda>>
      /\ UNCHANGED <<cursor, path, removed>>
  BY DEF vars
<1>2. TypeOK' /\ LinkInv' /\ GoalInv' /\ GoalKept
  BY <1>1 DEF TxInv, TypeOK, LinkInv, GoalInv, ReqsConnectJobs, InTx, GoalKept
<1>3. NothingLeftOut'
  <2>1. \A o : JobsOf(o)' = JobsOf(o)
    BY <1>1 DEF JobsOf
  <2>2. \A j : Visits(j)' = Visits(j)
    BY <1>1, SameVisits
  <2> QED BY <1>1, <2>1, <2>2 DEF TxInv, NothingLeftOut
<1>4. PathInv' /\ MergeInv'
  BY <1>1 DEF TxInv, PathInv, MergeInv, HasJobs, Ordered
<1>5. SearchInv'
  BY <1>1, SameJobs DEF TxInv, SearchInv
<1>6. AcyclicUnlessRemoved'
  BY <1>1, SameJobs DEF TxInv, AcyclicUnlessRemoved
<1> QED BY <1>2, <1>3, <1>4, <1>5, <1>6 DEF TxInv

(* Every step keeps the invariant. *)
LEMMA EveryStep ==
    ASSUME TxInv, [Next]_vars
    PROVE  /\ TxInv'
           /\ GoalKept
           /\ removed' # removed \/ (phase' = "cyclical" /\ phase = "verify") => ~Acyclic
<1>1. CASE try_remove_cycle
  BY <1>1, RemoveStep, CycleFound
<1>2. CASE job_submit
  BY <1>2, SubmitStep DEF job_submit
<1>3. CASE submitted
  BY <1>3, SubmittedStep DEF submitted
<1>4. CASE verify_object
  <2>1. UNCHANGED removed /\ phase' # "cyclical"
    BY <1>4 DEF verify_object
  <2> QED BY <1>4, <2>1, VerifyStep
<1>5. CASE path_push
  BY <1>5, PushStep DEF path_push, Deeper
<1>6. CASE path_pop
  BY <1>6, PopStep DEF path_pop
<1>7. CASE merge_jobs
  BY <1>7, MergeStep DEF merge_jobs
<1>8. CASE merged
  BY <1>8, MergedStep DEF merged
<1>9. CASE UNCHANGED vars
  BY <1>9, StutterStep DEF vars
<1> QED BY <1>1, <1>2, <1>3, <1>4, <1>5, <1>6, <1>7, <1>8, <1>9 DEF Next, Step, Finished

-----------------------------------------------------------------------------
(* Theorems                                                                *)

(* The inductive invariant holds in every state of every transaction. *)
THEOREM TxInvariant == Spec => []TxInv
<1>1. TxInv /\ [Next]_vars => TxInv'
  BY EveryStep
<1> QED BY InitInv, <1>1, PTL DEF Spec

(* The state of a transaction is well-typed, and a path exists only in verify_acyclic(). *)
THEOREM TxTypeCorrect == Spec => []TypeOK
<1>1. TxInv => TypeOK
  BY DEF TxInv
<1> QED BY TxInvariant, <1>1, PTL

(***************************************************************************)
(* No requirement points at a job that is gone: object_del_jobs(),         *)
(* merge_job_into() and the deletion of unmergeable jobs keep reqs and     *)
(* reqs_on within the transaction.                                         *)
(***************************************************************************)
THEOREM NoDanglingRequirement == Spec => []ReqsConnectJobs
<1>1. TxInv => ReqsConnectJobs
  BY DEF TxInv, LinkInv
<1> QED BY TxInvariant, <1>1, PTL

(***************************************************************************)
(* The recursion of job_submit(), which stops at jobs that exist already,  *)
(* leaves out nothing that an edge asks for.                               *)
(***************************************************************************)
THEOREM SubmissionComplete == Spec => []NothingLeftOut
<1>1. TxInv => NothingLeftOut
  BY DEF TxInv
<1> QED BY TxInvariant, <1>1, PTL

(***************************************************************************)
(* The search of verify_acyclic() is complete: when it has come to its end *)
(* without deleting a job, there is no cycle of kAfter edges.              *)
(***************************************************************************)
THEOREM SearchComplete == Spec => []AcyclicUnlessRemoved
<1>1. TxInv => AcyclicUnlessRemoved
  BY DEF TxInv
<1> QED BY TxInvariant, <1>1, PTL

(***************************************************************************)
(* The search is sound: object_creates_cycle() has jobs deleted, or the    *)
(* transaction rejected, only when there is a cycle.                       *)
(***************************************************************************)
THEOREM SearchSound == Spec => RemovedOnlyFromCyclic
<1>1. TxInv /\ [Next]_vars =>
         [removed' # removed \/ (phase' = "cyclical" /\ phase = "verify") => ~Acyclic]_vars
  BY EveryStep
<1> QED BY TxInvariant, <1>1, PTL DEF Spec, RemovedOnlyFromCyclic

(***************************************************************************)
(* Neither try_remove_cycle() nor merge_jobs() costs an object its last    *)
(* job that is marked as required for the goal.                            *)
(***************************************************************************)
THEOREM GoalNeverLost == Spec => GoalObjectsKept
<1>1. TxInv /\ [Next]_vars =>
         [\A j \in goal_required : \E k \in goal_required' : k.object = j.object]_vars
  BY EveryStep DEF GoalKept
<1> QED BY TxInvariant, <1>1, PTL DEF Spec, GoalObjectsKept

(***************************************************************************)
(* A transaction that the constructor returns has one job for the object   *)
(* of its objective, and no more than one for any other.                   *)
(***************************************************************************)
THEOREM MergeComplete == Spec => []OneJobEach
<1>1. TxInv => OneJobEach
  <2> SUFFICES ASSUME TxInv, phase = "done"
               PROVE  (\A o \in Objects : Len(jobs[o]) <= 1) /\ HasJobs(objective.object)
    BY DEF OneJobEach
  <2>1. TypeOK /\ LinkInv /\ GoalInv /\ MergeInv
    BY DEF TxInv
  <2>2. PICK j \in goal_required : j.object = objective.object
    BY <2>1 DEF GoalInv
  <2>3. j \in Job /\ InTx(j) /\ objective.object \in Objects
    BY <2>1 DEF TypeOK, LinkInv, ReqsConnectJobs, Job
  <2>4. HasJobs(objective.object)
    BY <2>1, <2>2, <2>3, HasJobsFacts
  <2> QED BY <2>1, <2>4 DEF MergeInv
<1> QED BY TxInvariant, <1>1, PTL

-----------------------------------------------------------------------------
(***************************************************************************)
(* The submission of jobs: the recursion of job_submit() over the edges    *)
(* makes the jobs that are reached from the objective, no more and no      *)
(* less, whatever cycles the edges form, and marks as required for the     *)
(* goal only what required edges lead to.                                  *)
(***************************************************************************)

(* What a job asks for *)

(* The elements of a concatenation. *)
LEMMA ConcatRange ==
    ASSUME NEW S, NEW s \in Seq(S), NEW t \in Seq(S)
    PROVE  s \o t \in Seq(S) /\ Range(s \o t) = Range(s) \cup Range(t)
<1> DEFINE c == s \o t
<1>1. Joins(c, s, t, S)
  BY ConcatElements
<1> HIDE DEF c
<1>2. c \in Seq(S) /\ Range(c) = Range(s) \cup Range(t)
  BY <1>1 DEF Joins, Range
<1> QED BY <1>2 DEF c

(* The kinds of edges that serve job j. *)
Serving(j) == {k \in DOMAIN Demand : j.type \in Demand[k].by}

(***************************************************************************)
(* The cascade of tests in job_submit() visits what the table Demand says: *)
(* the edges of the kinds that serve the job, each for the operation and   *)
(* with the strength of its kind.                                          *)
(***************************************************************************)
LEMMA VisitsRange ==
    ASSUME edges \in [Objects -> Seq(Edge)], NEW j \in Job
    PROVE  Range(Visits(j)) =
             UNION {VisitsOf(j, k, Demand[k].op, Demand[k].required) : k \in Serving(j)}
<1> DEFINE V(k) == VisitsOf(j, k, Demand[k].op, Demand[k].required)
           p1 == Pass(j, "AddStart", "start", TRUE)
           p2 == Pass(j, "AddStartNonreq", "start", FALSE)
           p3 == Pass(j, "AddVerify", "verify", TRUE)
           p4 == Pass(j, "AddStop", "stop", TRUE)
           p5 == Pass(j, "AddStopNonreq", "stop", FALSE)
           p6 == Pass(j, "PropagatesStopTo", "stop", TRUE)
           p7 == Pass(j, "PropagatesReloadTo", "tryreload", TRUE)
           p8 == Pass(j, "PropagatesRestartTo", "tryrestart", TRUE)
<1>1. /\ p1 \in Seq(Visit) /\ p2 \in Seq(Visit) /\ p3 \in Seq(Visit) /\ p4 \in Seq(Visit)
      /\ p5 \in Seq(Visit) /\ p6 \in Seq(Visit) /\ p7 \in Seq(Visit) /\ p8 \in Seq(Visit)
      /\ << >> \in Seq(Visit)
  <2>1. {"start", "verify", "stop", "tryreload", "tryrestart"} \subseteq JobTypes
    BY DEF JobTypes
  <2> DEFINE From == {v \in Visit : v.from = j}
  <2>2. /\ p1 \in Seq(From) /\ p2 \in Seq(From) /\ p3 \in Seq(From) /\ p4 \in Seq(From)
        /\ p5 \in Seq(From) /\ p6 \in Seq(From) /\ p7 \in Seq(From) /\ p8 \in Seq(From)
    BY <2>1, PassType
  <2>3. From \subseteq Visit
    OBVIOUS
  <2> HIDE DEF From, p1, p2, p3, p4, p5, p6, p7, p8
  <2> QED BY <2>2, <2>3, SeqMonotonic, EmptySeq
<1>2. /\ Range(p1) = V("AddStart") /\ Range(p2) = V("AddStartNonreq")
      /\ Range(p3) = V("AddVerify") /\ Range(p4) = V("AddStop")
      /\ Range(p5) = V("AddStopNonreq") /\ Range(p6) = V("PropagatesStopTo")
      /\ Range(p7) = V("PropagatesReloadTo") /\ Range(p8) = V("PropagatesRestartTo")
      /\ Range(<< >>) = {}
  <2>1. /\ Range(p1) = VisitsOf(j, "AddStart", "start", TRUE)
        /\ Range(p2) = VisitsOf(j, "AddStartNonreq", "start", FALSE)
        /\ Range(p3) = VisitsOf(j, "AddVerify", "verify", TRUE)
        /\ Range(p4) = VisitsOf(j, "AddStop", "stop", TRUE)
        /\ Range(p5) = VisitsOf(j, "AddStopNonreq", "stop", FALSE)
        /\ Range(p6) = VisitsOf(j, "PropagatesStopTo", "stop", TRUE)
        /\ Range(p7) = VisitsOf(j, "PropagatesReloadTo", "tryreload", TRUE)
        /\ Range(p8) = VisitsOf(j, "PropagatesRestartTo", "tryrestart", TRUE)
    <3>1. \A type, op, required : Range(Pass(j, type, op, required)) = VisitsOf(j, type, op, required)
      BY PassElements
    <3> QED BY <3>1, Zenon
  <2>2. Range(<< >>) = {}
    BY DEF Range
  <2> QED BY <2>1, <2>2 DEF Demand
<1>3. Visits(j) = (IF j.type \in {"start", "restart", "tryrestart"}
                     THEN p1 \o p2 \o p3 \o p4 \o p5
                     ELSE IF j.type = "stop" THEN p6
                     ELSE IF j.type \in {"reload", "tryreload"} THEN p7 ELSE << >>)
                    \o (IF j.type \in {"restart", "tryrestart"} THEN p8 ELSE << >>)
  BY DEF Visits
<1> HIDE DEF p1, p2, p3, p4, p5, p6, p7, p8, V
<1>4. \A s, t \in Seq(Visit) : s \o t \in Seq(Visit) /\ Range(s \o t) = Range(s) \cup Range(t)
  BY ConcatRange
<1> DEFINE five == p1 \o p2 \o p3 \o p4 \o p5
           Five == V("AddStart") \cup V("AddStartNonreq") \cup V("AddVerify")
                     \cup V("AddStop") \cup V("AddStopNonreq")
<1>5. five \in Seq(Visit) /\ Range(five) = Five
  <2>1. p1 \o p2 \in Seq(Visit) /\ Range(p1 \o p2) = Range(p1) \cup Range(p2)
    BY <1>1, <1>4
  <2>2. p1 \o p2 \o p3 \in Seq(Visit) /\ Range(p1 \o p2 \o p3) = Range(p1 \o p2) \cup Range(p3)
    BY <1>1, <1>4, <2>1
  <2>3. /\ p1 \o p2 \o p3 \o p4 \in Seq(Visit)
        /\ Range(p1 \o p2 \o p3 \o p4) = Range(p1 \o p2 \o p3) \cup Range(p4)
    BY <1>1, <1>4, <2>2
  <2>4. five \in Seq(Visit) /\ Range(five) = Range(p1 \o p2 \o p3 \o p4) \cup Range(p5)
    BY <1>1, <1>4, <2>3
  <2> QED BY <1>2, <2>1, <2>2, <2>3, <2>4
<1> HIDE DEF five
<1>6. /\ j.type \in {"start", "restart", "tryrestart"} => Five \subseteq Range(Visits(j))
      /\ Range(Visits(j)) =
           (IF j.type \in {"start", "restart", "tryrestart"} THEN Five
              ELSE IF j.type = "stop" THEN V("PropagatesStopTo")
              ELSE IF j.type \in {"reload", "tryreload"} THEN V("PropagatesReloadTo") ELSE {})
             \cup (IF j.type \in {"restart", "tryrestart"} THEN V("PropagatesRestartTo") ELSE {})
  <2> DEFINE l == IF j.type \in {"start", "restart", "tryrestart"} THEN five
                     ELSE IF j.type = "stop" THEN p6
                     ELSE IF j.type \in {"reload", "tryreload"} THEN p7 ELSE << >>
             r == IF j.type \in {"restart", "tryrestart"} THEN p8 ELSE << >>
  <2>1. l \in Seq(Visit) /\ r \in Seq(Visit)
    BY <1>1, <1>5
  <2>2. Visits(j) = l \o r
    BY <1>3 DEF five
  <2>3. Range(l) = IF j.type \in {"start", "restart", "tryrestart"} THEN Five
              ELSE IF j.type = "stop" THEN V("PropagatesStopTo")
              ELSE IF j.type \in {"reload", "tryreload"} THEN V("PropagatesReloadTo") ELSE {}
    BY <1>2, <1>5
  <2>4. Range(r) = IF j.type \in {"restart", "tryrestart"} THEN V("PropagatesRestartTo") ELSE {}
    BY <1>2
  <2> HIDE DEF l, r, Five
  <2>5. Range(Visits(j)) = Range(l) \cup Range(r)
    BY <1>4, <2>1, <2>2
  <2> QED BY <2>3, <2>4, <2>5
<1>7. Serving(j) =
        (IF j.type \in {"start", "restart", "tryrestart"}
           THEN {"AddStart", "AddStartNonreq", "AddVerify", "AddStop", "AddStopNonreq"}
           ELSE IF j.type = "stop" THEN {"PropagatesStopTo"}
           ELSE IF j.type \in {"reload", "tryreload"} THEN {"PropagatesReloadTo"} ELSE {})
          \cup (IF j.type \in {"restart", "tryrestart"} THEN {"PropagatesRestartTo"} ELSE {})
  <2>1. DOMAIN Demand = {"AddStart", "AddStartNonreq", "AddVerify", "AddStop", "AddStopNonreq",
                         "PropagatesStopTo", "PropagatesRestartTo", "PropagatesReloadTo"}
    BY DEF Demand
  <2>2. /\ Demand["AddStart"].by = Starts /\ Demand["AddStartNonreq"].by = Starts
        /\ Demand["AddVerify"].by = Starts /\ Demand["AddStop"].by = Starts
        /\ Demand["AddStopNonreq"].by = Starts
        /\ Demand["PropagatesStopTo"].by = {"stop"}
        /\ Demand["PropagatesRestartTo"].by = {"restart", "tryrestart"}
        /\ Demand["PropagatesReloadTo"].by = {"reload", "tryreload"}
    BY DEF Demand
  <2> QED BY <2>1, <2>2 DEF Serving, Starts
<1>8. Range(Visits(j)) = UNION {V(k) : k \in Serving(j)}
  BY <1>6, <1>7
<1> QED BY <1>8 DEF V

(* The jobs the edges ask for, by the kinds of edges. *)
LEMMA AsksFacts ==
    ASSUME NEW j, NEW onlyRequired
    PROVE  \A a : a \in Asks(j, onlyRequired) <=>
              \E e \in Range(edges[j.object]) : \E k \in Serving(j) :
                 /\ k \in e.type
                 /\ Demand[k].required \/ ~onlyRequired
                 /\ a = [object |-> e.to, type |-> Demand[k].op]
BY DEF Asks, Asking, Serving

(* Visits and demands agree. *)
LEMMA VisitsAsk ==
    ASSUME edges \in [Objects -> Seq(Edge)], NEW j \in Job
    PROVE  /\ \A v \in Range(Visits(j)) :
                 /\ [object |-> v.to, type |-> v.op] \in Asks(j, FALSE)
                 /\ v.required => [object |-> v.to, type |-> v.op] \in Asks(j, TRUE)
           /\ \A a \in Asks(j, FALSE) :
                 \E v \in Range(Visits(j)) : a = [object |-> v.to, type |-> v.op]
<1>1. ASSUME NEW v \in Range(Visits(j))
      PROVE  /\ [object |-> v.to, type |-> v.op] \in Asks(j, FALSE)
             /\ v.required => [object |-> v.to, type |-> v.op] \in Asks(j, TRUE)
  <2>1. PICK k \in Serving(j) : v \in VisitsOf(j, k, Demand[k].op, Demand[k].required)
    BY VisitsRange
  <2>2. PICK e \in Range(edges[j.object]) :
           k \in e.type /\ v = Along(j, e, Demand[k].op, Demand[k].required)
    BY <2>1 DEF VisitsOf
  <2>3. v.to = e.to /\ v.op = Demand[k].op /\ v.required = Demand[k].required
    BY <2>2 DEF Along
  <2>4. [object |-> v.to, type |-> v.op] \in Asks(j, FALSE)
    BY <2>1, <2>2, <2>3, AsksFacts
  <2>5. v.required => [object |-> v.to, type |-> v.op] \in Asks(j, TRUE)
    BY <2>1, <2>2, <2>3, AsksFacts, SMTT(30), ZenonT(30)
  <2> QED BY <2>4, <2>5
<1>2. ASSUME NEW a \in Asks(j, FALSE)
      PROVE  \E v \in Range(Visits(j)) : a = [object |-> v.to, type |-> v.op]
  <2>1. PICK e \in Range(edges[j.object]), k \in Serving(j) :
           k \in e.type /\ a = [object |-> e.to, type |-> Demand[k].op]
    <3>1. a \in Asks(j, FALSE) <=>
              \E e \in Range(edges[j.object]) : \E k \in Serving(j) :
                 /\ k \in e.type
                 /\ Demand[k].required \/ ~FALSE
                 /\ a = [object |-> e.to, type |-> Demand[k].op]
      BY DEF Asks, Asking, Serving
    <3> QED BY <3>1
  <2> DEFINE v == Along(j, e, Demand[k].op, Demand[k].required)
  <2>2. v \in VisitsOf(j, k, Demand[k].op, Demand[k].required)
    BY <2>1 DEF VisitsOf
  <2>3. v.to = e.to /\ v.op = Demand[k].op
    BY DEF Along
  <2> HIDE DEF v
  <2>4. v \in Range(Visits(j))
    BY <2>1, <2>2, VisitsRange
  <2> QED BY <2>1, <2>3, <2>4
<1> QED BY <1>1, <1>2

(* The types of the jobs that edges ask for. *)
Asked == {"start", "verify", "stop", "tryrestart", "tryreload"}

(* What a set of jobs asks for is a set of jobs. *)
LEMMA AsksType ==
    ASSUME TypeOK, NEW j \in Job, NEW onlyRequired
    PROVE  \A a \in Asks(j, onlyRequired) : a \in Job /\ a.type \in Asked
<1> TAKE a \in Asks(j, onlyRequired)
<1>1. PICK e \in Range(edges[j.object]), k \in Serving(j) :
         a = [object |-> e.to, type |-> Demand[k].op]
  BY AsksFacts
<1>2. e \in Edge
  <2>1. edges[j.object] \in Seq(Edge)
    BY DEF TypeOK, Job
  <2> QED BY <2>1, LenProperties, ElementOfSeq DEF Range
<1>3. Demand[k].op \in Asked
  BY DEF Serving, Demand, Asked
<1>4. Asked \subseteq JobTypes
  BY DEF Asked, JobTypes
<1> QED BY <1>1, <1>2, <1>3, <1>4 DEF Edge, Job

-----------------------------------------------------------------------------
(* Closure is the least set of jobs that has the objective and what its    *)
(* jobs ask for                                                            *)

(* One more edge. *)
Further(X, onlyRequired) == X \cup UNION {Asks(j, onlyRequired) : j \in X}

(* What is reached by one edge, by two, and so on. *)
Levels(R, onlyRequired) ==
    /\ R \in [0 .. 6 * Len(Order) -> SUBSET Job]
    /\ R[0] = {objective}
    /\ \A n \in 1 .. 6 * Len(Order) : R[n] = Further(R[n - 1], onlyRequired)

(* Closure is the last of its levels. *)
LEMMA ClosureLevels ==
    ASSUME TypeOK, NEW onlyRequired
    PROVE  \E R : Levels(R, onlyRequired) /\ Closure(onlyRequired) = R[6 * Len(Order)]
<1> DEFINE N == 6 * Len(Order)
           Body(f) == [n \in 0 .. N |-> IF n = 0 THEN {objective}
                                        ELSE Further(f[n - 1], onlyRequired)]
           R == CHOOSE f : f = Body(f)
<1>1. N \in Nat
  <2>1. Len(Order) \in Nat
    BY TxGenAssumption, LenProperties
  <2> QED BY <2>1
<1>2. Closure(onlyRequired) = R[N]
  BY DEF Closure, Further
<1>3. \A X \in SUBSET Job : Further(X, onlyRequired) \in SUBSET Job
  BY AsksType DEF Further
<1>4. objective \in Job
  BY DEF TypeOK
<1> HIDE DEF N
<1>5. PICK K \in [0 .. N -> SUBSET Job] :
         K[0] = {objective} /\ \A n \in 1 .. N : K[n] = Further(K[n - 1], onlyRequired)
  <2> DEFINE D == SUBSET Job
             F == [X \in D |-> Further(X, onlyRequired)]
             x == {objective}
  <2>1. F \in [D -> D] /\ x \in D
    BY <1>3, <1>4
  <2> HIDE DEF F, D, x
  <2>2. PICK K \in [0 .. N -> D] : K[0] = x /\ \A n \in 1 .. N : K[n] = F[K[n - 1]]
    BY <1>1, <2>1, Iterates, SMTT(30), ZenonT(30)
  <2> USE DEF D, x
  <2>3. ASSUME NEW n \in 1 .. N PROVE K[n] = Further(K[n - 1], onlyRequired)
    <3>1. n - 1 \in 0 .. N
      BY <1>1
    <3>2. K[n - 1] \in SUBSET Job
      BY <3>1
    <3> QED BY <2>2, <3>2 DEF F
  <2> QED BY <2>2, <2>3
<1>6. K = Body(K)
  <2>1. ASSUME NEW n \in 0 .. N PROVE K[n] = Body(K)[n]
    <3>1. CASE n = 0
      BY <1>5, <3>1
    <3>2. CASE n # 0
      <4>1. n \in 1 .. N
        BY <1>1, <3>2
      <4> QED BY <1>5, <3>2, <4>1
    <3> QED BY <3>1, <3>2
  <2> QED BY <2>1
<1>7. R = Body(R)
  BY <1>6
<1> HIDE DEF R
<1>8. /\ R[0] = {objective}
      /\ \A n \in 1 .. N : R[n] = Further(R[n - 1], onlyRequired)
  <2>1. \A n \in 0 .. N : R[n] = Body(R)[n]
    BY <1>7
  <2>2. \A n \in 0 .. N : Body(R)[n] = IF n = 0 THEN {objective}
                                       ELSE Further(R[n - 1], onlyRequired)
    OBVIOUS
  <2> HIDE DEF Body
  <2> QED BY <1>1, <2>1, <2>2
<1>9. 0 .. N \subseteq {n \in 0 .. N : R[n] \in SUBSET Job}
  <2> DEFINE P == {n \in 0 .. N : R[n] \in SUBSET Job}
  <2>1. 0 \in P
    BY <1>1, <1>4, <1>8
  <2>2. ASSUME NEW n \in Nat, n < N, n \in P PROVE n + 1 \in P
    <3>1. n + 1 \in 1 .. N /\ (n + 1) - 1 = n
      BY <1>1, <2>2
    <3>2. R[n + 1] = Further(R[n], onlyRequired)
      BY <1>8, <3>1
    <3>3. R[n + 1] \in SUBSET Job
      BY <1>3, <2>2, <3>2
    <3> QED BY <1>1, <3>1, <3>3
  <2> HIDE DEF P
  <2>3. 0 .. N \subseteq P
    BY <1>1, <2>1, <2>2, UpTo
  <2> QED BY <2>3 DEF P
<1>10. R \in [0 .. N -> SUBSET Job]
  <2>1. R = [n \in 0 .. N |-> R[n]]
    <3>1. DOMAIN Body(R) = 0 .. N /\ Body(R) = [n \in 0 .. N |-> Body(R)[n]]
      OBVIOUS
    <3> HIDE DEF Body
    <3> QED BY <1>7, <3>1
  <2> QED BY <1>9, <2>1
<1>11. Levels(R, onlyRequired)
  BY <1>8, <1>10 DEF Levels, N
<1> QED BY <1>2, <1>11 DEF N

(* A set with the objective that is closed under Asks has every level. *)
LEMMA LevelsWithin ==
    ASSUME TypeOK, NEW onlyRequired, NEW R, Levels(R, onlyRequired),
           NEW X, objective \in X, \A j \in X : Asks(j, onlyRequired) \subseteq X
    PROVE  R[6 * Len(Order)] \subseteq X
<1> DEFINE N == 6 * Len(Order)
           P == {n \in 0 .. N : R[n] \subseteq X}
<1>1. N \in Nat
  <2>1. Len(Order) \in Nat
    BY TxGenAssumption, LenProperties
  <2> QED BY <2>1
<1>2. R[0] = {objective} /\ \A n \in 1 .. N : R[n] = Further(R[n - 1], onlyRequired)
  BY DEF Levels
<1> HIDE DEF N
<1>3. 0 \in P
  BY <1>1, <1>2
<1>4. ASSUME NEW n \in Nat, n < N, n \in P PROVE n + 1 \in P
  <2>1. n + 1 \in 1 .. N /\ (n + 1) - 1 = n
    BY <1>1, <1>4
  <2>2. R[n + 1] = Further(R[n], onlyRequired)
    BY <1>2, <2>1
  <2>3. R[n + 1] \subseteq X
    BY <1>4, <2>2 DEF Further
  <2> QED BY <1>1, <2>1, <2>3
<1> HIDE DEF P
<1>5. 0 .. N \subseteq P
  BY <1>1, <1>3, <1>4, UpTo
<1>6. N \in P
  BY <1>1, <1>5
<1> QED BY <1>6 DEF P, N

(* The jobs that may be reached: six for each object are more than enough. *)
Reachable == {j \in Job : j.type \in Asked \/ j = objective}

(* There are at most six jobs for each object of the list. *)
LEMMA ReachableBound ==
    ASSUME TypeOK
    PROVE  IsFiniteSet(Reachable) /\ Cardinality(Reachable) <= 6 * Len(Order)
<1> DEFINE place == [t \in JobTypes |->
                       IF t = "start" THEN 1 ELSE IF t = "verify" THEN 2 ELSE IF t = "stop" THEN 3
                       ELSE IF t = "tryrestart" THEN 4 ELSE IF t = "tryreload" THEN 5 ELSE 6]
           at == [o \in Objects |-> CHOOSE k \in 1 .. Len(Order) : Order[k] = o]
           g == [j \in Reachable |-> 6 * (at[j.object] - 1) + place[j.type]]
<1>1. /\ Order \in Seq(Objects) /\ Len(Order) \in Nat
      /\ \A o \in Objects : at[o] \in 1 .. Len(Order) /\ Order[at[o]] = o
  <2>1. Order \in Seq(Objects) /\ \A o \in Objects : \E k \in DOMAIN Order : Order[k] = o
    BY TxGenAssumption
  <2>2. DOMAIN Order = 1 .. Len(Order) /\ Len(Order) \in Nat
    BY <2>1, LenProperties
  <2>3. ASSUME NEW o \in Objects PROVE at[o] \in 1 .. Len(Order) /\ Order[at[o]] = o
    <3>1. \E k \in 1 .. Len(Order) : Order[k] = o
      BY <2>1, <2>2
    <3> QED BY <3>1
  <2> QED BY <2>1, <2>2, <2>3
<1>2. /\ \A t \in JobTypes : place[t] \in 1 .. 6
      /\ \A t, u \in JobTypes : place[t] = place[u] =>
            t = u \/ (t \notin Asked /\ u \notin Asked)
  BY DEF Asked
<1> HIDE DEF at, place
<1>3. g \in [Reachable -> 1 .. 6 * Len(Order)]
  <2>1. ASSUME NEW j \in Reachable PROVE 6 * (at[j.object] - 1) + place[j.type] \in 1 .. 6 * Len(Order)
    <3>1. at[j.object] \in 1 .. Len(Order) /\ place[j.type] \in 1 .. 6
      BY <1>1, <1>2 DEF Reachable, Job
    <3>2. \A L \in Nat : \A a \in 1 .. L : \A q \in 1 .. 6 : 6 * (a - 1) + q \in 1 .. 6 * L
      OBVIOUS
    <3> QED BY <1>1, <3>1, <3>2
  <2> QED BY <2>1
<1>4. ASSUME NEW i \in Reachable, NEW j \in Reachable, g[i] = g[j] PROVE i = j
  <2>1. /\ i.object \in Objects /\ j.object \in Objects
        /\ i.type \in JobTypes /\ j.type \in JobTypes
        /\ i = [object |-> i.object, type |-> i.type]
        /\ j = [object |-> j.object, type |-> j.type]
    BY DEF Reachable, Job
  <2>2. 6 * (at[i.object] - 1) + place[i.type] = 6 * (at[j.object] - 1) + place[j.type]
    BY <1>4
  <2>3. /\ at[i.object] \in Nat /\ at[j.object] \in Nat
        /\ place[i.type] \in 1 .. 6 /\ place[j.type] \in 1 .. 6
    BY <1>1, <1>2, <2>1
  <2>4. at[i.object] = at[j.object] /\ place[i.type] = place[j.type]
    BY <2>2, <2>3
  <2>5. i.object = j.object
    BY <1>1, <2>1, <2>4
  <2>6. i.type = j.type \/ (i.type \notin Asked /\ j.type \notin Asked)
    BY <1>2, <2>1, <2>4
  <2> QED BY <2>1, <2>5, <2>6 DEF Reachable
<1> HIDE DEF g
<1>5. g \in Injection(Reachable, 1 .. 6 * Len(Order))
  BY <1>3, <1>4 DEF Injection, IsInjective
<1>6. IsFiniteSet(1 .. 6 * Len(Order)) /\ Cardinality(1 .. 6 * Len(Order)) = 6 * Len(Order)
  <2> DEFINE N == 6 * Len(Order)
  <2>1. N \in Nat
    BY <1>1
  <2> HIDE DEF N
  <2>2. IsFiniteSet(1 .. N) /\ Cardinality(1 .. N) = IF 1 > N THEN 0 ELSE N - 1 + 1
    BY <2>1, FS_Interval
  <2>3. IsFiniteSet(1 .. N) /\ Cardinality(1 .. N) = N
    BY <2>1, <2>2
  <2> QED BY <2>3 DEF N
<1> QED BY <1>5, <1>6, FS_Injection

(* The last level has all that its jobs ask for: no chain of demands is longer. *)
LEMMA LevelsClosed ==
    ASSUME TypeOK, NEW onlyRequired, NEW R, Levels(R, onlyRequired)
    PROVE  /\ objective \in R[6 * Len(Order)]
           /\ \A j \in R[6 * Len(Order)] : Asks(j, onlyRequired) \subseteq R[6 * Len(Order)]
<1> DEFINE N == 6 * Len(Order)
           Stable(n) == Further(R[n], onlyRequired) = R[n]
           P == {n \in 0 .. N : /\ objective \in R[n]
                                /\ R[n] \subseteq Reachable
                                /\ Stable(n) \/ Cardinality(R[n]) >= n + 1}
<1>1. N \in Nat
  <2>1. Len(Order) \in Nat
    BY TxGenAssumption, LenProperties
  <2> QED BY <2>1
<1>2. /\ R[0] = {objective}
      /\ \A n \in 1 .. N : R[n] = Further(R[n - 1], onlyRequired)
      /\ objective \in Job
  BY DEF Levels, TypeOK
<1>3. IsFiniteSet(Reachable) /\ Cardinality(Reachable) <= N /\ Cardinality(Reachable) \in Nat
  BY ReachableBound, FS_CardinalityType
<1> HIDE DEF N
<1>4. 0 \in P
  <2>1. Cardinality(R[0]) = 1 /\ objective \in R[0] /\ R[0] \subseteq Reachable
    BY <1>2, FS_Singleton DEF Reachable
  <2> QED BY <1>1, <2>1
<1>5. ASSUME NEW n \in Nat, n < N, n \in P PROVE n + 1 \in P
  <2>1. n + 1 \in 1 .. N /\ n + 1 \in 0 .. N /\ (n + 1) - 1 = n
    BY <1>1, <1>5
  <2>2. R[n + 1] = Further(R[n], onlyRequired)
    BY <1>2, <2>1
  <2>3. /\ objective \in R[n] /\ R[n] \subseteq Reachable
        /\ Stable(n) \/ Cardinality(R[n]) >= n + 1
    BY <1>5
  <2>4. R[n] \subseteq R[n + 1] /\ R[n + 1] \subseteq Reachable
    <3>1. \A j \in R[n] : Asks(j, onlyRequired) \subseteq Reachable
      BY <2>3, AsksType DEF Reachable
    <3> QED BY <2>2, <2>3, <3>1 DEF Further
  <2>5. CASE Stable(n)
    <3>1. R[n + 1] = R[n]
      BY <2>2, <2>5
    <3> QED BY <2>1, <2>3, <2>5, <3>1
  <2>6. CASE ~Stable(n)
    <3>1. R[n + 1] # R[n]
      BY <2>2, <2>6
    <3>2. IsFiniteSet(R[n + 1]) /\ IsFiniteSet(R[n])
      BY <1>3, <2>3, <2>4, FS_Subset
    <3>3. Cardinality(R[n]) <= Cardinality(R[n + 1]) /\ Cardinality(R[n]) # Cardinality(R[n + 1])
      BY <2>4, <3>1, <3>2, FS_Subset
    <3>4. Cardinality(R[n]) \in Nat /\ Cardinality(R[n + 1]) \in Nat
      BY <3>2, FS_CardinalityType
    <3>5. Cardinality(R[n]) >= n + 1
      BY <2>3, <2>6
    <3>6. Cardinality(R[n + 1]) >= (n + 1) + 1
      BY <3>3, <3>4, <3>5
    <3> QED BY <2>1, <2>3, <2>4, <3>6
  <2> QED BY <2>5, <2>6
<1> HIDE DEF P
<1>6. 0 .. N \subseteq P
  BY <1>1, <1>4, <1>5, UpTo
<1>7. /\ objective \in R[N] /\ R[N] \subseteq Reachable
      /\ Stable(N) \/ Cardinality(R[N]) >= N + 1
  BY <1>1, <1>6 DEF P
<1>8. Stable(N)
  <2>1. Cardinality(R[N]) <= Cardinality(Reachable) /\ IsFiniteSet(R[N])
    BY <1>3, <1>7, FS_Subset
  <2>2. Cardinality(R[N]) \in Nat
    BY <2>1, FS_CardinalityType
  <2> QED BY <1>1, <1>3, <1>7, <2>1, <2>2
<1>9. \A j \in R[N] : Asks(j, onlyRequired) \subseteq R[N]
  BY <1>8 DEF Further
<1> QED BY <1>7, <1>9 DEF N

(* All that is reached are jobs. *)
LEMMA ClosureTypes ==
    ASSUME TypeOK, NEW onlyRequired
    PROVE  Closure(onlyRequired) \subseteq Job
<1>1. PICK R : Levels(R, onlyRequired) /\ Closure(onlyRequired) = R[6 * Len(Order)]
  BY ClosureLevels
<1>2. Len(Order) \in Nat
  BY TxGenAssumption, LenProperties
<1> QED BY <1>1, <1>2 DEF Levels

(* Closure is the least set that has the objective and is closed under Asks. *)
LEMMA ClosureIsLeast ==
    ASSUME TypeOK, NEW onlyRequired
    PROVE  /\ objective \in Closure(onlyRequired)
           /\ \A j \in Closure(onlyRequired) : Asks(j, onlyRequired) \subseteq Closure(onlyRequired)
           /\ \A X : objective \in X /\ (\A j \in X : Asks(j, onlyRequired) \subseteq X)
                       => Closure(onlyRequired) \subseteq X
<1>1. PICK R : Levels(R, onlyRequired) /\ Closure(onlyRequired) = R[6 * Len(Order)]
  BY ClosureLevels
<1>2. /\ objective \in R[6 * Len(Order)]
      /\ \A j \in R[6 * Len(Order)] : Asks(j, onlyRequired) \subseteq R[6 * Len(Order)]
  BY <1>1, LevelsClosed
<1>3. ASSUME NEW X, objective \in X, \A j \in X : Asks(j, onlyRequired) \subseteq X
      PROVE  R[6 * Len(Order)] \subseteq X
  BY <1>1, <1>3, LevelsWithin
<1> QED BY <1>1, <1>2, <1>3

(* What edges of some types ask for, by the kinds of edges. *)
LEMMA AsksByFacts ==
    ASSUME NEW j, NEW types
    PROVE  \A a : a \in AsksBy(j, types) <=>
              \E e \in Range(edges[j.object]) : \E k \in Serving(j) :
                 k \in types /\ k \in e.type /\ a = [object |-> e.to, type |-> Demand[k].op]
<1> DEFINE Of(e) == {[object |-> e.to, type |-> Demand[k].op] : k \in e.type \cap types \cap Asking(j, FALSE)}
<1>1. AsksBy(j, types) = UNION {Of(e) : e \in Range(edges[j.object])}
  BY DEF AsksBy
<1>2. \A k : k \in Asking(j, FALSE) <=> k \in Serving(j)
  BY DEF Asking, Serving
<1>3. \A e : \A a : a \in Of(e) <=>
         \E k \in Serving(j) : k \in types /\ k \in e.type /\ a = [object |-> e.to, type |-> Demand[k].op]
  BY <1>2
<1> HIDE DEF Of
<1> QED BY <1>1, <1>3

(* Each demand is that of a Requiring edge, which is visited as required, or not. *)
LEMMA AsksSplit ==
    ASSUME edges \in [Objects -> Seq(Edge)], NEW j \in Job
    PROVE  /\ \A types : AsksBy(j, types) \subseteq Asks(j, FALSE)
           /\ \A v \in Range(Visits(j)) :
                 \/ v.required
                 \/ [object |-> v.to, type |-> v.op] \in AsksBy(j, DOMAIN Demand \ Requiring)
           /\ \A a \in AsksBy(j, Requiring) :
                 \E v \in Range(Visits(j)) : v.required /\ a = [object |-> v.to, type |-> v.op]
<1>1. \A k \in Requiring : Demand[k].required
  BY DEF Requiring, Demand
<1>2. ASSUME NEW types, NEW a \in AsksBy(j, types) PROVE a \in Asks(j, FALSE)
  <2>1. PICK e \in Range(edges[j.object]), k \in Serving(j) :
           k \in e.type /\ a = [object |-> e.to, type |-> Demand[k].op]
    BY <1>2, AsksByFacts
  <2>2. k \in e.type \cap Asking(j, FALSE)
    BY <2>1 DEF Serving, Asking
  <2> DEFINE demanded(x) == {[object |-> x.to, type |-> Demand[h].op] : h \in x.type \cap Asking(j, FALSE)}
  <2>3. a \in demanded(e)
    BY <2>1, <2>2
  <2>4. Asks(j, FALSE) = UNION {demanded(x) : x \in Range(edges[j.object])}
    BY DEF Asks
  <2> HIDE DEF demanded
  <2> QED BY <2>1, <2>3, <2>4
<1>3. ASSUME NEW v \in Range(Visits(j))
      PROVE  \/ v.required
             \/ [object |-> v.to, type |-> v.op] \in AsksBy(j, DOMAIN Demand \ Requiring)
  <2>1. PICK k \in Serving(j) : v \in VisitsOf(j, k, Demand[k].op, Demand[k].required)
    BY VisitsRange
  <2>2. PICK e \in Range(edges[j.object]) :
           k \in e.type /\ v = Along(j, e, Demand[k].op, Demand[k].required)
    BY <2>1 DEF VisitsOf
  <2>3. v.to = e.to /\ v.op = Demand[k].op /\ v.required = Demand[k].required
    BY <2>2 DEF Along
  <2>4. CASE k \in Requiring
    BY <1>1, <2>3, <2>4
  <2>5. CASE k \notin Requiring
    <3>1. k \in DOMAIN Demand \ Requiring
      BY <2>5 DEF Serving
    <3> QED BY <2>2, <2>3, <3>1, AsksByFacts
  <2> QED BY <2>4, <2>5
<1>4. ASSUME NEW a \in AsksBy(j, Requiring)
      PROVE  \E v \in Range(Visits(j)) : v.required /\ a = [object |-> v.to, type |-> v.op]
  <2>1. PICK e \in Range(edges[j.object]), k \in Serving(j) :
           k \in Requiring /\ k \in e.type /\ a = [object |-> e.to, type |-> Demand[k].op]
    BY AsksByFacts
  <2>2. PICK v : v = Along(j, e, Demand[k].op, Demand[k].required)
    OBVIOUS
  <2>3. v \in VisitsOf(j, k, Demand[k].op, Demand[k].required)
    BY <2>1, <2>2 DEF VisitsOf
  <2>4. v \in Range(Visits(j))
    BY <2>3, VisitsRange
  <2>5. v.to = e.to /\ v.op = Demand[k].op /\ v.required = Demand[k].required
    BY <2>2 DEF Along
  <2> QED BY <1>1, <2>1, <2>4, <2>5
<1> QED BY <1>2, <1>3, <1>4

(* Loose is the least set that has what is asked for without being required, *)
(* and what its own jobs ask for; the objective is never in it.              *)
LEMMA LooseIsLeast ==
    ASSUME TypeOK
    PROVE  /\ objective \notin Loose
           /\ \A j \in Closure(FALSE) :
                 AsksBy(j, DOMAIN Demand \ Requiring) \subseteq Loose \cup {objective}
           /\ \A j \in Loose : j \in Closure(FALSE) /\ Asks(j, FALSE) \subseteq Loose \cup {objective}
           /\ \A X : /\ \A j \in Closure(FALSE) :
                           AsksBy(j, DOMAIN Demand \ Requiring) \subseteq X \cup {objective}
                     /\ \A j \in X : Asks(j, FALSE) \subseteq X \cup {objective}
                     => Loose \subseteq X
<1> DEFINE all == Closure(FALSE)
           merely == (UNION {AsksBy(j, DOMAIN Demand \ Requiring) : j \in all}) \ {objective}
           Closed(X) == merely \subseteq X /\ \A j \in X : Asks(j, FALSE) \subseteq X \cup {objective}
<1>1. Loose = {j \in all : \A X \in SUBSET all : Closed(X) => j \in X} \ {objective}
  BY DEF Loose
<1>2. /\ all \subseteq Job /\ edges \in [Objects -> Seq(Edge)]
      /\ \A j \in all : Asks(j, FALSE) \subseteq all
  BY ClosureTypes, ClosureIsLeast DEF TypeOK
<1>3. \A j \in all : AsksBy(j, DOMAIN Demand \ Requiring) \subseteq all
  BY <1>2, AsksSplit
<1>4. \A a : a \in merely <=> a # objective /\ \E j \in all : a \in AsksBy(j, DOMAIN Demand \ Requiring)
  <2> HIDE DEF all
  <2> QED OBVIOUS
<1> HIDE DEF all, merely
<1>5. ASSUME NEW j \in all, NEW a \in AsksBy(j, DOMAIN Demand \ Requiring), a # objective
      PROVE  a \in Loose
  <2>1. a \in merely /\ a \in all
    BY <1>3, <1>4, <1>5
  <2> QED BY <1>1, <1>5, <2>1
<1>6. ASSUME NEW j \in Loose, NEW a \in Asks(j, FALSE), a # objective PROVE a \in Loose
  <2>1. j \in all /\ \A X \in SUBSET all : Closed(X) => j \in X
    BY <1>1
  <2>2. a \in all
    BY <1>2, <2>1
  <2>3. ASSUME NEW X \in SUBSET all, Closed(X) PROVE a \in X
    BY <1>6, <2>1, <2>3
  <2> QED BY <1>1, <1>6, <2>2, <2>3
<1>7. ASSUME NEW X, \A j \in all : AsksBy(j, DOMAIN Demand \ Requiring) \subseteq X \cup {objective},
             \A j \in X : Asks(j, FALSE) \subseteq X \cup {objective}
      PROVE  Loose \subseteq X
  <2>1. PICK Y \in SUBSET all : \A a : a \in Y <=> a \in X /\ a \in all
    <3>1. X \cap all \in SUBSET all
      OBVIOUS
    <3> QED BY <3>1
  <2>2. merely \subseteq Y
    BY <1>3, <1>4, <1>7, <2>1
  <2>3. \A j \in Y : Asks(j, FALSE) \subseteq Y \cup {objective}
    BY <1>2, <1>7, <2>1
  <2> QED BY <1>1, <2>1, <2>2, <2>3
<1> QED BY <1>1, <1>5, <1>6, <1>7 DEF all

-----------------------------------------------------------------------------
(* The submission                                                          *)

(***************************************************************************)
(* While jobs are submitted: the visits to come are asked for by the edges *)
(* of the jobs they come from, and all jobs, and all that are marked as    *)
(* required for the goal, are reached from the objective.  From then until *)
(* a job is deleted, the jobs are all that are reached.                    *)
(***************************************************************************)
SubmitInv ==
    /\ phase = "submit" =>
          /\ \A k \in DOMAIN agenda : agenda[k] \in Range(Visits(agenda[k].from))
          /\ \A o \in Objects : JobsOf(o) \subseteq Closure(FALSE)
          /\ goal_required \subseteq Closure(TRUE)
    /\ phase = "verify" /\ removed = {} =>
          /\ UNION {JobsOf(o) : o \in Objects} = Closure(FALSE)
          /\ goal_required \subseteq Closure(TRUE)

(* What the edges ask for does not change. *)
LEMMA SameClosure ==
    ASSUME UNCHANGED <<edges, objective>>
    PROVE  \A onlyRequired : Closure(onlyRequired)' = Closure(onlyRequired)
BY DEF Closure, Asks, Asking

(* It holds when the constructor begins. *)
LEMMA SubmitInvInit == Init => SubmitInv
<1> SUFFICES ASSUME Init PROVE SubmitInv
  OBVIOUS
<1>1. TypeOK /\ LinkInv
  BY InitInv DEF TxInv
<1>2. objective \in Job /\ edges \in [Objects -> Seq(Edge)]
  BY <1>1 DEF TypeOK
<1>3. /\ agenda = Visits(objective)
      /\ \A k \in DOMAIN agenda : agenda[k].from = objective
  BY <1>2, VisitsType DEF Init
<1>4. \A k \in DOMAIN agenda : agenda[k] \in Range(Visits(agenda[k].from))
  BY <1>3 DEF Range
<1>5. objective \in Closure(FALSE) /\ objective \in Closure(TRUE)
  BY <1>1, ClosureIsLeast
<1>6. ASSUME NEW o \in Objects, NEW j \in JobsOf(o) PROVE j = objective
  <2>1. j \in Job /\ j.object = o /\ \E k \in DOMAIN jobs[o] : jobs[o][k] = j.type
    BY <1>1, JobsOfFacts DEF InTx
  <2>2. jobs[o] = IF o = objective.object THEN <<objective.type>> ELSE << >>
    BY DEF Init
  <2>3. o = objective.object /\ j.type = objective.type
    BY <2>1, <2>2
  <2> QED BY <1>2, <2>1, <2>3 DEF Job
<1>7. \A o \in Objects : JobsOf(o) \subseteq Closure(FALSE)
  BY <1>5, <1>6
<1> QED BY <1>4, <1>5, <1>7 DEF Init, SubmitInv

(* A turn of the loop of job_submit() keeps it. *)
LEMMA SubmitInvStep ==
    ASSUME TxInv, SubmitInv, job_submit
    PROVE  SubmitInv'
<1> DEFINE v == Visiting
           sj == Sought
<1>1. TypeOK /\ LinkInv
  BY DEF TxInv
<1>2. /\ phase = "submit"
      /\ goal_required' = IF v.from \in goal_required /\ v.required
                            THEN goal_required \cup {sj} ELSE goal_required
      /\ UNCHANGED <<edges, objective, phase, cursor, path, removed>>
  BY DEF job_submit, Visiting, Sought
<1>3. /\ InTx(v.from) /\ v.from \in Job /\ sj \in Job
      /\ jobs' \in [Objects -> Seq(JobTypes)]
      /\ \A j \in Job : InTx(j)' <=> InTx(j) \/ j = sj
  BY SubmitFacts
<1>4. /\ edges \in [Objects -> Seq(Edge)]
      /\ \A j : Visits(j)' = Visits(j)
      /\ \A onlyRequired : Closure(onlyRequired)' = Closure(onlyRequired)
  BY <1>1, <1>2, SameVisits, SameClosure DEF TypeOK
<1>5. /\ \A k \in DOMAIN agenda : agenda[k] \in Range(Visits(agenda[k].from))
      /\ \A o \in Objects : JobsOf(o) \subseteq Closure(FALSE)
      /\ goal_required \subseteq Closure(TRUE)
  BY <1>2 DEF SubmitInv
<1>6. v \in Range(Visits(v.from))
  <2>1. PICK k \in DOMAIN agenda : agenda[k] = v
    BY SubmitFacts
  <2> QED BY <1>5, <2>1
<1>7. sj \in Asks(v.from, FALSE) /\ (v.required => sj \in Asks(v.from, TRUE))
  BY <1>3, <1>4, <1>6, VisitsAsk DEF Sought
<1>8. v.from \in Closure(FALSE)
  <2>1. v.from.object \in Objects
    BY <1>3 DEF Job
  <2>2. v.from \in JobsOf(v.from.object)
    BY <1>1, <1>3, <2>1, JobsOfFacts
  <2> QED BY <1>5, <2>1, <2>2
<1>9. sj \in Closure(FALSE)
  BY <1>1, <1>7, <1>8, ClosureIsLeast
<1>10. v.from \in goal_required /\ v.required => sj \in Closure(TRUE)
  BY <1>1, <1>5, <1>7, ClosureIsLeast
<1>11. \A k \in DOMAIN agenda' : agenda'[k] \in Range(Visits(agenda'[k].from))
  <2> TAKE k \in DOMAIN agenda'
  <2>1. CASE \E i \in DOMAIN Visits(sj) : agenda'[k] = Visits(sj)[i]
    <3>1. agenda'[k] \in Range(Visits(sj))
      BY <2>1 DEF Range
    <3>2. \A i \in DOMAIN Visits(sj) : Visits(sj)[i].from = sj
      BY <1>3, <1>4, VisitsType
    <3> QED BY <2>1, <3>1, <3>2
  <2>2. CASE \E i \in DOMAIN agenda : agenda'[k] = agenda[i]
    BY <1>5, <2>2
  <2> QED BY <2>1, <2>2, SubmitFacts
<1>12. (\A k \in DOMAIN agenda : agenda[k] \in Range(Visits(agenda[k].from)))'
  <2>1. \A k \in DOMAIN agenda' : agenda'[k] \in Range(Visits(agenda[k].from)')
    BY <1>2, <1>11, SMTT(30), ZenonT(30) DEF Visits, Pass
  <2> QED BY <2>1 DEF Range
<1>13. ASSUME NEW o \in Objects, NEW j \in JobsOf(o)' PROVE j \in Closure(FALSE)
  <2>1. j \in {[object |-> o, type |-> jobs'[o][h]] : h \in DOMAIN jobs'[o]}
    BY DEF JobsOf
  <2>2. j \in Job /\ j.object = o /\ \E h \in DOMAIN jobs'[o] : jobs'[o][h] = j.type
    BY <1>3, <2>1, ListedJobs
  <2>3. InTx(j) \/ j = sj
    BY <1>3, <2>2 DEF InTx
  <2>4. CASE InTx(j)
    <3>1. j \in JobsOf(o)
      BY <1>1, <2>2, <2>4, JobsOfFacts
    <3> QED BY <1>5, <3>1
  <2> QED BY <1>9, <2>3, <2>4
<1>14. goal_required' \subseteq Closure(TRUE)
  BY <1>2, <1>5, <1>10
<1>15. (\A o \in Objects : JobsOf(o) \subseteq Closure(FALSE))'
  BY <1>4, <1>13
<1>16. (goal_required \subseteq Closure(TRUE))'
  BY <1>4, <1>14
<1> QED BY <1>2, <1>12, <1>15, <1>16 DEF SubmitInv

(* Once submission is over it says that the jobs are the closure, and that a marked
   job is in the closure along required edges. *)
LEMMA SubmittedInv ==
    ASSUME TxInv, SubmitInv, submitted
    PROVE  SubmitInv'
<1> DEFINE All == UNION {JobsOf(o) : o \in Objects}
<1>1. TypeOK /\ LinkInv /\ GoalInv /\ NothingLeftOut
  BY DEF TxInv
<1>2. /\ phase = "submit" /\ agenda = << >> /\ phase' = "verify"
      /\ UNCHANGED <<edges, objective, jobs, goal_required>>
  BY DEF submitted
<1>3. All \subseteq Closure(FALSE) /\ goal_required \subseteq Closure(TRUE)
  BY <1>2 DEF SubmitInv
<1>4. \A j : j \in All <=> j \in Job /\ InTx(j)
  <2>1. \A j \in Job : j.object \in Objects
    BY DEF Job
  <2> QED BY <1>1, <2>1, JobsOfFacts
<1>5. objective \in All
  <2>1. objective \in goal_required /\ objective \in Job
    BY <1>1, <1>2 DEF GoalInv, TypeOK
  <2> QED BY <1>1, <1>4, <2>1 DEF LinkInv, ReqsConnectJobs
<1>6. ASSUME NEW j \in All, NEW a \in Asks(j, FALSE) PROVE a \in All
  <2>1. j \in Job /\ InTx(j) /\ edges \in [Objects -> Seq(Edge)]
    BY <1>1, <1>4 DEF TypeOK
  <2>2. PICK v \in Range(Visits(j)) : a = [object |-> v.to, type |-> v.op]
    BY <2>1, VisitsAsk
  <2>3. PICK k \in DOMAIN Visits(j) : v = Visits(j)[k]
    BY DEF Range
  <2>4. PICK o \in Objects : j \in JobsOf(o)
    OBVIOUS
  <2>5. \A i \in DOMAIN agenda : FALSE
    BY <1>2
  <2>6. PICK r \in reqs : r.to = [object |-> v.to, type |-> v.op]
    BY <1>1, <1>2, <2>3, <2>4, <2>5 DEF NothingLeftOut
  <2>7. r.to \in Job /\ InTx(r.to)
    BY <1>1 DEF TypeOK, Requirement, LinkInv, ReqsConnectJobs
  <2> QED BY <1>4, <2>2, <2>6, <2>7
<1>7. Closure(FALSE) \subseteq All
  <2> HIDE DEF All
  <2> QED BY <1>1, <1>5, <1>6, ClosureIsLeast
<1>8. All = Closure(FALSE)
  BY <1>3, <1>7
<1>9. (UNION {JobsOf(o) : o \in Objects})' = All
  BY <1>2 DEF JobsOf
<1>10. \A onlyRequired : Closure(onlyRequired)' = Closure(onlyRequired)
  BY <1>2, SameClosure
<1>11. (UNION {JobsOf(o) : o \in Objects})' = Closure(FALSE)'
  BY <1>8, <1>9, <1>10
<1>12. (goal_required \subseteq Closure(TRUE))'
  BY <1>2, <1>3, <1>10
<1> QED BY <1>2, <1>11, <1>12 DEF SubmitInv

(* The search for cycles leaves the jobs alone until it deletes some. *)
LEMMA SubmitInvLater ==
    ASSUME SubmitInv, [Next]_vars, ~job_submit, ~submitted
    PROVE  SubmitInv'
<1>1. CASE UNCHANGED <<edges, objective, jobs, goal_required, agenda, phase, removed>>
  <2>1. Closure(FALSE)' = Closure(FALSE) /\ Closure(TRUE)' = Closure(TRUE)
    BY <1>1, SameClosure
  <2>2. \A o : JobsOf(o)' = JobsOf(o)
    BY <1>1 DEF JobsOf
  <2>3. phase' = "submit" => /\ (\A o \in Objects : JobsOf(o) \subseteq Closure(FALSE))'
                             /\ (goal_required \subseteq Closure(TRUE))'
    BY <1>1, <2>1, <2>2 DEF SubmitInv
  <2>4. phase' = "submit" => (\A k \in DOMAIN agenda : agenda[k] \in Range(Visits(agenda[k].from)))'
    <3>1. \A k : Visits(agenda[k].from)' = Visits(agenda[k].from)
      BY <1>1 DEF Visits, Pass
    <3>2. phase = "submit" => \A k \in DOMAIN agenda : agenda[k] \in Range(Visits(agenda[k].from))
      BY DEF SubmitInv
    <3> QED BY <1>1, <3>1, <3>2 DEF Range
  <2>5. phase' = "verify" /\ removed' = {} =>
           /\ (UNION {JobsOf(o) : o \in Objects})' = Closure(FALSE)'
           /\ (goal_required \subseteq Closure(TRUE))'
    BY <1>1, <2>1, <2>2 DEF SubmitInv
  <2> QED BY <2>3, <2>4, <2>5 DEF SubmitInv
<1>2. CASE phase' \notin {"submit", "verify"} \/ (phase' = "verify" /\ removed' # {})
  BY <1>2 DEF SubmitInv
<1>3. CASE verify_object
  BY <1>1, <1>2, <1>3 DEF verify_object
<1>4. CASE path_push \/ path_pop
  BY <1>1, <1>4 DEF path_push, path_pop
<1>5. CASE try_remove_cycle
  BY <1>2, <1>5 DEF try_remove_cycle, Deeper
<1>6. CASE merge_jobs \/ merged
  BY <1>2, <1>6 DEF merge_jobs, merged
<1>7. CASE UNCHANGED vars
  BY <1>1, <1>7 DEF vars
<1> QED BY <1>3, <1>4, <1>5, <1>6, <1>7 DEF Next, Step, Finished

(* Only job_submit() makes jobs. *)
LEMMA NoNewJobs ==
    ASSUME TxInv, [Next]_vars, ~job_submit
    PROVE  \A j \in Job : InTx(j)' => InTx(j)
<1>1. TypeOK
  BY DEF TxInv
<1>2. CASE UNCHANGED jobs
  BY <1>2 DEF InTx
<1>3. ASSUME NEW gone \in SUBSET Job, jobs' = Without(gone)
      PROVE  \A j \in Job : InTx(j)' => InTx(j)
  BY <1>1, <1>3, WithoutFacts
<1>4. CASE try_remove_cycle
  <2>1. CASE \E k \in DOMAIN path : object_del_jobs(path[k].object)
    <3>1. PICK k \in DOMAIN path : object_del_jobs(path[k].object)
      BY <2>1
    <3>2. /\ DOMAIN path = 1 .. Len(path)
          /\ \A i \in 1 .. Len(path) : path[i].object \in Objects
      <4>1. path # << >> /\ PathInv
        BY <1>4 DEF try_remove_cycle, Deeper, TxInv
      <4> QED BY <1>1, <4>1, TopFacts
    <3>3. PICK o \in Objects : o = path[k].object
      BY <3>2
    <3>4. UNION {get_del_list(j) : j \in JobsOf(o)} \in SUBSET Job
      BY <1>1, JobsOfFacts DEF get_del_list
    <3> QED BY <1>3, <3>1, <3>3, <3>4 DEF object_del_jobs
  <2>2. CASE UNCHANGED jobs
    BY <1>2, <2>2
  <2> QED BY <1>4, <2>1, <2>2 DEF try_remove_cycle
<1>5. CASE merge_jobs
  <2> DEFINE o == Order[cursor]
             j1 == [object |-> o, type |-> jobs[o][1]]
             j2 == [object |-> o, type |-> jobs[o][2]]
  <2>1. o \in Objects
    <3>1. Order \in Seq(Objects) /\ Len(Order) \in Nat
      BY TxGenAssumption, LenProperties
    <3>2. cursor \in 1 .. Len(Order)
      BY <1>1, <1>5, <3>1 DEF TypeOK, merge_jobs
    <3> QED BY <3>1, <3>2, ElementOfSeq
  <2>2. jobs \in [Objects -> Seq(JobTypes)] /\ jobs[o] \in Seq(JobTypes)
    BY <1>1, <2>1 DEF TypeOK
  <2>3. DOMAIN jobs[o] = 1 .. Len(jobs[o]) /\ Len(jobs[o]) \in Nat
    BY <2>2, LenProperties
  <2>4. CASE Len(jobs[o]) > 1 /\ jobs' = [jobs EXCEPT ![o] = Tail(@)]
    <3>1. /\ \A i \in DOMAIN Tail(jobs[o]) : i + 1 \in DOMAIN jobs[o]
                                             /\ Tail(jobs[o])[i] = jobs[o][i + 1]
          /\ jobs'[o] = Tail(jobs[o])
          /\ \A p \in Objects : p # o => jobs'[p] = jobs[p]
      <4>1. /\ Tail(jobs[o]) \in Seq(JobTypes)
            /\ Len(Tail(jobs[o])) = Len(jobs[o]) - 1
            /\ \A i \in 1 .. Len(Tail(jobs[o])) : Tail(jobs[o])[i] = jobs[o][i + 1]
            /\ DOMAIN Tail(jobs[o]) = 1 .. Len(Tail(jobs[o]))
        BY <2>2, <2>3, <2>4, EmptySeq, HeadTailProperties, LenProperties
      <4> QED BY <2>1, <2>2, <2>3, <2>4, <4>1
    <3> SUFFICES ASSUME NEW j \in Job, InTx(j)' PROVE InTx(j)
      OBVIOUS
    <3>2. j.object \in Objects
      BY DEF Job
    <3>3. PICK k \in DOMAIN jobs'[j.object] : jobs'[j.object][k] = j.type
      BY DEF InTx
    <3>4. CASE j.object = o
      <4>1. jobs'[o] = Tail(jobs[o]) /\ k \in DOMAIN Tail(jobs[o])
        BY <3>1, <3>3, <3>4
      <4>2. k + 1 \in DOMAIN jobs[o] /\ jobs[o][k + 1] = j.type
        BY <3>1, <3>3, <3>4, <4>1
      <4> QED BY <3>4, <4>2 DEF InTx
    <3>5. CASE j.object # o
      BY <3>1, <3>2, <3>3, <3>5 DEF InTx
    <3> QED BY <3>4, <3>5
  <2>5. CASE Len(jobs[o]) > 1 /\ jobs' = Without(get_del_list(to_delete(j1, j2)))
    <3>1. jobs[o][1] \in JobTypes /\ jobs[o][2] \in JobTypes
      BY <2>2, <2>3, <2>5, ElementOfSeq
    <3>2. j1 \in Job /\ j2 \in Job
      BY <2>1, <3>1 DEF Job
    <3>3. get_del_list(to_delete(j1, j2)) \in SUBSET Job
      BY <3>2 DEF get_del_list, to_delete
    <3> QED BY <1>3, <2>5, <3>3
  <2>6. CASE UNCHANGED jobs
    BY <1>2, <2>6
  <2> QED BY <1>5, <2>4, <2>5, <2>6 DEF merge_jobs, merge_job_into
<1> QED BY <1>2, <1>4, <1>5 DEF Next, Step, Finished, submitted, verify_object, path_push,
        path_pop, merged, vars

(***************************************************************************)
(* The jobs, and those the edges still to be visited ask for, are within a *)
(* set.  Whatever set that is, as long as it has all that the edges of its *)
(* jobs ask for, the transaction never leaves it.                          *)
(***************************************************************************)
Within(J) ==
    /\ \A j \in Job : InTx(j) => j \in J
    /\ \A k \in DOMAIN agenda : [object |-> agenda[k].to, type |-> agenda[k].op] \in J

(* A transaction is within each set that has its objective and what that asks for. *)
LEMMA InitWithin ==
    ASSUME Init, NEW J, objective \in J, Asks(objective, FALSE) \subseteq J
    PROVE  Within(J)
<1>1. TypeOK
  BY InitInv DEF TxInv
<1>2. objective \in Job /\ edges \in [Objects -> Seq(Edge)]
  BY <1>1 DEF TypeOK
<1>3. ASSUME NEW j \in Job, InTx(j) PROVE j \in J
  <2>1. j.object \in Objects
    BY DEF Job
  <2>2. jobs[j.object] = IF j.object = objective.object THEN <<objective.type>> ELSE << >>
    BY <2>1 DEF Init
  <2>3. j.object = objective.object /\ j.type = objective.type
    BY <1>3, <2>2 DEF InTx
  <2>4. j = objective
    BY <1>2, <2>3 DEF Job
  <2> QED BY <2>4
<1>4. ASSUME NEW k \in DOMAIN agenda
      PROVE  [object |-> agenda[k].to, type |-> agenda[k].op] \in J
  <2>1. PICK v : v = agenda[k]
    OBVIOUS
  <2>2. v \in Range(Visits(objective))
    BY <2>1 DEF Init, Range
  <2>3. [object |-> v.to, type |-> v.op] \in Asks(objective, FALSE)
    BY <1>2, <2>2, VisitsAsk
  <2> QED BY <2>1, <2>3
<1> QED BY <1>3, <1>4 DEF Within

(* A transaction that is within such a set is so after the next step. *)
LEMMA StaysWithin ==
    ASSUME TxInv, [Next]_vars, NEW J, Within(J),
           \A j \in J : j \in Job => Asks(j, FALSE) \subseteq J
    PROVE  Within(J)'
<1>1. TypeOK
  BY DEF TxInv
<1>2. CASE job_submit
  <2>1. /\ Sought \in Job
        /\ \A j \in Job : InTx(j)' <=> InTx(j) \/ j = Sought
        /\ \E k \in DOMAIN agenda : agenda[k] = Visiting
        /\ \A k \in DOMAIN agenda' :
              \/ \E i \in DOMAIN Visits(Sought) : agenda'[k] = Visits(Sought)[i]
              \/ \E i \in DOMAIN agenda : agenda'[k] = agenda[i]
    BY <1>2, SubmitFacts
  <2>2. Sought \in J
    BY <2>1 DEF Within, Sought
  <2>3. \A i \in DOMAIN Visits(Sought) :
           [object |-> Visits(Sought)[i].to, type |-> Visits(Sought)[i].op] \in J
    <3> TAKE i \in DOMAIN Visits(Sought)
    <3>1. PICK v : v = Visits(Sought)[i]
      OBVIOUS
    <3>2. v \in Range(Visits(Sought)) /\ edges \in [Objects -> Seq(Edge)]
      BY <1>1, <3>1 DEF Range, TypeOK
    <3>3. [object |-> v.to, type |-> v.op] \in Asks(Sought, FALSE)
      BY <2>1, <3>2, VisitsAsk
    <3> QED BY <2>1, <2>2, <3>1, <3>3
  <2>4. \A j \in Job : InTx(j)' => j \in J
    BY <2>1, <2>2 DEF Within
  <2>5. \A k \in DOMAIN agenda' : [object |-> agenda'[k].to, type |-> agenda'[k].op] \in J
    BY <2>1, <2>3 DEF Within
  <2> QED BY <2>4, <2>5 DEF Within
<1>3. CASE ~job_submit
  <2>1. \A j \in Job : InTx(j)' => j \in J
    BY <1>3, NoNewJobs DEF Within
  <2>2. agenda' = agenda
    BY <1>3 DEF Next, Step, Finished, submitted, verify_object, path_push, path_pop,
                try_remove_cycle, merge_jobs, merged, vars
  <2> QED BY <2>1, <2>2 DEF Within
<1> QED BY <1>2, <1>3

-----------------------------------------------------------------------------
(* What the goal needs                                                     *)

(* Both are there to stop their unit, or neither is. *)
Alike(j, k) == j.object = k.object /\ (j.type = "stop" <=> k.type = "stop")

(* Each object of S has a job that the goal needs, and is ordered after one of S. *)
NeededCycle(S) ==
    /\ S # {}
    /\ \A o \in S : /\ \E j \in Closure(TRUE) : j.object = o
                    /\ \E p \in S : Ordered(o, p)

(***************************************************************************)
(* A job that is marked as required for the goal stands for one that is    *)
(* reached by required edges, and goal_required of a requirement agrees    *)
(* with that of the job it is on.  The constructor throws only if what the *)
(* goal needs is ordered in a cycle, or is needed stopped and not stopped. *)
(***************************************************************************)
CauseInv ==
    /\ \A j \in goal_required : \E k \in Closure(TRUE) : Alike(j, k)
    /\ phase \in {"submit", "verify"} => \A r \in reqs : r.goal_required => r.to \in goal_required
    /\ phase = "cyclical" => \E S : NeededCycle(S)
    /\ phase = "unmergeable" => \E j, k \in Closure(TRUE) :
                                   j.object = k.object /\ j.type # "stop" /\ k.type = "stop"

(* The goal needs the object stopped. *)
StopNeeded(o) == \E k \in Closure(TRUE) : k.object = o /\ k.type = "stop"

(***************************************************************************)
(* Until jobs of a cycle are deleted, the jobs are among those reached     *)
(* from the objective, and an object that was to have a job has one.  It   *)
(* has one that does not stop it if it was to have one, or must be stopped.*)
(***************************************************************************)
KeptInv ==
    phase # "submit" /\ removed = {} =>
        /\ \A j \in Job : InTx(j) => j \in Closure(FALSE)
        /\ \A j \in Closure(FALSE) : HasJobs(j.object)
        /\ \A j \in Closure(FALSE) :
              \/ \E i \in Job : InTx(i) /\ Alike(i, j)
              \/ j.type = "stop"
              \/ StopNeeded(j.object)

(* Nothing is needed before anything is submitted but the objective. *)
LEMMA InitCause == Init => CauseInv /\ KeptInv
<1> SUFFICES ASSUME Init PROVE CauseInv /\ KeptInv
  OBVIOUS
<1>1. goal_required \subseteq Closure(TRUE)
  BY SubmitInvInit DEF SubmitInv, Init
<1> QED BY <1>1 DEF Init, CauseInv, KeptInv, Alike

(* What is needed does not change while edges and objective do not. *)
LEMMA SameNeeds ==
    ASSUME UNCHANGED <<edges, objective>>
    PROVE  /\ Closure(TRUE)' = Closure(TRUE) /\ Closure(FALSE)' = Closure(FALSE)
           /\ \A S : NeededCycle(S)' <=> NeededCycle(S)
           /\ \A o : StopNeeded(o)' <=> StopNeeded(o)
<1>1. Closure(TRUE)' = Closure(TRUE) /\ Closure(FALSE)' = Closure(FALSE)
  BY SameClosure
<1> QED BY <1>1 DEF NeededCycle, Ordered, StopNeeded

(* Steps that mark nothing. *)
LEMMA CauseStays ==
    ASSUME CauseInv, UNCHANGED <<edges, objective>>,
           goal_required' \subseteq goal_required,
           phase' \in {"submit", "verify"} =>
              /\ phase \in {"submit", "verify"}
              /\ \A r \in reqs' : r \in reqs /\ (r.to \in goal_required => r.to \in goal_required'),
           phase' \in {"cyclical", "unmergeable"} => phase' = phase
    PROVE  CauseInv'
<1>1. Closure(TRUE)' = Closure(TRUE) /\ \A S : NeededCycle(S)' <=> NeededCycle(S)
  BY SameNeeds
<1>2. \A j \in goal_required' : \E k \in Closure(TRUE) : Alike(j, k)
  BY DEF CauseInv
<1>3. phase' \in {"submit", "verify"} => \A r \in reqs' : r.goal_required => r.to \in goal_required'
  BY DEF CauseInv
<1>4. phase' = "cyclical" => \E S : NeededCycle(S)
  BY DEF CauseInv
<1>5. phase' = "unmergeable" => \E j, k \in Closure(TRUE) :
                                   j.object = k.object /\ j.type # "stop" /\ k.type = "stop"
  BY DEF CauseInv
<1> QED BY <1>1, <1>2, <1>3, <1>4, <1>5 DEF CauseInv, Alike

(* A job that is marked while jobs are submitted is marked with its requirement. *)
LEMMA CauseSubmit ==
    ASSUME TxInv, SubmitInv, CauseInv, job_submit
    PROVE  CauseInv'
<1>1. /\ phase = "submit" /\ phase' = "submit"
      /\ \E goal \in BOOLEAN :
            /\ goal_required' = IF goal THEN goal_required \cup {Sought} ELSE goal_required
            /\ reqs' = reqs \cup {[from |-> Visiting.from, to |-> Sought,
                                   required |-> Visiting.required, goal_required |-> goal]}
  <2>1. PICK goal \in BOOLEAN : goal = (Visiting.from \in goal_required /\ Visiting.required)
    BY SubmitFacts
  <2>2. /\ phase = "submit" /\ phase' = "submit"
        /\ goal_required' = IF goal THEN goal_required \cup {Sought} ELSE goal_required
        /\ reqs' = reqs \cup {[from |-> Visiting.from, to |-> Sought,
                               required |-> Visiting.required, goal_required |-> goal]}
    BY <2>1 DEF job_submit, Visiting, Sought
  <2> QED BY <2>2
<1>2. (goal_required \subseteq Closure(TRUE))'
  BY <1>1, SubmitInvStep DEF SubmitInv
<1>3. \A r \in reqs' : r.goal_required => r.to \in goal_required'
  BY <1>1 DEF CauseInv
<1> QED BY <1>1, <1>2, <1>3 DEF CauseInv, Alike

(* If the goal needs a job of each object of the cycle, the cycle is one of needed units. *)
LEMMA CauseCyclical ==
    ASSUME TxInv, CauseInv, try_remove_cycle, phase' = "cyclical"
    PROVE  CauseInv'
<1>1. /\ UNCHANGED <<edges, objective, jobs, goal_required, reqs>>
      /\ phase = "verify"
      /\ \A k \in DOMAIN path : object_requires_all_jobs(path[k].object)
  <2>1. phase = "verify"
    BY DEF try_remove_cycle, Deeper
  <2> QED BY <2>1 DEF try_remove_cycle
<1>2. PICK S \in SUBSET {path[k].object : k \in DOMAIN path} : S \in SUBSET Objects /\ Circular(S)
  BY PathCycle
<1>3. TypeOK /\ GoalInv
  BY DEF TxInv
<1>4. ASSUME NEW o \in S PROVE \E j \in Closure(TRUE) : j.object = o
  <2>1. object_requires_all_jobs(o) /\ o \in Objects
    BY <1>1, <1>2
  <2>2. PICK j \in JobsOf(o) : j = objective \/ \E r \in reqs : r.to = j /\ r.goal_required
    BY <2>1 DEF object_requires_all_jobs
  <2>3. j.object = o
    BY <1>3, <2>1, JobsOfFacts
  <2>4. j \in goal_required
    BY <1>1, <1>3, <2>2 DEF GoalInv, CauseInv
  <2> QED BY <2>3, <2>4 DEF CauseInv, Alike
<1>5. NeededCycle(S)
  BY <1>2, <1>4 DEF NeededCycle, Circular
<1>6. Closure(TRUE)' = Closure(TRUE) /\ NeededCycle(S)'
  BY <1>1, <1>5, SameNeeds
<1>7. \A j \in goal_required' : \E k \in Closure(TRUE)' : Alike(j, k)
  BY <1>1, <1>6 DEF CauseInv
<1>8. phase' = "cyclical" /\ \E X : NeededCycle(X)'
  BY <1>6
<1> QED BY <1>7, <1>8 DEF CauseInv, Alike

(* Two jobs of an object can be merged if both stop it or neither does. *)
LEMMA Mergeable ==
    ASSUME NEW a \in JobTypes, NEW b \in JobTypes
    PROVE  merged_job_type(a, b) # "invalid" <=> (a = "stop" <=> b = "stop")
<1>1. "invalid" \notin JobTypes
  BY DEF JobTypes
<1>2. CASE a = b
  BY <1>1, <1>2 DEF merged_job_type
<1>3. CASE a # b
  <2>1. \A x, y \in JobTypes : "stop" \in {x, y} => merge_matrix(x, y) = "invalid"
    BY DEF merge_matrix
  <2>2. \A x, y \in JobTypes : "stop" \notin {x, y} => merge_matrix(x, y) # "invalid"
    BY <1>1 DEF merge_matrix
  <2>3. \/ merged_job_type(a, b) = merge_matrix(a, b)
        \/ merged_job_type(a, b) = merge_matrix(b, a)
    BY <1>3 DEF merged_job_type
  <2> QED BY <1>3, <2>1, <2>2, <2>3
<1> QED BY <1>2, <1>3

(* The first two jobs of an object. *)
FirstTwo(o, j1, j2) ==
    /\ o \in Objects /\ Len(jobs[o]) > 1
    /\ j1 = [object |-> o, type |-> jobs[o][1]] /\ j1 \in Job /\ InTx(j1)
    /\ j2 = [object |-> o, type |-> jobs[o][2]] /\ j2 \in Job /\ InTx(j2)

(* merge_jobs() makes one of them, gives up on them, or deletes one. *)
Merges(o, j1, j2) ==
    /\ Alike(j1, j2)
    /\ jobs' = [jobs EXCEPT ![o] = Tail(@)]
    /\ goal_required' = {IF j = j1 THEN j2 ELSE j : j \in goal_required}
    /\ phase' = phase

GivesUp(j1, j2) ==
    /\ ~Alike(j1, j2)
    /\ j1 \in goal_required /\ j2 \in goal_required
    /\ UNCHANGED <<jobs, goal_required>>
    /\ phase' = "unmergeable"

Deletes(j1, j2) ==
    /\ ~Alike(j1, j2)
    /\ ~(j1 \in goal_required /\ j2 \in goal_required)
    /\ jobs' = Without({to_delete(j1, j2)})
    /\ goal_required' = goal_required \ {to_delete(j1, j2)}
    /\ phase' = phase

(* A turn of the loop of merge_jobs() does nothing to the jobs, or one of these. *)
LEMMA MergeKinds ==
    ASSUME TypeOK, merge_jobs
    PROVE  /\ phase = "merge" /\ UNCHANGED <<edges, objective, removed>>
           /\ \/ UNCHANGED <<jobs, goal_required, phase>>
              \/ \E o, j1, j2 : /\ FirstTwo(o, j1, j2)
                                /\ Merges(o, j1, j2) \/ GivesUp(j1, j2) \/ Deletes(j1, j2)
<1>1. PICK o : o = Order[cursor]
  OBVIOUS
<1>2. PICK j1 : j1 = [object |-> o, type |-> jobs[o][1]]
  OBVIOUS
<1>3. PICK j2 : j2 = [object |-> o, type |-> jobs[o][2]]
  OBVIOUS
<1>4. o \in Objects /\ jobs[o] \in Seq(JobTypes)
  <2>1. Order \in Seq(Objects) /\ Len(Order) \in Nat
    BY TxGenAssumption, LenProperties
  <2>2. cursor \in 1 .. Len(Order)
    BY <2>1 DEF TypeOK, merge_jobs
  <2> QED BY <1>1, <2>1, <2>2, ElementOfSeq DEF TypeOK
<1>5. /\ phase = "merge" /\ UNCHANGED <<edges, objective, removed>>
      /\ \/ UNCHANGED <<jobs, goal_required, phase>>
         \/ /\ Len(jobs[o]) > 1
            /\ \/ /\ merged_job_type(j1.type, j2.type) # "invalid"
                  /\ merge_job_into(j1, j2)
                  /\ UNCHANGED phase
               \/ /\ merged_job_type(j1.type, j2.type) = "invalid"
                  /\ {j1, j2} \subseteq goal_required
                  /\ phase' = "unmergeable"
                  /\ UNCHANGED <<jobs, goal_required>>
               \/ /\ merged_job_type(j1.type, j2.type) = "invalid"
                  /\ ~({j1, j2} \subseteq goal_required)
                  /\ jobs' = Without(get_del_list(to_delete(j1, j2)))
                  /\ Destroy(get_del_list(to_delete(j1, j2)))
                  /\ UNCHANGED phase
  BY <1>1, <1>2, <1>3 DEF merge_jobs
<1>6. CASE Len(jobs[o]) > 1
  <2>1. Len(jobs[o]) \in Nat /\ DOMAIN jobs[o] = 1 .. Len(jobs[o])
    BY <1>4, LenProperties
  <2>2. 1 \in DOMAIN jobs[o] /\ 2 \in DOMAIN jobs[o]
    BY <1>6, <2>1
  <2>3. jobs[o][1] \in JobTypes /\ jobs[o][2] \in JobTypes
    BY <1>4, <2>1, <2>2, ElementOfSeq
  <2>4. /\ j1 \in Job /\ j2 \in Job /\ InTx(j1) /\ InTx(j2)
        /\ j1.object = o /\ j2.object = o
        /\ j1.type \in JobTypes /\ j2.type \in JobTypes
    BY <1>2, <1>3, <1>4, <2>2, <2>3 DEF Job, InTx
  <2>5. merged_job_type(j1.type, j2.type) # "invalid" <=> Alike(j1, j2)
    BY <2>4, Mergeable DEF Alike
  <2>6. CASE UNCHANGED <<jobs, goal_required, phase>>
    BY <1>5, <2>6
  <2>7. CASE ~UNCHANGED <<jobs, goal_required, phase>>
    <3>1. Merges(o, j1, j2) \/ GivesUp(j1, j2) \/ Deletes(j1, j2)
      BY <1>5, <2>4, <2>5, <2>7
      DEF merge_job_into, get_del_list, Destroy, Merges, GivesUp, Deletes
    <3>2. FirstTwo(o, j1, j2)
      BY <1>2, <1>3, <1>4, <1>6, <2>4 DEF FirstTwo
    <3> QED BY <1>5, <3>1, <3>2
  <2> QED BY <2>6, <2>7
<1>7. CASE ~(Len(jobs[o]) > 1)
  BY <1>5, <1>7
<1> QED BY <1>6, <1>7

(* The job to be deleted is one of the two, and stops the unit if it can. *)
LEMMA ToDelete ==
    ASSUME NEW j1, NEW j2, j1.object = j2.object, ~Alike(j1, j2),
           ~(j1 \in goal_required /\ j2 \in goal_required)
    PROVE  \E gone, kept \in {j1, j2} :
              /\ gone = to_delete(j1, j2)
              /\ gone # kept
              /\ gone.type # "stop" => kept \in goal_required /\ kept.type = "stop"
<1>1. j1 # j2 /\ (j1.type = "stop" <=> j2.type # "stop")
  BY DEF Alike
<1>2. CASE to_delete(j1, j2) = j1
  BY <1>1, <1>2 DEF to_delete
<1>3. CASE to_delete(j1, j2) = j2
  BY <1>1, <1>3 DEF to_delete
<1> QED BY <1>2, <1>3 DEF to_delete

(* Merging marks nothing new, and gives up only on two jobs that are needed. *)
LEMMA CauseMerge ==
    ASSUME TxInv, CauseInv, merge_jobs
    PROVE  CauseInv'
<1>1. TypeOK
  BY DEF TxInv
<1>2. phase = "merge" /\ UNCHANGED <<edges, objective>>
  BY <1>1, MergeKinds
<1>3. CASE UNCHANGED <<jobs, goal_required, phase>>
  BY <1>2, <1>3, CauseStays
<1>4. ASSUME NEW o, NEW j1, NEW j2, Merges(o, j1, j2) PROVE CauseInv'
  <2>1. ASSUME NEW j \in goal_required' PROVE \E k \in Closure(TRUE) : Alike(j, k)
    <3>1. PICK i \in goal_required : j = IF i = j1 THEN j2 ELSE i
      BY <1>4 DEF Merges
    <3>2. PICK k \in Closure(TRUE) : Alike(i, k)
      BY DEF CauseInv
    <3>3. Alike(j, k)
      BY <1>4, <3>1, <3>2 DEF Alike, Merges
    <3> QED BY <3>3
  <2>2. Closure(TRUE)' = Closure(TRUE)
    BY <1>2, SameNeeds
  <2> QED BY <1>2, <1>4, <2>1, <2>2 DEF CauseInv, Alike, Merges
<1>5. ASSUME NEW o, NEW j1, NEW j2, FirstTwo(o, j1, j2), GivesUp(j1, j2) PROVE CauseInv'
  <2>1. PICK k1 \in Closure(TRUE), k2 \in Closure(TRUE) : Alike(j1, k1) /\ Alike(j2, k2)
    BY <1>5 DEF CauseInv, GivesUp
  <2>2. /\ k1.object = k2.object
        /\ (k1.type = "stop") # (k2.type = "stop")
    BY <1>5, <2>1 DEF Alike, FirstTwo, GivesUp
  <2>3. \E j, k \in Closure(TRUE) : j.object = k.object /\ j.type # "stop" /\ k.type = "stop"
    BY <2>2
  <2>4. Closure(TRUE)' = Closure(TRUE)
    BY <1>2, SameNeeds
  <2>5. \A j \in goal_required' : \E k \in Closure(TRUE)' : Alike(j, k)
    BY <1>5, <2>4 DEF CauseInv, GivesUp
  <2>6. \E j, k \in Closure(TRUE)' : j.object = k.object /\ j.type # "stop" /\ k.type = "stop"
    BY <2>3, <2>4
  <2> QED BY <1>5, <2>5, <2>6 DEF CauseInv, Alike, GivesUp
<1>6. ASSUME NEW j1, NEW j2, Deletes(j1, j2) PROVE CauseInv'
  <2>1. goal_required' \subseteq goal_required /\ phase' = phase
    BY <1>6 DEF Deletes
  <2> QED BY <1>2, <2>1, CauseStays
<1> QED BY <1>1, <1>3, <1>4, <1>5, <1>6, MergeKinds

(* No step makes the constructor throw for less. *)
LEMMA CauseStep ==
    ASSUME TxInv, SubmitInv, CauseInv, [Next]_vars
    PROVE  CauseInv'
<1>1. CASE UNCHANGED <<edges, objective, goal_required, reqs>> /\ phase' \notin {"cyclical", "unmergeable"}
  <2>1. phase' \in {"submit", "verify"} => phase \in {"submit", "verify"}
    BY DEF Next, Step, Finished, job_submit, submitted, verify_object, path_push, path_pop,
           Deeper, try_remove_cycle, merge_jobs, merged, vars
  <2> QED BY <1>1, <2>1, CauseStays
<1>2. CASE UNCHANGED <<edges, objective, goal_required, reqs, phase>>
  BY <1>2, CauseStays
<1>3. CASE job_submit
  BY <1>3, CauseSubmit
<1>4. CASE submitted \/ verify_object \/ path_push \/ path_pop \/ merged
  BY <1>1, <1>2, <1>4 DEF submitted, verify_object, path_push, path_pop, merged
<1>5. CASE try_remove_cycle
  <2>1. CASE phase' = "cyclical"
    BY <1>5, <2>1, CauseCyclical
  <2>2. CASE phase' # "cyclical"
    <3>1. PICK gone : Destroy(gone) /\ phase' = phase /\ UNCHANGED <<edges, objective>>
      BY <1>5, <2>2 DEF try_remove_cycle, object_del_jobs
    <3>2. /\ goal_required' \subseteq goal_required
          /\ \A r \in reqs' : r \in reqs /\ (r.to \in goal_required => r.to \in goal_required')
      BY <3>1 DEF Destroy
    <3> QED BY <3>1, <3>2, CauseStays
  <2> QED BY <2>1, <2>2
<1>6. CASE merge_jobs
  BY <1>6, CauseMerge
<1>7. CASE UNCHANGED vars
  BY <1>2, <1>7 DEF vars
<1> QED BY <1>3, <1>4, <1>5, <1>6, <1>7 DEF Next, Step, Finished

(* An object that has a job stays with one when jobs are merged. *)
LEMMA KeptMerge ==
    ASSUME TxInv, CauseInv, KeptInv, merge_jobs
    PROVE  KeptInv'
<1>1. TypeOK /\ TypeOK'
  BY MergeStep DEF TxInv
<1>2. phase = "merge" /\ UNCHANGED <<edges, objective, removed>>
  BY <1>1, MergeKinds
<1> SUFFICES ASSUME removed = {} PROVE KeptInv'
  BY <1>2 DEF KeptInv
<1>3. /\ \A j \in Job : InTx(j) => j \in Closure(FALSE)
      /\ \A j \in Closure(FALSE) : HasJobs(j.object)
      /\ \A j \in Closure(FALSE) : \/ \E i \in Job : InTx(i) /\ Alike(i, j)
                                   \/ j.type = "stop"
                                   \/ StopNeeded(j.object)
  BY <1>2 DEF KeptInv
<1>4. /\ Closure(TRUE)' = Closure(TRUE) /\ Closure(FALSE)' = Closure(FALSE)
      /\ \A o : StopNeeded(o)' <=> StopNeeded(o)
  BY <1>2, SameNeeds
<1>5. \A j \in Job : InTx(j)' => InTx(j)
  <2>1. ~job_submit
    BY <1>2 DEF job_submit
  <2> QED BY <2>1, NoNewJobs DEF Next, Step
<1>6. \A j \in Closure(FALSE) : j \in Job /\ j.object \in Objects
  <2>1. Closure(FALSE) \subseteq Job
    BY <1>1, ClosureTypes
  <2> QED BY <2>1 DEF Job
<1>7. ASSUME \A j \in Job : InTx(j) => \E i \in Job : /\ InTx(i)' /\ i.object = j.object
                                                      /\ \/ Alike(i, j)
                                                         \/ j.type = "stop"
                                                         \/ StopNeeded(j.object)
      PROVE  KeptInv'
  <2>1. \A j \in Job : InTx(j)' => j \in Closure(FALSE)
    BY <1>3, <1>5
  <2>2. ASSUME NEW j \in Closure(FALSE) PROVE HasJobs(j.object)'
    <3>1. PICK o \in Objects : o = j.object
      BY <1>6
    <3>2. PICK i \in Job : i.object = o /\ InTx(i)
      BY <1>1, <1>3, <3>1, HasJobsFacts
    <3>3. PICK k \in Job : k.object = o /\ InTx(k)'
      BY <1>7, <3>2
    <3>4. jobs'[o] # << >>
      BY <3>3 DEF InTx
    <3> QED BY <3>1, <3>4 DEF HasJobs
  <2>3. ASSUME NEW j \in Closure(FALSE)
        PROVE  \/ \E i \in Job : InTx(i)' /\ Alike(i, j)
               \/ j.type = "stop"
               \/ StopNeeded(j.object)
    BY <1>3, <1>7 DEF Alike
  <2> QED BY <1>4, <2>1, <2>2, <2>3 DEF KeptInv, Alike
<1>8. CASE UNCHANGED jobs
  <2>1. \A j \in Job : InTx(j)' <=> InTx(j)
    BY <1>8 DEF InTx
  <2> QED BY <1>7, <2>1 DEF Alike
<1>9. ASSUME NEW o, NEW j1, NEW j2, FirstTwo(o, j1, j2), Merges(o, j1, j2) PROVE KeptInv'
  <2>1. /\ InTx(j2)' /\ j2 \in Job
        /\ \A j \in Job : j # j1 /\ InTx(j) => InTx(j)'
    BY <1>1, <1>9, MergeIntoFacts DEF FirstTwo, Merges
  <2>2. Alike(j2, j1) /\ j2.object = j1.object
    BY <1>9 DEF Merges, Alike
  <2>3. \A j \in Job : InTx(j) => \E i \in Job : InTx(i)' /\ i.object = j.object /\ Alike(i, j)
    BY <2>1, <2>2 DEF Alike
  <2> QED BY <1>7, <2>3
<1>10. ASSUME NEW o, NEW j1, NEW j2, FirstTwo(o, j1, j2), Deletes(j1, j2) PROVE KeptInv'
  <2>1. /\ j1 \in Job /\ j2 \in Job /\ InTx(j1) /\ InTx(j2)
        /\ j1.object = o /\ j2.object = o
    BY <1>10 DEF FirstTwo
  <2>2. PICK gone \in {j1, j2}, kept \in {j1, j2} :
              /\ gone = to_delete(j1, j2)
              /\ gone # kept
              /\ gone.type # "stop" => kept \in goal_required /\ kept.type = "stop"
    BY <1>10, <2>1, ToDelete DEF Deletes
  <2>3. \A j \in Job : InTx(j)' <=> InTx(j) /\ j # gone
    <3>1. {gone} \in SUBSET Job /\ jobs' = Without({gone})
      BY <1>10, <2>1, <2>2 DEF Deletes
    <3> QED BY <1>1, <3>1, WithoutFacts
  <2>4. gone.type = "stop" \/ StopNeeded(o)
    <3>1. CASE gone.type # "stop"
      <4>1. PICK k \in Closure(TRUE) : Alike(kept, k)
        BY <2>2, <3>1 DEF CauseInv
      <4> QED BY <2>1, <2>2, <3>1, <4>1 DEF Alike, StopNeeded
    <3> QED BY <3>1
  <2>5. ASSUME NEW j \in Job, InTx(j)
        PROVE  \E i \in Job : /\ InTx(i)' /\ i.object = j.object
                              /\ Alike(i, j) \/ j.type = "stop" \/ StopNeeded(j.object)
    <3>1. CASE j = gone
      <4>1. kept \in Job /\ InTx(kept)' /\ kept.object = o /\ j.object = o
        BY <2>1, <2>2, <2>3, <3>1
      <4> QED BY <2>4, <3>1, <4>1
    <3>2. CASE j # gone
      BY <2>3, <2>5, <3>2 DEF Alike
    <3> QED BY <3>1, <3>2
  <2> QED BY <1>7, <2>5
<1> QED BY <1>1, <1>8, <1>9, <1>10, MergeKinds DEF GivesUp

(* Nor does it lose one in any other way, as long as no jobs of a cycle are deleted. *)
LEMMA KeptStep ==
    ASSUME TxInv, SubmitInv, CauseInv, KeptInv, [Next]_vars
    PROVE  KeptInv'
<1>1. CASE UNCHANGED <<edges, objective, jobs, removed>> /\ phase # "submit"
  <2>1. /\ Closure(TRUE)' = Closure(TRUE) /\ Closure(FALSE)' = Closure(FALSE)
        /\ \A o : StopNeeded(o)' <=> StopNeeded(o)
        /\ \A o : HasJobs(o)' <=> HasJobs(o)
        /\ \A j : InTx(j)' <=> InTx(j)
    BY <1>1, SameNeeds, SameJobs
  <2> QED BY <1>1, <2>1 DEF KeptInv, Alike
<1>2. CASE submitted
  <2>1. /\ phase' = "verify" /\ removed' = {}
        /\ UNCHANGED <<edges, objective, jobs>>
    BY <1>2 DEF submitted, TxInv, PathInv
  <2>2. (UNION {JobsOf(o) : o \in Objects} = Closure(FALSE))'
    BY <1>2, <2>1, SubmittedInv DEF SubmitInv
  <2>3. UNION {JobsOf(o) : o \in Objects} = Closure(FALSE)
    <3>1. Closure(FALSE)' = Closure(FALSE)
      BY <2>1, SameNeeds
    <3>2. \A o \in Objects : JobsOf(o)' = JobsOf(o)
      BY <2>1 DEF JobsOf
    <3>3. UNION {JobsOf(o)' : o \in Objects} = Closure(FALSE)'
      BY <2>2
    <3> QED BY <3>1, <3>2, <3>3
  <2>4. TypeOK
    BY DEF TxInv
  <2>5. \A j : j \in Closure(FALSE) <=> j \in Job /\ InTx(j)
    BY <2>3, <2>4, JobsOfFacts DEF Job
  <2>6. ASSUME NEW j \in Closure(FALSE) PROVE HasJobs(j.object)
    <3>1. j \in Job /\ InTx(j)
      BY <2>5
    <3>2. PICK o \in Objects : o = j.object
      BY <3>1 DEF Job
    <3> QED BY <2>4, <3>1, <3>2, HasJobsFacts
  <2>7. /\ Closure(TRUE)' = Closure(TRUE) /\ Closure(FALSE)' = Closure(FALSE)
        /\ \A o : HasJobs(o)' <=> HasJobs(o)
        /\ \A j : InTx(j)' <=> InTx(j)
    BY <2>1, SameNeeds, SameJobs
  <2> QED BY <2>5, <2>6, <2>7 DEF KeptInv, Alike
<1>3. CASE job_submit
  BY <1>3 DEF job_submit, KeptInv
<1>4. CASE verify_object \/ path_push \/ path_pop \/ merged
  BY <1>1, <1>4 DEF verify_object, path_push, path_pop, Deeper, merged
<1>5. CASE try_remove_cycle
  <2>1. CASE removed' = {}
    BY <1>1, <1>5, <2>1 DEF try_remove_cycle, Deeper
  <2>2. CASE removed' # {}
    BY <2>2 DEF KeptInv
  <2> QED BY <2>1, <2>2
<1>6. CASE merge_jobs
  BY <1>6, KeptMerge
<1>7. CASE UNCHANGED vars
  <2>1. CASE phase = "submit"
    BY <1>7, <2>1 DEF vars, KeptInv
  <2> QED BY <1>1, <1>7, <2>1 DEF vars
<1> QED BY <1>2, <1>3, <1>4, <1>5, <1>6, <1>7 DEF Next, Step, Finished

(* Each aim is marked, or a job that takes its place. *)
AimsMarked == \A d \in Aims : \E j \in goal_required : Alike(j, d)

(***************************************************************************)
(* While jobs are submitted, those not marked are Loose, and what a job    *)
(* that is not Loose requires is marked.  From then on each aim has its    *)
(* mark, and the jobs are among those reached from the objective.          *)
(***************************************************************************)
AimInv ==
    /\ phase = "submit" =>
          /\ \A j \in Job : InTx(j) => j \in goal_required \/ j \in Loose
          /\ \A r \in reqs : r.required => r.to \in goal_required \/ r.from \in Loose
    /\ phase # "submit" => AimsMarked /\ \A j \in Job : InTx(j) => j \in Closure(FALSE)

(* What is aimed at does not change. *)
LEMMA SameAims ==
    ASSUME UNCHANGED <<edges, objective>>
    PROVE  Loose' = Loose /\ Aims' = Aims
<1>1. Closure(FALSE)' = Closure(FALSE)
  BY SameClosure
<1>2. /\ \A j : Asks(j, FALSE)' = Asks(j, FALSE)
      /\ \A j, types : AsksBy(j, types)' = AsksBy(j, types)
  BY DEF Asks, AsksBy, Asking
<1> DEFINE merely == (UNION {AsksBy(j, DOMAIN Demand \ Requiring) : j \in Closure(FALSE)}) \ {objective}
           Closed(X) == merely \subseteq X /\ \A j \in X : Asks(j, FALSE) \subseteq X \cup {objective}
<1>3. Loose = {j \in Closure(FALSE) : \A X \in SUBSET Closure(FALSE) : Closed(X) => j \in X} \ {objective}
  BY DEF Loose
<1>4. \A X : Closed(X)' <=> Closed(X)
  <2>1. merely' = merely
    <3>1. PICK f : f = [j \in Closure(FALSE) |-> AsksBy(j, DOMAIN Demand \ Requiring)]
      OBVIOUS
    <3>2. merely = (UNION {f[j] : j \in Closure(FALSE)}) \ {objective}
      BY <3>1
    <3>3. \A j \in Closure(FALSE)' : AsksBy(j, DOMAIN Demand \ Requiring)' = f[j]
      BY <1>1, <1>2, <3>1
    <3>4. \A a : a \in merely' <=> a \in (UNION {f[j] : j \in Closure(FALSE)'}) \ {objective'}
      BY <3>3
    <3>5. merely' = (UNION {f[j] : j \in Closure(FALSE)'}) \ {objective'}
      <4> HIDE DEF merely
      <4> QED BY <3>4
    <3> QED BY <1>1, <3>2, <3>5
  <2> HIDE DEF merely
  <2> QED BY <1>2, <2>1
<1>5. Loose' = Loose
  <2>1. (Loose = {j \in Closure(FALSE) : \A X \in SUBSET Closure(FALSE) : Closed(X) => j \in X} \ {objective})'
    BY DEF Loose
  <2> HIDE DEF Closed
  <2> QED BY <1>1, <1>3, <1>4, <2>1
<1> QED BY <1>1, <1>2, <1>5 DEF Aims

(* The objective is marked from the start. *)
LEMMA InitAim == Init => AimInv
<1> SUFFICES ASSUME Init, NEW j \in Job, InTx(j) PROVE j \in goal_required
  BY DEF Init, AimInv
<1>1. jobs[j.object] = IF j.object = objective.object THEN <<objective.type>> ELSE << >>
  BY DEF Init, Job
<1>2. j.object = objective.object /\ j.type = objective.type
  BY <1>1 DEF InTx
<1>3. objective \in Job
  BY InitInv DEF TxInv, TypeOK
<1> QED BY <1>2, <1>3 DEF Init, Job

(* A job is not marked only if it is not required, or required by one that is not marked. *)
LEMMA AimSubmit ==
    ASSUME TxInv, SubmitInv, AimInv, job_submit
    PROVE  AimInv'
<1> DEFINE v == Visiting
           sj == Sought
<1>1. TypeOK /\ LinkInv /\ GoalInv /\ edges \in [Objects -> Seq(Edge)]
  BY DEF TxInv, TypeOK
<1>2. /\ phase = "submit" /\ phase' = "submit" /\ UNCHANGED <<edges, objective>>
      /\ \E goal \in BOOLEAN :
            /\ goal <=> v.from \in goal_required /\ v.required
            /\ goal_required' = IF goal THEN goal_required \cup {sj} ELSE goal_required
            /\ reqs' = reqs \cup {[from |-> v.from, to |-> sj, required |-> v.required,
                                   goal_required |-> goal]}
  <2>1. PICK goal \in BOOLEAN : goal = (v.from \in goal_required /\ v.required)
    OBVIOUS
  <2>2. /\ phase = "submit" /\ phase' = "submit" /\ UNCHANGED <<edges, objective>>
        /\ goal_required' = IF goal THEN goal_required \cup {sj} ELSE goal_required
        /\ reqs' = reqs \cup {[from |-> v.from, to |-> sj, required |-> v.required,
                               goal_required |-> goal]}
    BY <2>1 DEF job_submit, Visiting, Sought
  <2> QED BY <2>1, <2>2
<1>3. /\ InTx(v.from) /\ v.from \in Job /\ sj \in Job
      /\ \A j \in Job : InTx(j)' <=> InTx(j) \/ j = sj
  BY SubmitFacts
<1>4. v \in Range(Visits(v.from)) /\ v.from \in Closure(FALSE)
  <2>1. PICK k \in DOMAIN agenda : agenda[k] = v
    BY SubmitFacts
  <2>2. v.from.object \in Objects
    BY <1>3 DEF Job
  <2>3. v.from \in JobsOf(v.from.object)
    BY <1>1, <1>3, <2>2, JobsOfFacts
  <2> QED BY <1>2, <2>1, <2>2, <2>3 DEF SubmitInv
<1>5. sj = [object |-> v.to, type |-> v.op] /\ sj \in Asks(v.from, FALSE)
  BY <1>1, <1>3, <1>4, VisitsAsk DEF Sought
<1>6. Loose' = Loose
  BY <1>2, SameAims
<1>7. /\ \A j \in Job : InTx(j) => j \in goal_required \/ j \in Loose
      /\ \A r \in reqs : r.required => r.to \in goal_required \/ r.from \in Loose
      /\ objective \in goal_required
  BY <1>1, <1>2 DEF AimInv, GoalInv
<1>8. sj \in goal_required' \/ sj \in Loose
  <2>1. CASE v.from \in Loose
    BY <1>1, <1>2, <1>5, <1>7, <2>1, LooseIsLeast
  <2>2. CASE v.from \in goal_required /\ v.required
    BY <1>2, <2>2
  <2>3. CASE ~v.required
    <3>1. sj \in AsksBy(v.from, DOMAIN Demand \ Requiring)
      BY <1>1, <1>3, <1>4, <1>5, <2>3, AsksSplit
    <3> QED BY <1>1, <1>2, <1>4, <1>7, <3>1, LooseIsLeast
  <2> QED BY <1>3, <1>7, <2>1, <2>2, <2>3
<1>9. \A j \in Job : InTx(j)' => j \in goal_required' \/ j \in Loose
  BY <1>2, <1>3, <1>7, <1>8
<1>10. \A r \in reqs' : r.required => r.to \in goal_required' \/ r.from \in Loose
  <2> SUFFICES ASSUME NEW r \in reqs', r \notin reqs, r.required
               PROVE  r.to \in goal_required' \/ r.from \in Loose
    BY <1>2, <1>7
  <2>1. r.from = v.from /\ r.to = sj /\ v.required
    BY <1>2
  <2> QED BY <1>2, <1>3, <1>7, <2>1
<1> QED BY <1>2, <1>6, <1>9, <1>10 DEF AimInv

(* When nothing is left to visit, all aims have been asked for and marked. *)
LEMMA AimSubmitted ==
    ASSUME TxInv, SubmitInv, AimInv, submitted
    PROVE  AimInv'
<1>1. TypeOK /\ GoalInv /\ NothingLeftOut /\ edges \in [Objects -> Seq(Edge)]
  BY DEF TxInv, TypeOK
<1>2. /\ phase = "submit" /\ agenda = << >> /\ phase' = "verify" /\ removed' = {}
      /\ UNCHANGED <<edges, objective, jobs, goal_required>>
  BY DEF submitted, TxInv, PathInv
<1>3. \A o : JobsOf(o)' = JobsOf(o)
  BY <1>2 DEF JobsOf
<1>4. UNION {JobsOf(o) : o \in Objects} = Closure(FALSE)
  <2>1. (UNION {JobsOf(o) : o \in Objects})' = Closure(FALSE)'
    BY <1>2, SubmittedInv DEF SubmitInv
  <2>2. (UNION {JobsOf(o) : o \in Objects})' = UNION {JobsOf(o) : o \in Objects}
    BY <1>3
  <2> QED BY <1>2, <2>1, <2>2, SameClosure
<1>5. \A j \in Closure(FALSE) : j \in Job /\ \E o \in Objects : j \in JobsOf(o)
  BY <1>1, <1>4, ClosureTypes
<1>6. ASSUME NEW d \in Aims PROVE d \in goal_required
  <2>1. CASE d = objective
    BY <1>1, <1>2, <2>1 DEF GoalInv
  <2>2. CASE d # objective
    <3>1. PICK j \in Closure(FALSE) : j \notin Loose /\ d \in AsksBy(j, Requiring)
      BY <2>2 DEF Aims
    <3>2. PICK o \in Objects : j \in JobsOf(o) /\ j \in Job
      BY <1>5
    <3>3. PICK v \in Range(Visits(j)) : v.required /\ d = [object |-> v.to, type |-> v.op]
      BY <1>1, <3>1, <3>2, AsksSplit
    <3>4. PICK k \in DOMAIN Visits(j) : v = Visits(j)[k]
      BY DEF Range
    <3>5. \A i \in DOMAIN agenda : FALSE
      BY <1>2
    <3>6. PICK r \in reqs : /\ r.from = j
                            /\ r.to = [object |-> v.to, type |-> v.op]
                            /\ r.required = v.required
      BY <1>1, <1>2, <3>2, <3>4, <3>5 DEF NothingLeftOut
    <3> QED BY <1>2, <3>1, <3>3, <3>6 DEF AimInv
  <2> QED BY <2>1, <2>2
<1>7. ASSUME NEW j \in Job, InTx(j) PROVE j \in Closure(FALSE)
  BY <1>1, <1>4, <1>7, JobsOfFacts DEF Job
<1>8. Aims' = Aims /\ Closure(FALSE)' = Closure(FALSE) /\ \A j : InTx(j)' <=> InTx(j)
  BY <1>2, SameAims, SameClosure DEF InTx
<1> QED BY <1>2, <1>6, <1>7, <1>8 DEF AimInv, AimsMarked, Alike

(* Of two jobs that cannot be merged a marked one stays, and merging passes the mark on. *)
LEMMA AimMerge ==
    ASSUME TypeOK, AimsMarked, merge_jobs
    PROVE  AimsMarked'
<1>1. Aims' = Aims
  BY SameAims DEF merge_jobs
<1>2. CASE UNCHANGED goal_required
  BY <1>1, <1>2 DEF AimsMarked, Alike
<1>3. ASSUME NEW o, NEW j1, NEW j2, Merges(o, j1, j2) PROVE AimsMarked'
  <2>1. ASSUME NEW d \in Aims PROVE \E k \in goal_required' : Alike(k, d)
    <3>1. PICK j \in goal_required : Alike(j, d)
      BY DEF AimsMarked
    <3>2. PICK k \in goal_required' : k = IF j = j1 THEN j2 ELSE j
      BY <1>3 DEF Merges
    <3>3. Alike(k, d)
      BY <1>3, <3>1, <3>2 DEF Merges, Alike
    <3> QED BY <3>3
  <2> QED BY <1>1, <2>1 DEF AimsMarked, Alike
<1>4. ASSUME NEW j1, NEW j2, Deletes(j1, j2) PROVE AimsMarked'
  <2>1. to_delete(j1, j2) \notin goal_required
    BY <1>4 DEF Deletes, to_delete
  <2>2. goal_required' = goal_required
    BY <1>4, <2>1 DEF Deletes
  <2> QED BY <1>2, <2>2
<1> QED BY <1>2, <1>3, <1>4, MergeKinds DEF GivesUp

(* Breaking cycles takes no job away that is marked. *)
LEMMA MarkedKept ==
    ASSUME TypeOK, GoalInv, PathInv, try_remove_cycle
    PROVE  goal_required' = goal_required
<1>1. phase = "verify" /\ path # << >>
  BY DEF try_remove_cycle, Deeper
<1>2. CASE \E k \in DOMAIN path : ~object_requires_all_jobs(path[k].object) /\ object_del_jobs(path[k].object)
  <2>1. PICK k \in DOMAIN path :
           ~object_requires_all_jobs(path[k].object) /\ object_del_jobs(path[k].object)
    BY <1>2
  <2>2. \A j \in goal_required : j \notin JobsOf(path[k].object)
    BY <1>1, <2>1 DEF GoalInv, object_requires_all_jobs
  <2>3. UNION {get_del_list(j) : j \in JobsOf(path[k].object)} = JobsOf(path[k].object)
    BY DEF get_del_list
  <2>4. goal_required' = goal_required \ JobsOf(path[k].object)
    BY <2>1, <2>3 DEF object_del_jobs, Destroy
  <2> QED BY <2>2, <2>4
<1>3. CASE UNCHANGED goal_required
  BY <1>3
<1> QED BY <1>2, <1>3 DEF try_remove_cycle

(* No step costs an aim its mark. *)
LEMMA AimStep ==
    ASSUME TxInv, SubmitInv, AimInv, [Next]_vars
    PROVE  AimInv'
<1>1. TypeOK /\ GoalInv /\ PathInv
  BY DEF TxInv
<1>2. CASE job_submit
  BY <1>2, AimSubmit
<1>3. CASE submitted
  BY <1>3, AimSubmitted
<1>4. CASE ~job_submit /\ ~submitted /\ phase # "submit"
  <2>1. phase' # "submit" /\ UNCHANGED <<edges, objective>>
    BY <1>4 DEF Next, Step, Finished, verify_object, path_push, path_pop, Deeper,
                try_remove_cycle, merge_jobs, merged, vars
  <2>2. AimsMarked'
    <3>1. CASE merge_jobs
      BY <1>1, <1>4, <3>1, AimMerge DEF AimInv
    <3>2. CASE UNCHANGED goal_required
      <4>1. Aims' = Aims
        BY <2>1, SameAims
      <4> QED BY <1>4, <3>2, <4>1 DEF AimInv, AimsMarked, Alike
    <3>3. CASE ~merge_jobs
      <4>1. CASE try_remove_cycle
        BY <1>1, <3>2, <4>1, MarkedKept
      <4>2. CASE ~try_remove_cycle
        <5>1. UNCHANGED goal_required
          BY <1>4, <3>3, <4>2 DEF Next, Step, Finished, verify_object, path_push, path_pop, merged, vars
        <5> QED BY <3>2, <5>1
      <4> QED BY <4>1, <4>2
    <3> QED BY <3>1, <3>3
  <2>3. \A j \in Job : InTx(j)' => j \in Closure(FALSE)'
    BY <1>4, <2>1, NoNewJobs, SameClosure DEF AimInv
  <2> QED BY <2>1, <2>2, <2>3 DEF AimInv
<1>5. CASE ~job_submit /\ ~submitted /\ phase = "submit"
  <2>1. UNCHANGED vars
    BY <1>5 DEF Next, Step, Finished, verify_object, path_push, path_pop, Deeper,
                try_remove_cycle, merge_jobs, merged
  <2>2. Loose' = Loose /\ \A j : InTx(j)' <=> InTx(j)
    BY <2>1, SameAims DEF InTx, vars
  <2> QED BY <1>5, <2>1, <2>2 DEF AimInv, vars
<1> QED BY <1>2, <1>3, <1>4, <1>5

(* What submission reached, what gives a rejection its cause, what is kept. *)
NeedsInv == SubmitInv /\ CauseInv /\ KeptInv /\ AimInv

(* It holds when the constructor begins. *)
LEMMA InitNeeds == Init => NeedsInv
BY SubmitInvInit, InitCause, InitAim DEF NeedsInv

(* And in all that it does. *)
LEMMA NeedsStep ==
    ASSUME TxInv, NeedsInv, [Next]_vars
    PROVE  NeedsInv'
<1>1. SubmitInv /\ CauseInv /\ KeptInv /\ AimInv
  BY DEF NeedsInv
<1>2. SubmitInv'
  BY <1>1, SubmitInvStep, SubmittedInv, SubmitInvLater
<1>3. CauseInv'
  BY <1>1, CauseStep
<1>4. KeptInv'
  BY <1>1, KeptStep
<1>5. AimInv'
  BY <1>1, AimStep
<1> QED BY <1>2, <1>3, <1>4, <1>5 DEF NeedsInv

(* A job that is not Loose is an aim. *)
LEMMA FirmAreAims ==
    ASSUME TypeOK
    PROVE  Closure(FALSE) \ Loose \subseteq Aims
<1>1. PICK X : \A j : j \in X <=> j \in Closure(FALSE) /\ (j \in Loose \/ j \in Aims)
  <2>1. \A j : j \in {i \in Closure(FALSE) : i \in Loose \/ i \in Aims}
                  <=> j \in Closure(FALSE) /\ (j \in Loose \/ j \in Aims)
    OBVIOUS
  <2> QED BY <2>1
<1>2. objective \in Closure(FALSE) /\ objective \in Aims
  BY ClosureIsLeast DEF Aims
<1>3. ASSUME NEW j \in X, NEW a \in Asks(j, FALSE) PROVE a \in X
  <2>1. j \in Closure(FALSE) /\ a \in Closure(FALSE)
    BY <1>1, <1>3, ClosureIsLeast
  <2>2. CASE j \in Loose
    BY <1>1, <1>2, <1>3, <2>1, <2>2, LooseIsLeast
  <2>3. CASE j \notin Loose
    <3>1. PICK e \in Range(edges[j.object]), k \in Serving(j) :
             k \in e.type /\ a = [object |-> e.to, type |-> Demand[k].op]
      BY <1>3 DEF Asks, Asking, Serving
    <3>2. CASE k \in Requiring
      <4>1. a \in AsksBy(j, Requiring)
        BY <3>1, <3>2, AsksByFacts
      <4> QED BY <1>1, <2>1, <2>3, <4>1 DEF Aims
    <3>3. CASE k \notin Requiring
      <4>1. a \in AsksBy(j, DOMAIN Demand \ Requiring)
        BY <3>1, <3>3, AsksByFacts DEF Serving
      <4> QED BY <1>1, <1>2, <2>1, <4>1, LooseIsLeast
    <3> QED BY <3>2, <3>3
  <2> QED BY <2>2, <2>3
<1>4. Closure(FALSE) \subseteq X
  BY <1>1, <1>2, <1>3, ClosureIsLeast
<1> QED BY <1>1, <1>4

(* The job that takes the place of an aim is the only one of its object. *)
LEMMA AimsGiven ==
    ASSUME TxInv, AimInv
    PROVE  AimsMet
<1> SUFFICES ASSUME phase = "done", NEW d \in Aims
             PROVE  \E type \in JobTypes :
                       /\ jobs[d.object] = <<type>>
                       /\ [object |-> d.object, type |-> type] \in Closure(FALSE)
                       /\ type = "stop" <=> d.type = "stop"
  BY DEF AimsMet
<1>1. TypeOK /\ LinkInv /\ MergeInv
  BY DEF TxInv
<1>2. PICK j \in goal_required : Alike(j, d)
  BY DEF AimInv, AimsMarked
<1>3. j \in Job /\ InTx(j) /\ j.type \in JobTypes
  BY <1>1, <1>2 DEF TypeOK, LinkInv, ReqsConnectJobs, Job
<1>4. PICK o \in Objects : o = j.object /\ o = d.object
  BY <1>2, <1>3 DEF Job, Alike
<1>5. jobs[o] \in Seq(JobTypes) /\ Len(jobs[o]) <= 1
  BY <1>1, <1>4 DEF TypeOK, MergeInv
<1>6. PICK k \in DOMAIN jobs[o] : jobs[o][k] = j.type
  BY <1>3, <1>4 DEF InTx
<1>7. Len(jobs[o]) = 1 /\ k = 1
  <2>1. PICK l \in Nat : l = Len(jobs[o])
    BY <1>5, LenProperties
  <2>2. k \in 1 .. l /\ l <= 1
    BY <1>5, <1>6, <2>1, LenProperties
  <2>3. l = 1 /\ k = 1
    BY <2>2
  <2> QED BY <2>1, <2>3
<1>8. jobs[o] = <<j.type>>
  BY <1>3, <1>5, <1>6, <1>7, SeqEqual
<1>9. [object |-> o, type |-> j.type] \in Closure(FALSE)
  <2>1. j = [object |-> o, type |-> j.type]
    BY <1>3, <1>4 DEF Job
  <2> QED BY <1>3, <2>1 DEF AimInv
<1> QED BY <1>2, <1>3, <1>4, <1>8, <1>9 DEF Alike

-----------------------------------------------------------------------------
(* Theorems                                                                *)

(***************************************************************************)
(* A transaction is rejected only for what its goal needs: jobs that the   *)
(* ordering really closes into a cycle when try_remove_cycle() gives up,   *)
(* two jobs of one object that merge_jobs() cannot merge and may not drop. *)
(***************************************************************************)
THEOREM RejectionHasCause == Spec => []CauseInv
<1>1. NeedsInv => CauseInv
  BY DEF NeedsInv
<1> QED BY <1>1, TxInvariant, InitNeeds, NeedsStep, PTL DEF Spec

(***************************************************************************)
(* As long as breaking cycles took no job away, every object that the      *)
(* recursion of job_submit() reached still has a job, and only a stop job  *)
(* that the goal needs takes the place of one that is not a stop job.      *)
(***************************************************************************)
THEOREM NothingNeededLost == Spec => []KeptInv
<1>1. NeedsInv => KeptInv
  BY DEF NeedsInv
<1> QED BY <1>1, TxInvariant, InitNeeds, NeedsStep, PTL DEF Spec

(***************************************************************************)
(* Whatever is merged, deleted to break cycles or given up in favour of    *)
(* other jobs, the objective and all that the jobs that are not Loose      *)
(* require are left with the one job of their object: the one aimed at,    *)
(* unless edges also demand a job of another type of that object.          *)
(***************************************************************************)
THEOREM AimsAreMet == Spec => []AimsMet
<1>1. TxInv /\ NeedsInv => AimsMet
  BY AimsGiven DEF NeedsInv
<1> QED BY <1>1, TxInvariant, InitNeeds, NeedsStep, PTL DEF Spec

(* The submission, and the search for cycles until it deletes a job. *)
THEOREM SubmitInvariant == Spec => []SubmitInv
<1>1. NeedsInv => SubmitInv
  BY DEF NeedsInv
<1> QED BY <1>1, TxInvariant, InitNeeds, NeedsStep, PTL DEF Spec

(***************************************************************************)
(* The recursion of job_submit() makes the jobs that are reached from the  *)
(* objective, no more and no less, whatever cycles the edges form.         *)
(***************************************************************************)
THEOREM SubmissionExact == Spec => []SubmissionIsClosure
<1>1. SubmitInv => SubmissionIsClosure
  BY DEF SubmitInv, SubmissionIsClosure, Fresh
<1> QED BY SubmitInvariant, <1>1, PTL
=============================================================================
