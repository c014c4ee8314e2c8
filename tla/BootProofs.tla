----------------------------- MODULE BootProofs -----------------------------
(***************************************************************************)
(* Proofs about Boot: what the parts promise, each proved of its own       *)
(* module, is put together along main().  The proofs of the parts are      *)
(* about instances of the same modules with the same variables.            *)
(***************************************************************************)
EXTENDS Boot, ListsProofs

GP == INSTANCE ObjectGraphProofs

TP == INSTANCE TxGenProofs WITH
         Objects <- Names, Order <- JobsOrder,
         EdgeLists <- [Names -> Seq([to : Names, type : SUBSET T!EdgeKinds])],
         Goals <- {[object |-> DefaultName, type |-> "start"]},
         edges <- graph

JP == INSTANCE JobSchedRefinesProofs WITH
         Objects <- Names, Order <- JobsOrder, OrderGraphs <- {NoOrder},
         TxSpecs <- [Names -> J!JobTypes \cup {"none"}],
         MaxTx <- 1, Answers <- {"within"}, Results <- {"success"},
         edges <- after, edges_to <- wakes

-----------------------------------------------------------------------------
(* Loading                                                                 *)

(* The graph starts as ObjectGraph has it. *)
LEMMA SameInit == G!Init => GP!Init
BY DEF GP!Init, G!Init

(* Looking for a unit is the same in both instances. *)
LEMMA SameLoad == \A n : G!object_load(n) <=> GP!object_load(n)
<1>1. \A n : G!get_symlinks(n) = GP!get_symlinks(n)
  BY DEF G!get_symlinks, GP!get_symlinks, G!MaxDepth, GP!MaxDepth, G!Min, GP!Min
<1>2. \A n, unit : G!EdgesOf(n, unit) = GP!EdgesOf(n, unit)
  BY ZenonT(30)
  DEF G!EdgesOf, GP!EdgesOf, G!Filter, GP!Filter, G!FromDirectives, GP!FromDirectives,
      G!ToDirectives, GP!ToDirectives, G!edges_from, GP!edges_from, G!edges_to, GP!edges_to,
      G!Naming, GP!Naming, G!depTypes, GP!depTypes, G!reverseDep, GP!reverseDep,
      G!dependencyToEdgeTypes, GP!dependencyToEdgeTypes
<1> QED
  BY <1>1, <1>2
  DEF G!object_load, GP!object_load, G!NewObject, GP!NewObject, G!Found, GP!Found,
      G!Fragment, GP!Fragment

(* So is each step of loading. *)
LEMMA SameStep == G!Step => GP!Step
<1>1. G!bind_alias => GP!bind_alias
  BY DEF G!bind_alias, GP!bind_alias, G!object_remap_unowned_edges,
         GP!object_remap_unowned_edges, G!Bind, GP!Bind, G!Filter, GP!Filter, G!Range, GP!Range
<1>2. G!edge_add => GP!edge_add
  BY DEF G!edge_add, GP!edge_add, G!object_get, GP!object_get, G!Unknown, GP!Unknown,
         G!Filter, GP!Filter, G!Range, GP!Range, G!NewObject, GP!NewObject
<1>3. G!main_object_get => GP!main_object_get
  BY DEF G!main_object_get, GP!main_object_get, G!object_get, GP!object_get, G!Idle, GP!Idle,
         G!Unknown, GP!Unknown, G!Filter, GP!Filter, G!Range, GP!Range, G!NewObject, GP!NewObject
<1> QED
  BY SameLoad, <1>1, <1>2, <1>3
  DEF G!Step, GP!Step, G!script_load, GP!script_load, G!dispatch_load_queue,
      GP!dispatch_load_queue, G!Idle, GP!Idle

(***************************************************************************)
(* The daemon implements ObjectGraph: whatever else main() does, it does   *)
(* to the object graph what loading does there, or nothing.                *)
(***************************************************************************)
THEOREM LoadsAsSpecified == Spec => GP!Spec
<1>1. Init => GP!Init
  BY SameInit DEF Init
<1>2. [Next]_vars => [GP!Next]_(GP!vars)
  BY SameStep
  DEF Next, Step, Over, load, new_transaction, generate, enqueue, run, exit, vars, load_vars,
      GP!Next, GP!vars
<1> QED BY <1>1, <1>2, PTL DEF Spec, GP!Spec

(* The assumptions of ObjectGraph are among those of Boot. *)
LEMMA GraphConstants == GP!ObjectGraphAssumption
BY BootAssumption DEF GP!ObjectGraphAssumption, GP!Unit, G!Unit, GP!depTypes, G!depTypes, G!Range, GP!Range

(* So the graph is as the proofs about ObjectGraph have it. *)
LEMMA GraphSound == Spec => []GP!GraphInv
<1>1. GP!Spec => []GP!GraphInv
  BY GraphConstants, GP!GraphInvariant
<1> QED BY <1>1, LoadsAsSpecified, PTL

(***************************************************************************)
(* There are no links, and the graph is not touched once main() has got    *)
(* the object to start, with no call of object_load() under way.           *)
(***************************************************************************)
LoadedInv ==
    /\ files \in FileSystems
    /\ ready => script = << >> /\ to_bind = << >> /\ to_add = << >>

(* No step of the daemon changes that. *)
LEMMA LoadedStep ==
    ASSUME LoadedInv, [Next]_vars
    PROVE  LoadedInv' /\ (ready => UNCHANGED load_vars)
<1>1. CASE load
  <2>1. G!Step /\ UNCHANGED files
    BY <1>1 DEF load, G!Step, G!script_load, G!dispatch_load_queue, G!bind_alias, G!edge_add,
                G!main_object_get
  <2>2. ~ready
    BY <2>1 DEF LoadedInv, G!Step, G!script_load, G!dispatch_load_queue, G!bind_alias, G!edge_add,
                G!main_object_get
  <2>3. ready' => G!main_object_get
    BY <2>1, <2>2 DEF G!Step, G!script_load, G!dispatch_load_queue, G!bind_alias, G!edge_add
  <2> QED BY <2>1, <2>2, <2>3 DEF LoadedInv, G!main_object_get, G!Idle
<1>2. CASE UNCHANGED load_vars
  BY <1>2 DEF LoadedInv, load_vars
<1> QED BY <1>1, <1>2 DEF Next, Step, Over, new_transaction, generate, enqueue, run, exit, vars

(* A name leads nowhere but to its own file. *)
LEMMA NoLinks ==
    ASSUME LoadedInv, NEW n \in Names
    PROVE  /\ files[n].kind # "link"
           /\ GP!Range(GP!get_symlinks(n)) = {n}
           /\ GP!Fragment(n) = files[n]
<1>1. files \in [Names -> GP!Unit] /\ \A m \in Names : files[m].kind # "link"
  BY BootAssumption, GraphConstants DEF LoadedInv, GP!ObjectGraphAssumption
<1>2. PICK W, m : GP!Walks(W, m, n) /\ GP!get_symlinks(n) = [d \in 1 .. m |-> W[d]]
  BY <1>1, GP!SymlinksWalk, GraphConstants
<1>3. m = 1 /\ W[1] = n
  <2>1. m \in 1 .. 9 /\ W[1] = n /\ \A d \in 1 .. m - 1 : files[W[d]].kind = "link"
    BY <1>2 DEF GP!Walks, GP!MaxDepth
  <2>2. m > 1 => 1 \in 1 .. m - 1
    BY <2>1
  <2> QED BY <1>1, <2>1, <2>2
<1>4. GP!get_symlinks(n) = [d \in 1 .. 1 |-> n]
  BY <1>2, <1>3
<1>5. GP!Range(GP!get_symlinks(n)) = {n}
  BY <1>4 DEF GP!Range
<1>6. GP!End(n) \in {n} /\ GP!Fragment(n) = files[GP!End(n)]
  BY <1>1, <1>5, GP!SymlinksFacts, GraphConstants
<1> QED BY <1>1, <1>5, <1>6

(* Then an object goes by one name, and by no other object's. *)
LEMMA OneName ==
    ASSUME GP!GraphInv, LoadedInv
    PROVE  /\ GP!OneObjectPerUnit
           /\ \A i \in DOMAIN objects : objects[i].aliases = {objects[i].main_alias}
           /\ \A n \in DOMAIN m_aliases : n \in Names /\ objects[m_aliases[n]].main_alias = n
<1>1. /\ GP!NamesInv
      /\ \A i \in DOMAIN objects : objects[i].main_alias \in Names
      /\ DOMAIN m_aliases \subseteq Names
      /\ \A n \in DOMAIN m_aliases : m_aliases[n] \in DOMAIN objects
  BY GP!GraphTypes, GraphConstants DEF GP!GraphInv
<1>2. ASSUME NEW i \in DOMAIN objects
      PROVE  objects[i].aliases = {objects[i].main_alias}
  <2>1. PICK main \in Names : main = objects[i].main_alias
    BY <1>1
  <2>2. GP!Range(GP!get_symlinks(main)) = {main}
    BY NoLinks
  <2>3. main \in objects[i].aliases
    BY <1>1, <2>1 DEF GP!NamesInv
  <2>4. objects[i].aliases \subseteq {main}
    BY <1>1, <2>1, <2>2 DEF GP!NamesInv
  <2> QED BY <2>1, <2>3, <2>4
<1>3. ASSUME NEW n \in DOMAIN m_aliases
      PROVE  n \in Names /\ objects[m_aliases[n]].main_alias = n
  <2>1. n \in objects[m_aliases[n]].aliases
    BY <1>1 DEF GP!NamesInv
  <2> QED BY <1>1, <1>2, <2>1
<1>4. GP!OneObjectPerUnit
  <2> SUFFICES ASSUME NEW o \in GP!Live, NEW n \in objects[o].aliases PROVE m_aliases[n] = o
    BY DEF GP!OneObjectPerUnit
  <2>1. PICK m \in DOMAIN m_aliases : m_aliases[m] = o
    BY DEF GP!Live, GP!Range
  <2> QED BY <1>1, <1>2, <1>3, <2>1
<1> QED BY <1>2, <1>3, <1>4

(* An edge in one list of an object that a name leads to is in the other     *)
(* list of the object at its other end.                                      *)
LEMMA EdgesMirrored ==
    ASSUME GP!GraphInv, LoadedInv, ready, NEW n \in DOMAIN m_aliases,
           NEW side \in GP!Sides, NEW e \in GP!Held(m_aliases[n], side), NEW other \in GP!Sides
    PROVE  /\ GP!AtEnd(e, side) = n
           /\ GP!AtEnd(e, other) \in DOMAIN m_aliases
           /\ e \in GP!Held(m_aliases[GP!AtEnd(e, other)], other)
           /\ e.from \in DOMAIN m_aliases /\ e.to \in DOMAIN m_aliases
<1>1. GP!Idle /\ GP!OneObjectPerUnit /\ GP!EdgeInv /\ DOMAIN m_aliases \subseteq Names
  BY OneName DEF LoadedInv, GP!Idle, GP!GraphInv
<1>2. PICK i \in GP!Live : i = m_aliases[n] /\ i \in DOMAIN objects
  BY GP!GraphTypes, GraphConstants DEF GP!GraphInv, GP!Live, GP!Range
<1>3. GP!Leads(GP!AtEnd(e, side), i)
  BY <1>1, <1>2, GP!EndsMeet, GraphConstants
<1>4. GP!AtEnd(e, side) = n
  BY <1>2, <1>3, OneName DEF GP!Leads
<1>5. e \in GP!Gives(e.owner) /\ GP!LeadsToLoaded(e.owner)
  BY <1>1, <1>2 DEF GP!EdgeInv, GP!Sound
<1>6. PICK k \in GP!Live : k = m_aliases[e.owner] /\ GP!IsLoaded(k)
                           /\ objects[k].main_alias = e.owner
  BY <1>5, OneName DEF GP!LeadsToLoaded, GP!Live, GP!Range
<1>7. ASSUME NEW x \in GP!Sides
      PROVE  /\ GP!AtEnd(e, x) \in DOMAIN m_aliases
             /\ e \in GP!Held(m_aliases[GP!AtEnd(e, x)], x)
  <2>1. e \in GP!Gives(objects[k].main_alias)
    BY <1>5, <1>6
  <2>2. PICK j \in DOMAIN objects : GP!Leads(GP!AtEnd(e, x), j) /\ e \in GP!Held(j, x)
    BY <1>1, <1>6, <2>1, GP!EdgesReach, GraphConstants
  <2> QED BY <2>2 DEF GP!Leads
<1>8. e.from \in DOMAIN m_aliases /\ e.to \in DOMAIN m_aliases
  BY <1>7 DEF GP!Sides, GP!AtEnd
<1> QED BY <1>4, <1>7, <1>8

(* What the scheduler gets of an edge list: the kAfter edges. *)
LEMMA OrderOfEdges ==
    ASSUME NEW S, NEW es \in Seq(S)
    PROVE  /\ OrderEdges(es) \in Seq(S)
           /\ Range(OrderEdges(es)) = {e \in Range(es) : "After" \in e.type}
<1> DEFINE ordered == {e \in Range(es) : "After" \in e.type}
<1>1. OrderEdges(es) = Filter(es, ordered)
  BY DEF OrderEdges
<1> HIDE DEF ordered
<1>2. PICK c : c = Filter(es, ordered)
  OBVIOUS
<1>3. /\ c \in Seq(S)
      /\ \A k \in DOMAIN c : c[k] \in ordered /\ \E i \in DOMAIN es : es[i] = c[k]
      /\ \A i \in DOMAIN es : es[i] \in ordered => \E k \in DOMAIN c : c[k] = es[i]
  BY <1>2, FilterFacts
<1>4. Range(c) = {x \in Range(es) : x \in ordered}
  BY <1>3 DEF Range
<1>5. {x \in Range(es) : x \in ordered} = {e \in Range(es) : "After" \in e.type}
  BY DEF ordered
<1> QED BY <1>1, <1>2, <1>3, <1>4, <1>5

(* The two sides of the order that tx_enqueue() finds agree. *)
LEMMA OrderAgrees ==
    ASSUME GP!GraphInv, LoadedInv, ready, NEW n \in Names, NEW m \in Names
    PROVE  m \in OrderFrom[n] <=> n \in Range(OrderTo[m])
<1>1. \A i \in DOMAIN objects : objects[i].edges \in Seq(GP!Edge) /\ objects[i].edges_to \in Seq(GP!Edge)
  BY GP!ObjectFacts, GraphConstants DEF GP!GraphInv, GP!TypeOK
<1>2. \A x \in DOMAIN m_aliases : m_aliases[x] \in DOMAIN objects
  BY GP!GraphTypes, GraphConstants DEF GP!GraphInv
<1>3. EdgesFrom(n) \in Seq(GP!Edge) /\ EdgesTo(m) \in Seq(GP!Edge)
  BY <1>1, <1>2 DEF EdgesFrom, EdgesTo
<1> DEFINE from == {e \in Range(EdgesFrom(n)) : "After" \in e.type}
           to == {e \in Range(EdgesTo(m)) : "After" \in e.type}
<1>4. OrderFrom[n] = {e.to : e \in from}
  BY <1>3, OrderOfEdges DEF OrderFrom
<1>5. Range(OrderTo[m]) = {e.from : e \in to}
  <2>1. PICK es : es = OrderEdges(EdgesTo(m))
    OBVIOUS
  <2>2. Range(es) = to
    BY <1>3, <2>1, OrderOfEdges
  <2>3. OrderTo[m] = [k \in DOMAIN es |-> es[k].from]
    BY <2>1 DEF OrderTo
  <2> HIDE DEF to
  <2> QED BY <2>2, <2>3 DEF Range
<1>6. ASSUME NEW e \in from, e.to = m PROVE \E d \in to : d.from = n
  <2>1. n \in DOMAIN m_aliases /\ e \in GP!Held(m_aliases[n], "from")
    BY <1>6 DEF EdgesFrom, GP!Held, Range, GP!Range
  <2>2. e.from = n /\ m \in DOMAIN m_aliases /\ e \in GP!Held(m_aliases[m], "to")
    BY <1>6, <2>1, EdgesMirrored DEF GP!Sides, GP!AtEnd
  <2>3. e \in to
    BY <2>2 DEF EdgesTo, GP!Held, Range, GP!Range
  <2> QED BY <2>2, <2>3
<1>7. ASSUME NEW e \in to, e.from = n PROVE \E d \in from : d.to = m
  <2>1. m \in DOMAIN m_aliases /\ e \in GP!Held(m_aliases[m], "to")
    BY <1>7 DEF EdgesTo, GP!Held, Range, GP!Range
  <2>2. e.to = m /\ n \in DOMAIN m_aliases /\ e \in GP!Held(m_aliases[n], "from")
    BY <1>7, <2>1, EdgesMirrored DEF GP!Sides, GP!AtEnd
  <2>3. e \in from
    BY <2>2 DEF EdgesFrom, GP!Held, Range, GP!Range
  <2> QED BY <2>2, <2>3
<1> HIDE DEF from, to
<1> QED BY <1>4, <1>5, <1>6, <1>7

-----------------------------------------------------------------------------
(* The order                                                               *)

(* The scheduler has no order before there is a transaction, and then the one *)
(* of the graph.                                                              *)
OrderInv ==
    IF phase = "idle" THEN after = NoOrder.edges /\ wakes = NoOrder.edges_to
    ELSE ready /\ after = OrderFrom /\ wakes = OrderTo

(* What new_transaction sets is not touched by what comes later. *)
LEMMA OrderStep ==
    ASSUME LoadedInv, OrderInv, [Next]_vars
    PROVE  OrderInv'
<1>1. CASE load
  <2>1. ~ready /\ UNCHANGED <<phase, after, wakes>>
    BY <1>1 DEF load, tx_vars, job_vars, LoadedInv, G!Step, G!script_load, G!dispatch_load_queue,
                G!bind_alias, G!edge_add, G!main_object_get
  <2> QED BY <2>1 DEF OrderInv, NoOrder
<1>2. CASE new_transaction
  <2>1. /\ ready' /\ phase' # "idle" /\ after' = OrderFrom /\ wakes' = OrderTo
        /\ UNCHANGED load_vars
    BY <1>2 DEF new_transaction, load_vars
  <2>2. OrderFrom' = OrderFrom /\ OrderTo' = OrderTo
    BY <2>1 DEF OrderFrom, OrderTo, EdgesFrom, EdgesTo, load_vars
  <2> QED BY <2>1, <2>2 DEF OrderInv
<1>3. CASE generate \/ enqueue \/ run \/ exit \/ UNCHANGED vars
  <2>1. UNCHANGED <<after, wakes>> /\ UNCHANGED load_vars
    BY <1>3
    DEF generate, enqueue, run, exit, vars, job_vars, tx_vars, J!tx_enqueue, J!tx_enqueue_leaves,
        J!start_others, J!start_answers
  <2>2. OrderFrom' = OrderFrom /\ OrderTo' = OrderTo
    BY <2>1 DEF OrderFrom, OrderTo, EdgesFrom, EdgesTo, load_vars
  <2>3. phase' = "idle" <=> phase = "idle"
    BY <1>3
    DEF generate, enqueue, run, exit, vars, job_vars, tx_vars, T!Step, T!job_submit, T!submitted,
        T!verify_object, T!path_push, T!path_pop, T!Deeper, T!try_remove_cycle, T!merge_jobs, T!merged
  <2> QED BY <2>1, <2>2, <2>3 DEF OrderInv, NoOrder, load_vars
<1> QED BY <1>1, <1>2, <1>3 DEF Next, Step, Over

(* Loading and the order are as they should be in every state. *)
LEMMA LoadInvariant == Spec => [](GP!GraphInv /\ LoadedInv /\ OrderInv)
<1>1. Init => LoadedInv /\ OrderInv
  BY DEF Init, G!Init, J!Init, LoadedInv, OrderInv
<1>2. LoadedInv /\ OrderInv /\ [Next]_vars => LoadedInv' /\ OrderInv'
  BY LoadedStep, OrderStep
<1> QED BY <1>1, <1>2, GraphSound, PTL DEF Spec

(***************************************************************************)
(* The graph that loading leaves to the scheduler is as the proofs about   *)
(* JobSched assume, GraphAssumption: whatever was mentioned before it was  *)
(* loaded, or was loaded twice, edges and edges_to agree on the order.     *)
(***************************************************************************)
THEOREM LoadingFitsScheduler == Spec => []GraphFitsScheduler
<1>1. GP!GraphInv /\ LoadedInv /\ OrderInv => GraphFitsScheduler
  <2> SUFFICES ASSUME GP!GraphInv, LoadedInv, OrderInv, NEW n \in Names, NEW m \in Names
               PROVE  m \in after[n] <=> n \in Range(wakes[m])
    BY DEF GraphFitsScheduler
  <2>1. CASE phase = "idle"
    BY <2>1 DEF OrderInv, NoOrder, Range
  <2>2. CASE phase # "idle"
    BY <2>2, OrderAgrees DEF OrderInv
  <2> QED BY <2>1, <2>2
<1> QED BY <1>1, LoadInvariant, PTL

-----------------------------------------------------------------------------
(* The transaction                                                         *)

(* Before there is a transaction its parts are as main() finds them. *)
NoTransaction ==
    /\ jobs = [n \in Names |-> << >>]
    /\ goal_required = {} /\ reqs = {} /\ agenda = << >> /\ cursor = 1 /\ path = << >>
    /\ removed = {}

(* Then it is as the proofs about TxGen have it. *)
MakingInv ==
    /\ objective = [object |-> DefaultName, type |-> "start"]
    /\ IF phase = "idle" THEN NoTransaction ELSE TP!TxInv

(* The assumptions of TxGen hold. *)
LEMMA TxConstants == TP!TxGenAssumption
BY BootAssumption
DEF TP!TxGenAssumption, TP!Job, TP!JobTypes, TP!Edge, TP!EdgeKinds, T!EdgeKinds

(* What the edges ask for is the same in both instances. *)
LEMMA SameVisits == \A j : T!Visits(j) = TP!Visits(j)
<1>1. \A j, type, op, required : T!Pass(j, type, op, required) = TP!Pass(j, type, op, required)
  BY DEF T!Pass, TP!Pass, T!Filter, TP!Filter, T!Edge, TP!Edge, T!EdgeKinds, TP!EdgeKinds
<1> QED BY <1>1 DEF T!Visits, TP!Visits

(* And also once the graph has been looked at. *)
LEMMA SameVisitsNext == T!Visits(objective)' = TP!Visits(objective)'
<1>1. \A type, op, required : T!Pass(objective, type, op, required)' = TP!Pass(objective, type, op, required)'
  BY DEF T!Pass, TP!Pass, T!Filter, TP!Filter, T!Edge, TP!Edge, T!EdgeKinds, TP!EdgeKinds
<1> QED BY <1>1 DEF T!Visits, TP!Visits

(* So is each step of making a transaction. *)
LEMMA SameMaking == T!Step => TP!Step
<1>1. T!job_submit => TP!job_submit
  BY SameVisits DEF T!job_submit, TP!job_submit, T!InTx, TP!InTx
<1>2. \A n : T!After(n) = TP!After(n)
  BY DEF T!After, TP!After, T!Filter, TP!Filter, T!HasJobs, TP!HasJobs, T!Edge, TP!Edge,
         T!EdgeKinds, TP!EdgeKinds
<1>3. T!Deeper => TP!Deeper
  BY <1>2 DEF T!Deeper, TP!Deeper, T!Top, TP!Top
<1>4. T!path_push => TP!path_push
  BY <1>2, <1>3 DEF T!path_push, TP!path_push, T!Top, TP!Top, T!OnPath, TP!OnPath
<1>5. T!path_pop => TP!path_pop
  BY <1>2 DEF T!path_pop, TP!path_pop, T!Top, TP!Top
<1>6. \A gone : T!Without(gone) = TP!Without(gone) /\ (T!Destroy(gone) => TP!Destroy(gone))
  BY DEF T!Without, TP!Without, T!Filter, TP!Filter, T!JobTypes, TP!JobTypes, T!Destroy, TP!Destroy
<1>7. \A n : /\ T!object_requires_all_jobs(n) <=> TP!object_requires_all_jobs(n)
             /\ T!object_del_jobs(n) => TP!object_del_jobs(n)
  BY <1>6
  DEF T!object_requires_all_jobs, TP!object_requires_all_jobs, T!object_del_jobs,
      TP!object_del_jobs, T!get_del_list, TP!get_del_list, T!JobsOf, TP!JobsOf
<1>8. T!try_remove_cycle => TP!try_remove_cycle
  BY <1>2, <1>3, <1>7
  DEF T!try_remove_cycle, TP!try_remove_cycle, T!Top, TP!Top, T!OnPath, TP!OnPath
<1>9. \A a, b : T!merged_job_type(a, b) = TP!merged_job_type(a, b)
  BY DEF T!merged_job_type, TP!merged_job_type, T!Rank, TP!Rank, T!JobTypes, TP!JobTypes,
         T!merge_matrix, TP!merge_matrix
<1>10. T!merge_jobs => TP!merge_jobs
  BY <1>6, <1>9
  DEF T!merge_jobs, TP!merge_jobs, T!merge_job_into, TP!merge_job_into, T!to_delete, TP!to_delete,
      T!get_del_list, TP!get_del_list
<1> QED BY <1>1, <1>4, <1>5, <1>8, <1>10
        DEF T!Step, TP!Step, T!submitted, TP!submitted, T!verify_object, TP!verify_object,
            T!merged, TP!merged, T!HasJobs, TP!HasJobs

(* What tx_enqueue() makes of the graph are edge lists. *)
LEMMA EdgesForTx ==
    ASSUME GP!GraphInv
    PROVE  TxEdges \in [Names -> Seq([to : Names, type : SUBSET T!EdgeKinds])]
<1>1. \A i \in DOMAIN objects : objects[i].edges \in Seq(GP!Edge)
  BY GP!ObjectFacts, GraphConstants DEF GP!GraphInv, GP!TypeOK
<1>2. \A n \in DOMAIN m_aliases : m_aliases[n] \in DOMAIN objects
  BY GP!GraphTypes, GraphConstants DEF GP!GraphInv
<1>3. ASSUME NEW n \in Names
      PROVE  TxEdges[n] \in Seq([to : Names, type : SUBSET T!EdgeKinds])
  <2>0. EdgesFrom(n) \in Seq(GP!Edge)
    BY <1>1, <1>2 DEF EdgesFrom
  <2>1. PICK es \in Seq(GP!Edge) : es = EdgesFrom(n)
    BY <2>0
  <2>2. DOMAIN es = 1 .. Len(es) /\ Len(es) \in Nat /\ \A k \in 1 .. Len(es) : es[k] \in GP!Edge
    BY LenProperties, ElementOfSeq
  <2>3. \A k \in 1 .. Len(es) : es[k].to \in Names
    BY <2>2 DEF GP!Edge
  <2>4. TxEdges[n] = [k \in 1 .. Len(es) |-> [to |-> es[k].to, type |-> es[k].type \cap T!EdgeKinds]]
    BY <2>1, <2>2 DEF TxEdges
  <2>5. \A k \in 1 .. Len(es) : [to |-> es[k].to, type |-> es[k].type \cap T!EdgeKinds]
                                   \in [to : Names, type : SUBSET T!EdgeKinds]
    BY <2>3
  <2> QED BY <2>2, <2>4, <2>5, IsASeq
<1> QED BY <1>3 DEF TxEdges

(* What tx_enqueue() begins with is a transaction as TxGen begins with it. *)
LEMMA MakingBegins ==
    ASSUME GP!GraphInv, MakingInv, new_transaction
    PROVE  TP!Init'
<1>1. graph' \in [Names -> Seq([to : Names, type : SUBSET T!EdgeKinds])]
  BY EdgesForTx DEF new_transaction
<1>2. /\ objective' = objective
      /\ objective = [object |-> DefaultName, type |-> "start"]
      /\ NoTransaction
  BY DEF new_transaction, MakingInv
<1>3. jobs' = [n \in Names |-> IF n = objective'.object THEN <<objective'.type>> ELSE << >>]
  <2>1. jobs' = [jobs EXCEPT ![DefaultName] = <<"start">>]
    BY <1>2 DEF new_transaction
  <2>2. jobs = [n \in Names |-> << >>] /\ DefaultName \in Names
    BY <1>2, BootAssumption DEF NoTransaction
  <2> QED BY <1>2, <2>1, <2>2
<1>4. T!Visits(objective)' = TP!Visits(objective)'
  BY SameVisitsNext
<1>5. agenda' = TP!Visits(objective)'
  BY <1>4 DEF new_transaction
<1> QED BY <1>1, <1>2, <1>3, <1>5 DEF new_transaction, NoTransaction, TP!Init

(* And the invariant of TxGen holds. *)
LEMMA MakingBegun == TP!Init' => TP!TxInv'
<1>1. TP!Init => TP!TxInv
  BY TxConstants, TP!InitInv
<1> QED BY <1>1, PTL

(* It holds of each transaction that is being made, and of those that are made. *)
LEMMA MakingStep ==
    ASSUME GP!GraphInv, MakingInv, [Next]_vars
    PROVE  /\ MakingInv'
           /\ phase # "idle" => [TP!Next]_(TP!vars) /\ phase' # "idle"
<1>1. CASE new_transaction
  <2>1. phase = "idle" /\ phase' # "idle" /\ objective' = objective
    BY <1>1 DEF new_transaction
  <2> QED BY <1>1, <2>1, MakingBegins, MakingBegun DEF MakingInv
<1>2. CASE generate
  <2>1. phase # "idle" /\ phase' # "idle" /\ objective' = objective
    BY <1>2
    DEF generate, T!Step, T!job_submit, T!submitted, T!verify_object, T!path_push, T!path_pop,
        T!Deeper, T!try_remove_cycle, T!merge_jobs, T!merged
  <2>2. TP!Next
    BY <1>2, SameMaking DEF generate, TP!Next
  <2>3. TP!TxInv'
    BY <2>1, <2>2, TxConstants, TP!EveryStep DEF MakingInv
  <2> QED BY <2>1, <2>2, <2>3 DEF MakingInv
<1>3. CASE UNCHANGED tx_vars
  <2>1. UNCHANGED TP!vars /\ UNCHANGED <<objective, phase>>
    BY <1>3 DEF tx_vars, TP!vars
  <2>2. CASE phase = "idle"
    BY <1>3, <2>1, <2>2 DEF MakingInv, NoTransaction, tx_vars
  <2>3. CASE phase # "idle"
    BY <2>1, <2>3, TxConstants, TP!EveryStep DEF MakingInv
  <2> QED BY <2>1, <2>2, <2>3
<1> QED BY <1>1, <1>2, <1>3 DEF Next, Step, Over, load, enqueue, run, exit, vars

(* When the graph is loaded the unit to start has an object.  If nobody has  *)
(* mentioned that unit before main() does, no edge leads on from it.         *)
ReadyInv ==
    ready =>
        /\ DefaultName \in DOMAIN m_aliases
        /\ \/ m_loadqueue = << >>
           \/ m_loadqueue = <<DefaultName>> /\ GP!Held(m_aliases[DefaultName], "from") = {}

(* main() asks for that object when there is nothing left to load. *)
LEMMA ReadyStep ==
    ASSUME GP!GraphInv, LoadedInv, ReadyInv, [Next]_vars
    PROVE  ReadyInv'
<1>1. CASE ready
  <2>1. UNCHANGED load_vars
    BY <1>1, LoadedStep
  <2> QED BY <1>1, <2>1 DEF ReadyInv, load_vars, GP!Held, GP!Range
<1>2. CASE ~ready /\ ready'
  <2>1. G!main_object_get
    BY <1>2
    DEF Next, Step, Over, load, new_transaction, generate, enqueue, run, exit, vars, load_vars,
        G!Step, G!script_load, G!dispatch_load_queue, G!bind_alias, G!edge_add
  <2>2. GP!main_object_get
    BY <2>1 DEF G!main_object_get, GP!main_object_get, G!object_get, GP!object_get, G!Idle, GP!Idle,
         G!Unknown, GP!Unknown, G!Filter, GP!Filter, G!Range, GP!Range, G!NewObject, GP!NewObject
  <2>3. GP!Got(DefaultName, {})
    BY <2>2, GP!GettingDefault, GraphConstants DEF GP!GraphInv
  <2>4. DefaultName \in DOMAIN m_aliases'
    BY <2>3 DEF GP!Got
  <2>5. m_loadqueue' = << >> \o GP!Unknown(<<DefaultName>>) /\ DefaultName \in Names
    BY <2>2, BootAssumption DEF GP!main_object_get, GP!object_get
  <2>6. CASE DefaultName \in DOMAIN m_aliases
    <3>1. m_loadqueue' = << >>
      BY <2>5, <2>6, GP!UnknownFacts, GraphConstants
    <3> QED BY <2>4, <3>1 DEF ReadyInv
  <2>7. CASE DefaultName \notin DOMAIN m_aliases
    <3>1. m_loadqueue' = <<DefaultName>>
      BY <2>5, <2>7, GP!UnknownFacts, GraphConstants
    <3>2. PICK p : m_aliases'[DefaultName] = p /\ GP!Held(p, "from")' = {}
      BY <2>3, <2>7 DEF GP!Got, GP!Sides
    <3>3. GP!Held(m_aliases[DefaultName], "from")' = {}
      BY <3>2 DEF GP!Held, GP!Range
    <3> QED BY <2>4, <3>1, <3>3 DEF ReadyInv
  <2> QED BY <2>6, <2>7
<1> QED BY <1>1, <1>2 DEF ReadyInv

(* The jobs there may be: on units with an object, or only on the unit to    *)
(* start if no unit but that one is known.                                   *)
MayRun ==
    {j \in TP!Job : /\ j.type \in {"start", "verify", "stop"}
                    /\ j.object \in DOMAIN m_aliases
                    /\ m_loadqueue # << >> => j.object = DefaultName}

(* There are no other jobs. *)
ReachInv == phase # "idle" => ready /\ graph = TxEdges /\ TP!Within(MayRun)

(* The edges of an object lead to objects, and those of a start or stop job to such jobs. *)
LEMMA MayRunClosed ==
    ASSUME GP!GraphInv, LoadedInv, ReadyInv, ready, graph = TxEdges,
           NEW j \in MayRun
    PROVE  TP!Asks(j, FALSE) \subseteq MayRun
<1> SUFFICES ASSUME NEW a \in TP!Asks(j, FALSE) PROVE a \in MayRun
  OBVIOUS
<1>1. PICK e \in TP!Range(graph[j.object]), k \in TP!Serving(j) :
         a = [object |-> e.to, type |-> TP!Demand[k].op]
  BY DEF TP!Asks, TP!Asking, TP!Serving
<1>2. j \in TP!Job /\ j.object \in Names /\ j.object \in DOMAIN m_aliases
      /\ j.type \in {"start", "verify", "stop"}
      /\ (m_loadqueue # << >> => j.object = DefaultName)
  BY DEF MayRun, TP!Job
<1>3. TP!Demand[k].op \in {"start", "verify", "stop"}
  BY <1>2 DEF TP!Serving, TP!Demand, TP!Starts
<1>4. PICK d \in GP!Held(m_aliases[j.object], "from") : e.to = d.to
  <2>1. PICK i \in DOMAIN graph[j.object] : e = graph[j.object][i]
    BY DEF TP!Range
  <2>2. /\ i \in DOMAIN EdgesFrom(j.object)
        /\ e.to = EdgesFrom(j.object)[i].to
    <3>1. PICK n \in Names : n = j.object
      BY <1>2
    <3>2. graph[n] = [h \in DOMAIN EdgesFrom(n) |->
             [to |-> EdgesFrom(n)[h].to, type |-> EdgesFrom(n)[h].type \cap T!EdgeKinds]]
      BY DEF TxEdges
    <3> QED BY <2>1, <3>1, <3>2
  <2> QED BY <1>2, <2>2 DEF EdgesFrom, GP!Held, GP!Range
<1>5. m_loadqueue = << >>
  BY <1>2, <1>4 DEF ReadyInv
<1>6. d.to \in DOMAIN m_aliases
  BY <1>2, <1>4, EdgesMirrored DEF GP!Sides
<1>7. d.to \in Names
  BY <1>6, OneName
<1> QED BY <1>1, <1>3, <1>4, <1>5, <1>6, <1>7 DEF MayRun, TP!Job, TP!JobTypes

(* A transaction is within a set that has the objective and what that asks for. *)
LEMMA WithinBegins ==
    (\A within : TP!Init /\ objective \in within /\ TP!Asks(objective, FALSE) \subseteq within => TP!Within(within))'
<1>1. \A within : TP!Init /\ objective \in within /\ TP!Asks(objective, FALSE) \subseteq within => TP!Within(within)
  BY TP!InitWithin, TxConstants
<1> QED BY <1>1, PTL

(* The jobs that may be are all that the edges ask for, also after a step. *)
LEMMA MayRunClosedNext ==
    (GP!GraphInv /\ LoadedInv /\ ReadyInv /\ ready /\ graph = TxEdges
       => \A j \in MayRun : TP!Asks(j, FALSE) \subseteq MayRun)'
<1>1. GP!GraphInv /\ LoadedInv /\ ReadyInv /\ ready /\ graph = TxEdges
        => \A j \in MayRun : TP!Asks(j, FALSE) \subseteq MayRun
  BY MayRunClosed
<1> QED BY <1>1, PTL

(* While the object graph stays the same, so does what is made of it. *)
LEMMA SameGraph ==
    ASSUME UNCHANGED load_vars
    PROVE  TxEdges' = TxEdges /\ MayRun' = MayRun
BY DEF load_vars, TxEdges, EdgesFrom, MayRun

(* The jobs of the transaction stay among those there may be. *)
LEMMA ReachStep ==
    ASSUME GP!GraphInv, LoadedInv, ReadyInv, MakingInv, ReachInv,
           GP!GraphInv', LoadedInv', ReadyInv', [Next]_vars
    PROVE  ReachInv'
<1>1. CASE phase = "idle" /\ phase' = "idle"
  BY <1>1 DEF ReachInv
<1>2. CASE phase = "idle" /\ phase' # "idle"
  <2>1. new_transaction
    BY <1>2
    DEF Next, Step, Over, load, generate, enqueue, run, exit, vars, tx_vars,
        T!Step, T!job_submit, T!submitted, T!verify_object, T!path_push, T!path_pop, T!Deeper,
        T!try_remove_cycle, T!merge_jobs, T!merged
  <2>2. /\ UNCHANGED load_vars /\ ready /\ ready' /\ graph' = TxEdges
        /\ objective' = [object |-> DefaultName, type |-> "start"]
    BY <2>1 DEF new_transaction, load_vars, MakingInv
  <2>3. (graph = TxEdges)'
    BY <2>2, SameGraph
  <2>4. \A j \in MayRun' : TP!Asks(j, FALSE)' \subseteq MayRun'
    BY <2>2, <2>3, MayRunClosedNext
  <2>5. objective' \in MayRun
    BY <2>2, BootAssumption DEF MayRun, ReadyInv, TP!Job, TP!JobTypes
  <2>6. TP!Init'
    BY <2>1, MakingBegins
  <2>7. PICK within : within = MayRun'
    OBVIOUS
  <2>8. objective' \in within
    BY <2>2, <2>5, <2>7, SameGraph
  <2>9. TP!Asks(objective, FALSE)' \subseteq within
    BY <2>4, <2>7, <2>8 DEF TP!Asks
  <2>10. TP!Within(within)'
    BY <2>6, <2>8, <2>9, WithinBegins
  <2>11. TP!Within(MayRun)'
    BY <2>7, <2>10 DEF TP!Within
  <2> QED BY <2>2, <2>3, <2>11 DEF ReachInv
<1>3. CASE phase # "idle"
  <2>1. /\ [TP!Next]_(TP!vars) /\ phase' # "idle"
        /\ ready /\ graph = TxEdges /\ TP!Within(MayRun) /\ TP!TxInv
    BY <1>3, MakingStep DEF ReachInv, MakingInv
  <2>2. UNCHANGED load_vars /\ ready'
    BY <2>1, LoadedStep DEF load_vars
  <2>3. graph' = graph
    BY <2>1 DEF TP!Next, TP!Step, TP!Finished, TP!job_submit, TP!submitted, TP!verify_object,
        TP!path_push, TP!path_pop, TP!try_remove_cycle, TP!merge_jobs, TP!merged, TP!vars
  <2>4. PICK within : within = MayRun
    OBVIOUS
  <2>5. \A j \in within : TP!Asks(j, FALSE) \subseteq within
    BY <2>1, <2>4, MayRunClosed
  <2>6. TP!Within(within)
    BY <2>1, <2>4
  <2>7. TP!Within(within)'
    BY <2>1, <2>5, <2>6, TP!StaysWithin, TxConstants
  <2>8. MayRun' = within /\ TxEdges' = TxEdges
    BY <2>2, <2>4, SameGraph
  <2>9. TP!Within(MayRun)'
    BY <2>7, <2>8 DEF TP!Within
  <2> QED BY <2>1, <2>2, <2>3, <2>8, <2>9 DEF ReachInv
<1> QED BY <1>1, <1>2, <1>3

(* All of this holds in every state. *)
LEMMA MakingInvariant == Spec => [](MakingInv /\ ReadyInv /\ ReachInv)
<1>1. Init => MakingInv /\ ReadyInv /\ ReachInv
  BY DEF Init, G!Init, MakingInv, NoTransaction, ReadyInv, ReachInv
<1>2. /\ GP!GraphInv /\ LoadedInv /\ OrderInv
      /\ (GP!GraphInv /\ LoadedInv /\ OrderInv)'
      /\ MakingInv /\ ReadyInv /\ ReachInv
      /\ [Next]_vars
      => (MakingInv /\ ReadyInv /\ ReachInv)'
  BY MakingStep, ReadyStep, ReachStep
<1> QED BY <1>1, <1>2, LoadInvariant, PTL DEF Spec

(***************************************************************************)
(* The transaction has jobs for units that have been read, or cannot be:   *)
(* whatever a job's unit says of others, their turn in the load queue has  *)
(* come before the transaction is made.                                    *)
(***************************************************************************)
THEOREM OnlyLoadedUnits == Spec => []JobsAreLoaded
<1>1. GP!GraphInv /\ LoadedInv /\ MakingInv /\ ReadyInv /\ ReachInv => JobsAreLoaded
  <2> SUFFICES ASSUME GP!GraphInv, LoadedInv, MakingInv, ReadyInv, ReachInv,
                      NEW n \in Names, T!HasJobs(n), ~IsLoaded(n), files[n].kind # "missing"
               PROVE  n = DefaultName /\ m_loadqueue = <<n>> /\ \A m \in Names \ {n} : ~T!HasJobs(m)
    BY DEF JobsAreLoaded
  <2>1. phase # "idle"
    BY DEF MakingInv, NoTransaction, T!HasJobs
  <2>2. ready /\ TP!TypeOK /\ TP!Within(MayRun)
    BY <2>1 DEF MakingInv, ReachInv, TP!TxInv
  <2>3. ASSUME NEW m \in Names, T!HasJobs(m)
        PROVE  m \in DOMAIN m_aliases /\ (m_loadqueue # << >> => m = DefaultName)
    <3>1. TP!HasJobs(m)
      BY <2>3 DEF T!HasJobs, TP!HasJobs
    <3>2. PICK j \in TP!Job : j.object = m /\ TP!InTx(j)
      BY <2>2, <3>1, TP!HasJobsFacts, TxConstants
    <3> QED BY <2>2, <3>2 DEF TP!Within, MayRun
  <2>4. GP!Found(n)
    <3>1. GP!Fragment(n) = files[n] /\ files[n].kind # "link"
      BY NoLinks
    <3>2. files \in [Names -> GP!Unit]
      BY DEF GP!GraphInv, GP!TypeOK
    <3> QED BY <3>1, <3>2 DEF GP!Found, GP!Unit
  <2>5. objects[m_aliases[n]].state = "uninitialised"
    <3>1. n \in DOMAIN m_aliases /\ m_aliases[n] \in DOMAIN objects
      BY <2>3, GP!GraphTypes, GraphConstants DEF GP!GraphInv
    <3>2. objects \in Seq(GP!Schedulable)
      BY DEF GP!GraphInv, GP!TypeOK
    <3>3. objects[m_aliases[n]] \in GP!Schedulable
      BY <3>1, <3>2, ElementOfSeq, LenProperties
    <3>4. objects[m_aliases[n]].state \in {"uninitialised", "offline"}
      BY <3>3 DEF GP!Schedulable
    <3> QED BY <3>1, <3>4 DEF IsLoaded
  <2>6. n \in GP!Range(m_loadqueue) \cup GP!Range(to_bind)
    BY <2>3, <2>4, <2>5 DEF GP!GraphInv, GP!PlaceholdersQueued
  <2>7. m_loadqueue # << >>
    BY <2>2, <2>6 DEF LoadedInv, GP!Range
  <2> QED BY <2>2, <2>3, <2>7 DEF ReadyInv
<1> QED BY <1>1, LoadInvariant, MakingInvariant, PTL

-----------------------------------------------------------------------------
(* Running the transaction                                                 *)

(* The assumptions of JobSched hold, with restarters of one kind. *)
LEMMA SchedConstants ==
    JP!GraphAssumption /\ JP!JobSchedAssumption /\ JP!MaxTimersAssumption /\ JP!OneKind
<1>1. /\ NoOrder.edges \in [Names -> SUBSET Names]
      /\ NoOrder.edges_to \in [Names -> Seq(Names)]
      /\ \A n, m \in Names : m \notin NoOrder.edges[n] /\ DOMAIN NoOrder.edges_to[m] = {}
  BY EmptySeq DEF NoOrder
<1>2. JP!GraphAssumption
  BY <1>1 DEF JP!GraphAssumption
<1>3. JP!JobSchedAssumption
  BY BootAssumption DEF JP!JobSchedAssumption, JP!JobTypes, J!JobTypes, JP!States
<1> QED BY <1>2, <1>3, BootAssumption DEF JP!MaxTimersAssumption, JP!OneKind

(* A step of running jobs is the same in both instances. *)
LEMMA SameRunning ==
    /\ \A spec : J!tx_enqueue(spec) => JP!tx_enqueue(spec)
    /\ run => JP!MakeTurn
<1>1. \A spec : J!tx_enqueue(spec) => JP!tx_enqueue(spec)
  BY DEF J!tx_enqueue, JP!tx_enqueue, J!InEventLoop, JP!InEventLoop, J!NewJob, JP!NewJob,
         J!Turns, JP!Turns, J!evloop_vars, JP!evloop_vars
<1>2. J!tx_enqueue_leaves => JP!tx_enqueue_leaves
  BY DEF J!tx_enqueue_leaves, JP!tx_enqueue_leaves, J!NextTurn, JP!NextTurn, J!Jobs, JP!Jobs,
         J!HasJob, JP!HasJob, J!RunIfRunnable, JP!RunIfRunnable, J!job_runnable, JP!job_runnable,
         J!after_order, JP!after_order, J!job_run, JP!job_run, J!WithFront, JP!WithFront,
         J!timerid_t, JP!timerid_t, J!add_timer, JP!add_timer, J!Allocates, JP!Allocates,
         J!evloop_vars, JP!evloop_vars
<1>3. J!start_others => JP!start_others
  BY DEF J!start_others, JP!start_others, J!NextTurn, JP!NextTurn, J!Jobs, JP!Jobs,
         J!HasJob, JP!HasJob, J!RunIfRunnable, JP!RunIfRunnable, J!job_runnable, JP!job_runnable,
         J!after_order, JP!after_order, J!job_run, JP!job_run, J!WithFront, JP!WithFront,
         J!timerid_t, JP!timerid_t, J!add_timer, JP!add_timer, J!Allocates, JP!Allocates,
         J!evloop_vars, JP!evloop_vars
<1>4. J!start_answers("success") => JP!start_answers("success")
  BY DEF J!start_answers, JP!start_answers, J!NextTurn, JP!NextTurn, J!Jobs, JP!Jobs,
         J!job_complete, JP!job_complete, J!Settle, JP!Settle, J!WithFront, JP!WithFront,
         J!Turns, JP!Turns, J!del_timer, JP!del_timer, J!evloop_vars, JP!evloop_vars,
         J!Restrict, JP!Restrict
<1> QED BY <1>1, <1>2, <1>3, <1>4 DEF run, JP!MakeTurn

(* The order that tx_enqueue() finds has the types the scheduler expects. *)
LEMMA OrderTypes ==
    ASSUME GP!GraphInv
    PROVE  OrderFrom \in [Names -> SUBSET Names] /\ OrderTo \in [Names -> Seq(Names)]
<1>1. \A i \in DOMAIN objects : objects[i].edges \in Seq(GP!Edge) /\ objects[i].edges_to \in Seq(GP!Edge)
  BY GP!ObjectFacts, GraphConstants DEF GP!GraphInv, GP!TypeOK
<1>2. \A x \in DOMAIN m_aliases : m_aliases[x] \in DOMAIN objects
  BY GP!GraphTypes, GraphConstants DEF GP!GraphInv
<1>3. ASSUME NEW n \in Names PROVE OrderFrom[n] \in SUBSET Names /\ OrderTo[n] \in Seq(Names)
  <2>1. EdgesFrom(n) \in Seq(GP!Edge) /\ EdgesTo(n) \in Seq(GP!Edge)
    BY <1>1, <1>2, EmptySeq DEF EdgesFrom, EdgesTo
  <2>2. PICK es \in Seq(GP!Edge) : es = OrderEdges(EdgesFrom(n))
    BY <2>1, OrderOfEdges
  <2>3. PICK et \in Seq(GP!Edge) : et = OrderEdges(EdgesTo(n))
    BY <2>1, OrderOfEdges
  <2>4. \A e \in GP!Edge : e.to \in Names /\ e.from \in Names
    BY DEF GP!Edge
  <2>5. (\A k \in DOMAIN es : es[k] \in GP!Edge) /\ (\A k \in DOMAIN et : et[k] \in GP!Edge)
    BY ElementOfSeq, LenProperties
  <2>6. OrderFrom[n] = {e.to : e \in Range(es)}
    BY <2>2 DEF OrderFrom
  <2>7. OrderTo[n] = [k \in DOMAIN et |-> et[k].from]
    BY <2>3 DEF OrderTo
  <2>8. DOMAIN et = 1 .. Len(et) /\ Len(et) \in Nat
    BY <2>3, LenProperties
  <2>9. OrderTo[n] \in Seq(Names)
    BY <2>4, <2>5, <2>7, <2>8, IsASeq
  <2> QED BY <2>4, <2>5, <2>6, <2>9 DEF Range
<1> QED BY <1>3 DEF OrderFrom, OrderTo

(* The job that tx_enqueue() finds for a unit. *)
Chosen(n) == IF jobs[n] = << >> THEN "none" ELSE Head(jobs[n])

(***************************************************************************)
(* The scheduler is as the proofs about JobSched have it.  The transaction *)
(* that runs is the one that was made, nothing fails, and a job that was   *)
(* begun is behind jobs that have succeeded.                               *)
(***************************************************************************)
JobInv(n) ==
    /\ JobOf(n).type = Chosen(n)
    /\ JobOf(n).state \in {"awaiting", "success"}
    /\ starts[n] # << >> =>
          \A p \in after[n] : JobOf(p).type \in {"none", "stop"} \/ JobOf(p).state = "success"

RunsInv ==
    /\ JP!RunInv
    /\ transactions # << >> => phase = "done" /\ \A n \in Names : JobInv(n)

(* There are jobs to start, verify or stop units only. *)
LEMMA ChosenTypes ==
    ASSUME MakingInv, ReachInv, phase # "idle", NEW n \in Names
    PROVE  Chosen(n) \in {"none", "start", "verify", "stop"}
<1>1. CASE jobs[n] # << >>
  <2>1. jobs[n] \in Seq(TP!JobTypes) /\ TP!Within(MayRun)
    BY DEF MakingInv, ReachInv, TP!TxInv, TP!TypeOK
  <2>2. Head(jobs[n]) = jobs[n][1] /\ 1 \in DOMAIN jobs[n] /\ jobs[n][1] \in TP!JobTypes
    BY <1>1, <2>1, HeadTailElements, ElementOfSeq, LenProperties
  <2>3. PICK j \in TP!Job : j = [object |-> n, type |-> Head(jobs[n])]
    BY <2>2 DEF TP!Job
  <2>4. TP!InTx(j)
    BY <2>2, <2>3 DEF TP!InTx
  <2>5. j \in MayRun
    BY <2>1, <2>4 DEF TP!Within
  <2> QED BY <1>1, <2>3, <2>5 DEF Chosen, MayRun
<1>2. CASE jobs[n] = << >>
  BY <1>2 DEF Chosen
<1> QED BY <1>1, <1>2

(* A step as JobSched has it keeps its invariant. *)
LEMMA RunsOn ==
    ASSUME JP!RunInv, [JP!Next]_(JP!vars)
    PROVE  JP!RunInv' /\ JP!SchedInv'
<1>1. JP!SchedInv'
  BY SchedConstants, JP!SchedStays DEF JP!RunInv
<1> QED BY <1>1, SchedConstants, JP!RunStays

(* Every step of the daemon keeps what is said of the scheduler. *)
LEMMA RunsStep ==
    ASSUME GP!GraphInv, LoadedInv, OrderInv, MakingInv, ReachInv, RunsInv, [Next]_vars
    PROVE  RunsInv'
<1>1. JP!RunInv /\ JP!TypeOK
  BY DEF RunsInv, JP!RunInv, JP!SchedInv
<1>2. CASE new_transaction
  <2>1. /\ ready /\ transactions = << >> /\ transactions' = << >>
        /\ after' = OrderFrom /\ wakes' = OrderTo
        /\ UNCHANGED <<m_timers, kq, transactions, running_jobs, last_jobid, calls, asked, crashed, starts>>
    BY <1>2 DEF new_transaction, RunsInv
  <2>2. after' \in [Names -> SUBSET Names] /\ wakes' \in [Names -> Seq(Names)]
    BY <2>1, OrderTypes
  <2>3. \A n, m \in Names : m \in OrderFrom[n] => n \in Range(OrderTo[m])
    BY <2>1, OrderAgrees
  <2>4. JP!MirrorInv'
    BY <2>1, <2>3 DEF JP!MirrorInv, Range
  <2>5. JP!RunInv'
    BY <1>1, <2>1, <2>2, <2>4, SchedConstants, JP!OrderGiven
  <2> QED BY <2>1, <2>5 DEF RunsInv
<1>3. CASE enqueue
  <2>1. PICK spec : spec = [n \in Names |-> Chosen(n)]
    OBVIOUS
  <2>2. phase = "done" /\ J!tx_enqueue(spec) /\ UNCHANGED <<phase, jobs>>
    BY <1>3, <2>1 DEF enqueue, Chosen, tx_vars
  <2>3. spec \in [Names -> J!JobTypes \cup {"none"}]
    BY <2>1, <2>2, ChosenTypes DEF J!JobTypes
  <2>4. JP!tx_enqueue(spec)
    BY <2>2, SameRunning
  <2>5. JP!RunInv' /\ JP!SchedInv'
    BY <1>1, <2>3, <2>4, RunsOn DEF JP!Next
  <2>6. transactions = << >>
    <3>1. Len(transactions) < 1 /\ Len(transactions) \in Nat
      BY <1>1, <2>4, LenProperties DEF JP!tx_enqueue, JP!TypeOK
    <3> QED BY <1>1, <3>1, EmptySeq DEF JP!TypeOK
  <2>7. /\ JP!Jobs' = [n \in Names |-> JP!NewJob(spec[n])]
        /\ \A n \in Names : starts'[n] = << >>
    <3>1. JP!Jobs' = [n \in Names |-> JP!NewJob(spec[n])]
      BY <1>1, <2>3, <2>4, <2>5, <2>6, SchedConstants, JP!EnqueueRun
    <3>2. \A n \in Names : starts[n] = << >>
      BY <1>1, <2>6 DEF JP!RunInv, JP!BlankInv
    <3> QED BY <2>4, <3>1, <3>2 DEF JP!tx_enqueue
  <2>8. \A n \in Names : JobInv(n)'
    BY <2>1, <2>2, <2>7 DEF JobInv, JobOf, Chosen, JP!Jobs, JP!NewJob
  <2> QED BY <2>2, <2>5, <2>8 DEF RunsInv
<1>4. CASE run
  <2>1. JP!MakeTurn /\ UNCHANGED <<phase, jobs>>
    BY <1>4, SameRunning DEF run, tx_vars
  <2>2. JP!RunInv' /\ JP!SchedInv'
    BY <1>1, <2>1, RunsOn DEF JP!Next
  <2>3. transactions # << >> /\ phase = "done"
    BY <1>1, <1>4 DEF run, J!tx_enqueue_leaves, J!start_others, J!start_answers, J!NextTurn,
       JP!TypeOK, RunsInv
  <2>4. UNCHANGED after
    BY <1>4 DEF run, J!tx_enqueue_leaves, J!start_others, J!start_answers
  <2>5. \A n \in Names : JP!TargetEffect(n)
    BY <1>1, <2>1, <2>2, <2>3, SchedConstants, JP!TargetStep DEF JP!Next
  <2>6. ASSUME NEW n \in Names PROVE JobInv(n)'
    <3>1. /\ JP!Jobs[n].type # "restart"
          /\ \A p \in Names : JP!Jobs[p].type # "restart"
      BY <2>3, ChosenTypes DEF RunsInv, JobInv, JobOf, JP!Jobs
    <3>2. \A p \in Names : /\ JP!Jobs'[p].type = JP!Jobs[p].type
                           /\ JP!Jobs'[p].state \in {JP!Jobs[p].state, "success"}
      BY <2>5, <3>1 DEF JP!TargetEffect
    <3>3. ASSUME starts'[n] # << >>, NEW p \in after[n]
          PROVE  JP!Jobs'[p].type \in {"none", "stop"} \/ JP!Jobs'[p].state = "success"
      <4>1. p \in Names
        BY <1>1 DEF JP!TypeOK
      <4>2. JP!Jobs[p].type \in {"none", "stop"} \/ JP!Jobs[p].state = "success"
        <5>1. CASE starts[n] # << >>
          BY <2>3, <5>1 DEF RunsInv, JobInv, JobOf, JP!Jobs
        <5>2. CASE JP!job_runnable(JP!Jobs, n)
          BY <3>1, <4>1, <5>2 DEF JP!job_runnable, JP!HasJob, JP!after_order
        <5> QED BY <2>5, <3>3, <5>1, <5>2 DEF JP!TargetEffect
      <4> QED BY <3>2, <4>1, <4>2
    <3> QED BY <2>1, <2>3, <2>4, <3>2, <3>3 DEF RunsInv, JobInv, JobOf, Chosen, JP!Jobs
  <2> QED BY <2>1, <2>2, <2>3, <2>6 DEF RunsInv
<1>5. CASE UNCHANGED job_vars /\ ~new_transaction
  <2>1. UNCHANGED JP!vars
    BY <1>5 DEF job_vars, JP!vars, JP!evloop_vars, JP!sched_vars
  <2>2. JP!RunInv'
    BY <1>1, <2>1, RunsOn
  <2>3. phase = "done" => UNCHANGED <<phase, jobs>>
    BY <1>5
    DEF Next, Step, Over, load, generate, enqueue, run, exit, vars, tx_vars,
        T!Step, T!job_submit, T!submitted, T!verify_object, T!path_push, T!path_pop, T!Deeper,
        T!try_remove_cycle, T!merge_jobs, T!merged
  <2> QED BY <1>5, <2>2, <2>3 DEF RunsInv, JobInv, JobOf, Chosen, job_vars
<1> QED BY <1>2, <1>3, <1>4, <1>5 DEF Next, Step, Over, load, generate, exit, vars

(* It holds in every state. *)
LEMMA RunsInvariant == Spec => []RunsInv
<1>1. Init => RunsInv
  <2>1. J!Init => JP!Init
    BY DEF J!Init, JP!Init, J!Evloop_Init, JP!Evloop_Init
  <2>2. JP!Init => JP!RunInv
    BY SchedConstants, JP!InitRun
  <2> QED BY <2>1, <2>2 DEF Init, J!Init, RunsInv
<1>2. /\ GP!GraphInv /\ LoadedInv /\ OrderInv
      /\ MakingInv /\ ReadyInv /\ ReachInv
      /\ RunsInv /\ [Next]_vars
      => RunsInv'
  BY RunsStep
<1> QED BY <1>1, <1>2, LoadInvariant, MakingInvariant, PTL DEF Spec

(***************************************************************************)
(* log_job_complete() finds the name of each operation it is asked for:    *)
(* no unit files make a start-up run a job beyond kRestart.                *)
(***************************************************************************)
THEOREM OperationsAreNamed == Spec => []OperationsNamed
<1>1. RunsInv => OperationsNamed
  <2> SUFFICES ASSUME RunsInv, NEW n \in Names PROVE Range(starts[n]) \subseteq J!JobTypes
    BY DEF OperationsNamed
  <2>1. starts[n] \in Seq(J!JobTypes)
    BY DEF RunsInv, JP!RunInv, JP!SchedInv, JP!TypeOK, JP!JobTypes, J!JobTypes
  <2> QED BY <2>1, ElementOfSeq, LenProperties DEF Range
<1> QED BY <1>1, RunsInvariant, PTL

(* An object is ordered after those it has a kAfter edge to, in all three eyes. *)
LEMMA OrderInGraph ==
    ASSUME GP!GraphInv, NEW n \in Names, NEW p
    PROVE  /\ p \in OrderFrom[n] <=> \E e \in Range(EdgesFrom(n)) : "After" \in e.type /\ e.to = p
           /\ p \in OrderFrom[n] => \E e \in T!Range(TxEdges[n]) : "After" \in e.type /\ e.to = p
<1>1. \A i \in DOMAIN objects : objects[i].edges \in Seq(GP!Edge)
  BY GP!ObjectFacts, GraphConstants DEF GP!GraphInv, GP!TypeOK
<1>2. \A x \in DOMAIN m_aliases : m_aliases[x] \in DOMAIN objects
  BY GP!GraphTypes, GraphConstants DEF GP!GraphInv
<1>3. PICK es \in Seq(GP!Edge) : es = EdgesFrom(n)
  BY <1>1, <1>2, EmptySeq DEF EdgesFrom
<1>4. OrderFrom[n] = {e.to : e \in {d \in Range(es) : "After" \in d.type}}
  BY <1>3, OrderOfEdges DEF OrderFrom
<1>5. p \in OrderFrom[n] <=> \E e \in Range(es) : "After" \in e.type /\ e.to = p
  BY <1>4
<1>6. ASSUME NEW k \in DOMAIN es, "After" \in es[k].type, es[k].to = p
      PROVE  \E e \in T!Range(TxEdges[n]) : "After" \in e.type /\ e.to = p
  <2>1. TxEdges[n] = [h \in DOMAIN es |-> [to |-> es[h].to, type |-> es[h].type \cap T!EdgeKinds]]
    BY <1>3 DEF TxEdges
  <2>2. TxEdges[n][k] \in T!Range(TxEdges[n])
    BY <2>1 DEF T!Range
  <2>3. "After" \in TxEdges[n][k].type /\ TxEdges[n][k].to = p
    BY <1>6, <2>1 DEF T!EdgeKinds
  <2> QED BY <2>2, <2>3
<1> QED BY <1>3, <1>5, <1>6 DEF Range

(***************************************************************************)
(* When main() exits nothing is left to be done: if the jobs of the        *)
(* transaction are not ordered in a cycle, each of them has been carried   *)
(* out from within tx_enqueue(), although the event loop never runs.       *)
(***************************************************************************)
THEOREM CarriedOutByExit == Spec => []CarriedOutAtExit
<1>1. GP!GraphInv /\ OrderInv /\ MakingInv /\ ReachInv /\ RunsInv => CarriedOutAtExit
  <2> SUFFICES ASSUME GP!GraphInv, OrderInv, MakingInv, ReachInv, RunsInv, T!Acyclic, J!InEventLoop,
                      transactions # << >>
               PROVE  /\ \A n \in Names : JP!HasJob(JP!Jobs, n) => JP!Jobs[n].state = "success"
                      /\ DOMAIN running_jobs = {}
                      /\ DOMAIN m_timers = {}
    BY DEF CarriedOutAtExit, J!CarriedOutOnReturn, J!HasJob, JP!HasJob, J!Jobs, JP!Jobs
  <2>1. JP!RunInv /\ JP!InEventLoop /\ phase # "idle" /\ \A n \in Names : JobInv(n)
    BY DEF RunsInv, J!InEventLoop, JP!InEventLoop
  <2>2. /\ DOMAIN running_jobs = {} /\ DOMAIN m_timers = {}
        /\ \A n \in Names : ~JP!job_runnable(JP!Jobs, n)
    BY <2>1, SchedConstants, JP!NothingToDo
  <2> DEFINE Left == {n \in Names : JP!HasJob(JP!Jobs, n) /\ JP!Jobs[n].state # "success"}
  <2>3. Left = {}
    <3> SUFFICES ASSUME Left # {} PROVE FALSE
      OBVIOUS
    <3>1. Left \subseteq {n \in Names : T!HasJobs(n)}
      BY <2>1 DEF T!HasJobs, JP!HasJob, JP!Jobs, JobInv, JobOf, Chosen
    <3>2. PICK n \in Left : \A e \in T!Range(graph[n]) : "After" \in e.type => e.to \notin Left
      <4> HIDE DEF Left
      <4> QED BY <3>1 DEF T!Acyclic
    <3>3. JP!HasJob(JP!Jobs, n) /\ JP!Jobs[n].state = "awaiting"
      BY <2>1 DEF JobInv, JobOf, JP!Jobs
    <3>4. PICK p \in after[n] : JP!HasJob(JP!Jobs, p) /\ JP!Jobs[p].state # "success"
      BY <2>2, <3>3 DEF JP!job_runnable
    <3>5. p \in Left
      BY <2>1, <3>4 DEF JP!RunInv, JP!SchedInv, JP!TypeOK
    <3>6. \E e \in T!Range(graph[n]) : "After" \in e.type /\ e.to = p
      BY <2>1, OrderInGraph DEF OrderInv, ReachInv
    <3> QED BY <3>2, <3>5, <3>6
  <2> QED BY <2>2, <2>3
<1> QED BY <1>1, LoadInvariant, MakingInvariant, RunsInvariant, PTL

(* What the directives say of the order is in the graph, once all is loaded. *)
LEMMA SaidIsOrdered ==
    ASSUME GP!GraphInv, LoadedInv, ready, NEW n \in Names, NEW m \in Names, SaysAfter(n, m)
    PROVE  m \in OrderFrom[n]
<1>1. GP!Idle /\ GP!OneObjectPerUnit
  BY OneName DEF LoadedInv, GP!Idle
<1>2. \A x \in Names : GP!Fragment(x) = files[x]
  BY NoLinks
<1>3. CASE m \in Says(n, "After")
  <2>1. n \in DOMAIN m_aliases /\ objects[m_aliases[n]].state = "offline" /\ m \in files[n].deps["After"]
    BY <1>3 DEF Says, IsLoaded
  <2>2. GP!OwnDirectivesKept
    BY GP!OwnKept, GraphConstants
  <2>3. PICK k \in DOMAIN GP!depTypes : GP!depTypes[k] = "After"
    BY DEF GP!depTypes
  <2>4. "After" \in GP!dependencyToEdgeTypes["After"]
    BY DEF GP!dependencyToEdgeTypes
  <2>5. PICK e \in GP!Range(objects[m_aliases[n]].edges) : e.to = m /\ "After" \in e.type
    BY <1>1, <1>2, <2>1, <2>2, <2>3, <2>4 DEF GP!OwnDirectivesKept
  <2>6. e \in Range(EdgesFrom(n))
    BY <2>1 DEF EdgesFrom, GP!Range, Range
  <2> QED BY <2>5, <2>6, OrderInGraph
<1>4. CASE n \in Says(m, "Before") /\ \A d \in G!Replacing : n \notin Says(m, d)
  <2>1. /\ m \in DOMAIN m_aliases /\ objects[m_aliases[m]].state = "offline"
        /\ n \in files[m].deps["Before"]
        /\ \A d \in GP!Replacing : n \notin files[m].deps[d]
    BY <1>4 DEF Says, IsLoaded, G!Replacing, GP!Replacing
  <2>2. /\ n \in DOMAIN m_aliases
        /\ \E e \in GP!Range(objects[m_aliases[n]].edges) :
              "After" \in e.type /\ e.to = objects[m_aliases[m]].main_alias
    BY <1>1, <1>2, <2>1, GP!BeforeGiven, GraphConstants
  <2>3. objects[m_aliases[m]].main_alias = m
    BY <2>1, OneName
  <2>4. \E e \in Range(EdgesFrom(n)) : "After" \in e.type /\ e.to = m
    BY <2>2, <2>3 DEF EdgesFrom, GP!Range, Range
  <2> QED BY <2>4, OrderInGraph
<1> QED BY <1>3, <1>4 DEF SaysAfter

(***************************************************************************)
(* From the unit file to the call of start(), for all unit files and the   *)
(* whole way: a unit is started only once the job of a unit it is After=,  *)
(* or that is Before= it, has succeeded, unless that is a stop job.        *)
(***************************************************************************)
THEOREM OrderIsHonoured == Spec => []OrderHonoured
<1>1. GP!GraphInv /\ LoadedInv /\ OrderInv /\ RunsInv => OrderHonoured
  <2> SUFFICES ASSUME GP!GraphInv, LoadedInv, OrderInv, RunsInv, transactions # << >>,
                      NEW n \in Names, NEW m \in Names, starts[n] # << >>, SaysAfter(n, m)
               PROVE  JobOf(m).type \in {"none", "stop"} \/ JobOf(m).state = "success"
    BY DEF OrderHonoured
  <2>1. phase = "done" /\ JobInv(n)
    BY DEF RunsInv
  <2>2. m \in after[n]
    BY <2>1, SaidIsOrdered DEF OrderInv
  <2> QED BY <2>1, <2>2 DEF JobInv
<1> QED BY <1>1, LoadInvariant, RunsInvariant, PTL
-----------------------------------------------------------------------------
(* What the default unit needs                                             *)

(* What the proofs about TxGen say of the goal holds of the transaction, and *)
(* main() exits only when that has been made and tx_enqueue() has returned.  *)
MadeInv ==
    /\ phase # "idle" => TP!NeedsInv
    /\ exited => phase = "done" /\ transactions # << >> /\ calls = << >>

(* It holds of a transaction that begins. *)
LEMMA NeedsBegun == TP!Init' => TP!NeedsInv'
<1>1. TP!Init => TP!NeedsInv
  BY TxConstants, TP!InitNeeds
<1> QED BY <1>1, PTL

(* And of each that goes on.  Once main() has called exit() nothing else happens. *)
LEMMA MadeStep ==
    ASSUME GP!GraphInv, LoadedInv, OrderInv, MakingInv, RunsInv, MadeInv, [Next]_vars
    PROVE  MadeInv'
<1>1. phase' # "idle" => TP!NeedsInv'
  <2>1. CASE phase = "idle" /\ phase' # "idle"
    <3>1. new_transaction
      BY <2>1
      DEF Next, Step, Over, load, generate, enqueue, run, exit, vars, tx_vars,
          T!Step, T!job_submit, T!submitted, T!verify_object, T!path_push, T!path_pop, T!Deeper,
          T!try_remove_cycle, T!merge_jobs, T!merged
    <3> QED BY <3>1, MakingBegins, NeedsBegun
  <2>2. CASE phase # "idle"
    <3>1. [TP!Next]_(TP!vars) /\ TP!TxInv /\ TP!NeedsInv
      BY <2>2, MakingStep DEF MakingInv, MadeInv
    <3> QED BY <3>1, TxConstants, TP!NeedsStep
  <2> QED BY <2>1, <2>2
<1>2. exited' => (phase = "done" /\ transactions # << >> /\ calls = << >>)'
  <2>1. CASE exit
    BY <2>1 DEF exit, J!InEventLoop, RunsInv, tx_vars, job_vars
  <2>2. CASE exited
    <3>1. phase = "done" /\ transactions # << >> /\ calls = << >> /\ ready
      BY <2>2 DEF MadeInv, OrderInv
    <3>2. transactions \in Seq([Names -> JP!Job]) /\ Len(transactions) \in Nat /\ Len(transactions) # 0
      BY <3>1, EmptySeq, LenProperties DEF RunsInv, JP!RunInv, JP!SchedInv, JP!TypeOK
    <3>3. ~enqueue /\ ~run
      BY <3>1, <3>2 DEF enqueue, J!tx_enqueue, run, J!tx_enqueue_leaves, J!start_others,
                        J!start_answers, J!NextTurn
    <3>4. ~new_transaction /\ ~generate
      BY <3>1 DEF new_transaction, generate, T!Step, T!job_submit, T!submitted, T!verify_object,
         T!path_push, T!path_pop, T!Deeper, T!try_remove_cycle, T!merge_jobs, T!merged
    <3>5. UNCHANGED <<tx_vars, job_vars>>
      BY <3>3, <3>4 DEF Next, Step, Over, load, exit, vars
    <3> QED BY <3>1, <3>5 DEF tx_vars, job_vars
  <2>3. CASE ~exit /\ ~exited
    BY <2>3 DEF Next, Step, Over, load, new_transaction, generate, enqueue, run, vars
  <2> QED BY <2>1, <2>2, <2>3
<1> QED BY <1>1, <1>2 DEF MadeInv

(* It holds in every state. *)
LEMMA MadeInvariant == Spec => []MadeInv
<1>1. Init => MadeInv
  BY DEF Init, MadeInv
<1>2. /\ GP!GraphInv /\ LoadedInv /\ OrderInv /\ MakingInv /\ RunsInv /\ MadeInv
      /\ [Next]_vars
      => MadeInv'
  BY MadeStep
<1> QED BY <1>1, <1>2, LoadInvariant, MakingInvariant, RunsInvariant, PTL DEF Spec

(* A loaded unit speaks with its directives. *)
LEMMA LoadedSays ==
    ASSUME LoadedInv, NEW n \in DOMAIN m_aliases, n \in Names, GP!LeadsToLoaded(n)
    PROVE  \A d : Says(n, d) = GP!Fragment(n).deps[d]
BY NoLinks DEF Says, IsLoaded, GP!LeadsToLoaded, GP!IsLoaded

(* Each edge of an object is there because a directive says so: of its own *)
(* unit, or of the one that the edge leads to.                             *)
LEMMA EdgeIsSaid ==
    ASSUME GP!GraphInv, LoadedInv, ready, NEW n \in Names, NEW e \in Range(EdgesFrom(n))
    PROVE  /\ e.to \in Names
           /\ "AddStart" \in e.type => e.to \in Says(n, "Requires") \cup Says(n, "BindsTo")
           /\ "AddStartNonreq" \in e.type => e.to \in Says(n, "Wants") \cup Says(n, "Upholds")
           /\ "AddStop" \in e.type => e.to \in Says(n, "Conflicts")
           /\ "AddVerify" \in e.type => e.to \in Says(n, "Requisite")
           /\ "PropagatesStopTo" \in e.type =>
                 \E d \in {"Requires", "BindsTo", "PartOf", "Requisite"} : n \in Says(e.to, d)
           /\ "After" \in e.type => SaysAfter(n, e.to)
<1>1. n \in DOMAIN m_aliases /\ e \in GP!Held(m_aliases[n], "from")
  BY DEF EdgesFrom, GP!Held, Range, GP!Range
<1>2. e.from = n /\ e.to \in Names
  BY <1>1, EdgesMirrored, OneName DEF GP!Sides, GP!AtEnd
<1>3. m_aliases[n] \in DOMAIN objects
  BY <1>1, GP!GraphTypes, GraphConstants DEF GP!GraphInv
<1>4. e \in GP!Gives(e.owner) /\ GP!LeadsToLoaded(e.owner)
  BY <1>1, <1>3 DEF GP!GraphInv, GP!EdgeInv, GP!Sound, GP!Sides
<1>5. PICK owner \in Names : owner = e.owner
  BY <1>4, OneName DEF GP!LeadsToLoaded
<1>6. PICK unit : unit = GP!Fragment(owner)
  OBVIOUS
<1>7. \A d : Says(owner, d) = unit.deps[d]
  BY <1>4, <1>5, <1>6, LoadedSays DEF GP!LeadsToLoaded
<1>8. PICK el \in Names : e = GP!GivenFrom(owner, unit, el) \/ e = GP!GivenTo(owner, unit, el)
  BY <1>4, <1>5, <1>6, GP!EdgesOfUnit, GraphConstants DEF GP!Gives
<1>9. CASE e = GP!GivenFrom(owner, unit, el)
  <2>1. owner = n /\ e.to = el /\ e.type = GP!edges_from(unit, el)
    BY <1>2, <1>9 DEF GP!GivenFrom
  <2> QED BY <1>2, <1>7, <2>1, GP!SaidFrom, GraphConstants DEF SaysAfter
<1>10. CASE e = GP!GivenTo(owner, unit, el)
  <2>1. el = n /\ e.to = owner /\ e.type = GP!edges_to(unit, el)
    BY <1>2, <1>10 DEF GP!GivenTo
  <2>2. G!Replacing = GP!Replacing
    BY DEF G!Replacing, GP!Replacing
  <2> QED BY <1>2, <1>7, <2>1, <2>2, GP!SaidTo, GraphConstants DEF SaysAfter
<1> QED BY <1>8, <1>9, <1>10

(* An edge that transaction generation looks at is one of the object graph. *)
LEMMA TxEdgeOfGraph ==
    ASSUME graph = TxEdges, NEW n \in Names, NEW x \in TP!Range(graph[n])
    PROVE  \E e \in Range(EdgesFrom(n)) : x.to = e.to /\ x.type \subseteq e.type
<1>1. graph[n] = [k \in DOMAIN EdgesFrom(n) |->
         [to |-> EdgesFrom(n)[k].to, type |-> EdgesFrom(n)[k].type \cap T!EdgeKinds]]
  BY DEF TxEdges
<1>2. PICK k \in DOMAIN EdgesFrom(n) : x = graph[n][k]
  BY <1>1 DEF TP!Range
<1>3. x.to = EdgesFrom(n)[k].to /\ x.type \subseteq EdgesFrom(n)[k].type
  BY <1>1, <1>2
<1> QED BY <1>3 DEF Range

(* What a job requires by its edges it needs by the directives. *)
LEMMA RequiredIsNeeded ==
    ASSUME GP!GraphInv, LoadedInv, ready, graph = TxEdges, NEW j \in Wanted,
           NEW a \in TP!Asks(j, TRUE)
    PROVE  a \in Needs(j) /\ a \in Wanted
<1>1. PICK n \in Names : n = j.object
  BY DEF Wanted
<1>2. PICK x \in TP!Range(graph[n]), k \in TP!Asking(j, TRUE) :
         k \in x.type /\ a = [object |-> x.to, type |-> TP!Demand[k].op]
  <2>1. PICK x \in TP!Range(graph[j.object]) :
           a \in {[object |-> x.to, type |-> TP!Demand[k].op] : k \in x.type \cap TP!Asking(j, TRUE)}
    BY DEF TP!Asks
  <2> QED BY <1>1, <2>1
<1>3. PICK e \in Range(EdgesFrom(n)) : e.to = x.to /\ k \in e.type
  BY <1>2, TxEdgeOfGraph
<1>4. PICK to \in Names : to = e.to
  BY EdgeIsSaid
<1>5. \/ j.type = "start" /\ \/ k = "AddStart" /\ TP!Demand[k].op = "start"
                             \/ k = "AddVerify" /\ TP!Demand[k].op = "verify"
                             \/ k = "AddStop" /\ TP!Demand[k].op = "stop"
      \/ j.type = "stop" /\ k = "PropagatesStopTo" /\ TP!Demand[k].op = "stop"
  <2>1. j.type \in {"start", "verify", "stop"}
    BY DEF Wanted
  <2>2. k \in DOMAIN TP!Demand /\ j.type \in TP!Demand[k].by /\ TP!Demand[k].required
    BY DEF TP!Asking
  <2> QED BY <2>1, <2>2 DEF TP!Demand, TP!Starts
<1>6. CASE j.type = "start"
  <2>1. CASE k = "AddStart" /\ TP!Demand[k].op = "start"
    <3>1. a = [object |-> to, type |-> "start"] /\ to \in Says(n, "Requires") \cup Says(n, "BindsTo")
      BY <1>2, <1>3, <1>4, <2>1, EdgeIsSaid
    <3> QED BY <1>1, <1>6, <3>1 DEF Needs, Wanted
  <2>2. CASE k = "AddVerify" /\ TP!Demand[k].op = "verify"
    <3>1. a = [object |-> to, type |-> "verify"] /\ to \in Says(n, "Requisite")
      BY <1>2, <1>3, <1>4, <2>2, EdgeIsSaid
    <3> QED BY <1>1, <1>6, <3>1 DEF Needs, Wanted
  <2>3. CASE k = "AddStop" /\ TP!Demand[k].op = "stop"
    <3>1. a = [object |-> to, type |-> "stop"] /\ to \in Says(n, "Conflicts")
      BY <1>2, <1>3, <1>4, <2>3, EdgeIsSaid
    <3> QED BY <1>1, <1>6, <3>1 DEF Needs, Wanted
  <2> QED BY <1>5, <1>6, <2>1, <2>2, <2>3
<1>7. CASE j.type = "stop" /\ k = "PropagatesStopTo" /\ TP!Demand[k].op = "stop"
  <2>1. /\ a = [object |-> to, type |-> "stop"]
        /\ \E d \in {"Requires", "BindsTo", "PartOf", "Requisite"} : n \in Says(to, d)
    BY <1>2, <1>3, <1>4, <1>7, EdgeIsSaid
  <2> QED BY <1>1, <1>7, <2>1 DEF Needs, Wanted
<1> QED BY <1>5, <1>6, <1>7

(* So all that the goal of the transaction requires is needed. *)
LEMMA ReachedIsNeeded ==
    ASSUME GP!GraphInv, LoadedInv, MakingInv, ReachInv, phase # "idle"
    PROVE  TP!Closure(TRUE) \subseteq Needed
<1>1. ready /\ graph = TxEdges /\ TP!TypeOK
  BY DEF ReachInv, MakingInv, TP!TxInv
<1>2. objective \in Wanted
  BY BootAssumption DEF MakingInv, Wanted
<1>3. \A j \in Wanted : TP!Asks(j, TRUE) \subseteq Needs(j) \cap Wanted
  BY <1>1, RequiredIsNeeded
<1>4. TP!Closure(TRUE) \subseteq Wanted
  BY <1>1, <1>2, <1>3, TP!ClosureIsLeast, TxConstants
<1>5. ASSUME NEW X \in SUBSET Wanted, objective \in X, \A j \in X : Needs(j) \subseteq X
      PROVE  TP!Closure(TRUE) \subseteq X
  <2>1. \A j \in X : TP!Asks(j, TRUE) \subseteq X
    BY <1>3, <1>5
  <2> QED BY <1>1, <1>5, <2>1, TP!ClosureIsLeast, TxConstants
<1> QED BY <1>4, <1>5 DEF Needed

(***************************************************************************)
(* Whatever the unit files say, the daemon gives up only on those that     *)
(* contradict themselves: what the default unit needs is ordered in a      *)
(* cycle, or is needed stopped and also started, or active.                *)
(***************************************************************************)
THEOREM GivesUpForCause == Spec => []RejectedForCause
<1>1. GP!GraphInv /\ LoadedInv /\ MakingInv /\ ReachInv /\ MadeInv => RejectedForCause
  <2> SUFFICES ASSUME GP!GraphInv, LoadedInv, MakingInv, ReachInv, MadeInv, Rejected
               PROVE  \/ \E S \in SUBSET {j.object : j \in Needed} : Cyclic(S)
                      \/ \E n \in Names, type \in {"start", "verify"} :
                             [object : {n}, type : {type, "stop"}] \subseteq Needed
    BY DEF RejectedForCause
  <2>1. phase # "idle" /\ phase \in {"cyclical", "unmergeable"}
    BY DEF Rejected
  <2>2. TP!CauseInv /\ ready /\ graph = TxEdges /\ TP!Closure(TRUE) \subseteq Needed
    BY <2>1, ReachedIsNeeded DEF MadeInv, TP!NeedsInv, ReachInv
  <2>3. \A j \in Needed : j \in Wanted
    BY DEF Needed
  <2>4. CASE phase = "cyclical"
    <3>1. PICK S : TP!NeededCycle(S)
      BY <2>2, <2>4 DEF TP!CauseInv
    <3>2. S # {} /\ S \subseteq {j.object : j \in Needed} /\ S \subseteq Names
      BY <2>2, <2>3, <3>1 DEF TP!NeededCycle, Wanted
    <3>3. ASSUME NEW n \in S PROVE \E m \in S : SaysAfter(n, m)
      <4>1. PICK m \in S, x \in TP!Range(graph[n]) : "After" \in x.type /\ x.to = m
        BY <3>1, <3>3 DEF TP!NeededCycle, TP!Ordered
      <4>2. PICK e \in Range(EdgesFrom(n)) : e.to = m /\ "After" \in e.type
        BY <2>2, <3>2, <4>1, TxEdgeOfGraph
      <4> QED BY <2>2, <3>2, <4>2, EdgeIsSaid
    <3> QED BY <3>2, <3>3 DEF Cyclic
  <2>5. CASE phase = "unmergeable"
    <3>1. PICK j \in Needed, k \in Needed :
             j.object = k.object /\ j.type # "stop" /\ k.type = "stop"
      BY <2>2, <2>5 DEF TP!CauseInv
    <3>2. PICK n \in Names, type \in {"start", "verify"} :
             j = [object |-> n, type |-> type] /\ k = [object |-> n, type |-> "stop"]
      BY <2>3, <3>1 DEF Wanted
    <3>3. ASSUME NEW i \in [object : {n}, type : {type, "stop"}] PROVE i \in {j, k}
      BY <3>2, <3>3
    <3> QED BY <3>1, <3>3
  <2> QED BY <2>1, <2>4, <2>5
<1> QED BY <1>1, LoadInvariant, MakingInvariant, MadeInvariant, PTL

-----------------------------------------------------------------------------
(* What is brought up                                                      *)

(* The job that runs for a unit is the only one left for it. *)
LEMMA OnlyJob ==
    ASSUME MakingInv, ReachInv, RunsInv, phase = "done", transactions # << >>, NEW n \in Names
    PROVE  /\ JobOf(n).type \in {"none", "start", "verify", "stop"}
           /\ jobs[n] = IF JobOf(n).type = "none" THEN << >> ELSE <<JobOf(n).type>>
<1>1. JobOf(n).type = Chosen(n) /\ Chosen(n) \in {"none", "start", "verify", "stop"}
  BY ChosenTypes DEF RunsInv, JobInv
<1>2. jobs[n] \in Seq(TP!JobTypes) /\ Len(jobs[n]) <= 1
  BY DEF MakingInv, TP!TxInv, TP!TypeOK, TP!MergeInv
<1>3. CASE jobs[n] = << >>
  BY <1>1, <1>3 DEF Chosen
<1>4. CASE jobs[n] # << >>
  <2>1. Len(jobs[n]) = 1 /\ Head(jobs[n]) = jobs[n][1] /\ jobs[n][1] \in TP!JobTypes
    <3>1. PICK l \in Nat : l = Len(jobs[n])
      BY <1>2, LenProperties
    <3>2. l # 0 /\ l <= 1
      BY <1>2, <1>4, <3>1, EmptySeq
    <3>3. Len(jobs[n]) = 1
      <4>1. l = 1
        BY <3>2
      <4> QED BY <3>1, <4>1
    <3>4. jobs[n][1] \in TP!JobTypes
      BY <1>2, <3>3, ElementOfSeq
    <3>5. Head(jobs[n]) = jobs[n][1]
      BY <1>2, <1>4, HeadTailElements
    <3> QED BY <3>3, <3>4, <3>5
  <2>2. Chosen(n) = jobs[n][1] /\ Chosen(n) # "none"
    BY <1>4, <2>1 DEF Chosen, TP!JobTypes
  <2>3. jobs[n] = <<jobs[n][1]>>
    BY <1>2, <2>1, SeqEqual
  <2> QED BY <1>1, <2>2, <2>3
<1> QED BY <1>3, <1>4

(* Directives are about units. *)
LEMMA SaidOfUnits ==
    ASSUME LoadedInv, NEW n \in Names,
           NEW d \in {"Requires", "BindsTo", "Wants", "Upholds"}
    PROVE  Says(n, d) \subseteq Names
<1>1. files[n] \in GP!Unit /\ files[n].kind # "link"
  BY NoLinks, BootAssumption, GraphConstants DEF LoadedInv, GP!ObjectGraphAssumption
<1>2. files[n].deps \in [GP!Range(GP!depTypes) -> SUBSET Names]
  BY <1>1 DEF GP!Unit
<1>3. d \in GP!Range(GP!depTypes)
  BY DEF GP!depTypes, GP!Range
<1> QED BY <1>2, <1>3 DEF Says

(* What a unit requires its start job asks for. *)
LEMMA RequiresAsks ==
    ASSUME GP!GraphInv, LoadedInv, ready, graph = TxEdges,
           NEW n \in Names, NEW m \in Requires(n),
           NEW j, j = [object |-> n, type |-> "start"]
    PROVE  [object |-> m, type |-> "start"] \in TP!AsksBy(j, TP!Requiring)
<1>1. PICK said \in {"Requires", "BindsTo"} : m \in Says(n, said)
  BY DEF Requires
<1>2. PICK k \in DOMAIN EdgesFrom(n) :
         EdgesFrom(n)[k].to = m /\ "AddStart" \in EdgesFrom(n)[k].type
  <2>1. n \in DOMAIN m_aliases /\ objects[m_aliases[n]].state = "offline"
        /\ m \in files[n].deps[said]
    BY <1>1 DEF Says, IsLoaded
  <2>2. GP!OwnDirectivesKept /\ GP!Idle /\ GP!Fragment(n) = files[n]
    BY <2>1, GP!OwnKept, NoLinks, GraphConstants DEF LoadedInv, GP!Idle
  <2>3. PICK d \in DOMAIN GP!depTypes : GP!depTypes[d] = said
    BY DEF GP!depTypes
  <2>4. "AddStart" \in GP!dependencyToEdgeTypes[said]
    BY DEF GP!dependencyToEdgeTypes
  <2>5. PICK e \in GP!Range(objects[m_aliases[n]].edges) : e.to = m /\ "AddStart" \in e.type
    BY <2>1, <2>2, <2>3, <2>4 DEF GP!OwnDirectivesKept
  <2> QED BY <2>1, <2>5 DEF EdgesFrom, GP!Range
<1>3. PICK x : x = [to |-> EdgesFrom(n)[k].to, type |-> EdgesFrom(n)[k].type \cap T!EdgeKinds]
  OBVIOUS
<1>4. graph[n] = [h \in DOMAIN EdgesFrom(n) |->
         [to |-> EdgesFrom(n)[h].to, type |-> EdgesFrom(n)[h].type \cap T!EdgeKinds]]
  BY DEF TxEdges
<1>5. x \in TP!Range(graph[j.object])
  <2>1. x \in TP!Range(graph[n])
    BY <1>2, <1>3, <1>4 DEF TP!Range
  <2> QED BY <2>1
<1>6. x.to = m /\ "AddStart" \in x.type
  BY <1>2, <1>3 DEF T!EdgeKinds
<1>7. "AddStart" \in TP!Serving(j) /\ TP!Demand["AddStart"].op = "start" /\ "AddStart" \in TP!Requiring
  BY DEF TP!Serving, TP!Demand, TP!Starts, TP!Requiring
<1>8. "AddStart" \in x.type \cap TP!Requiring \cap TP!Asking(j, FALSE)
  BY <1>6, <1>7 DEF TP!Serving, TP!Asking
<1> DEFINE demanded(e) == {[object |-> e.to, type |-> TP!Demand[d].op] :
                             d \in e.type \cap TP!Requiring \cap TP!Asking(j, FALSE)}
<1>9. [object |-> m, type |-> "start"] \in demanded(x)
  BY <1>6, <1>7, <1>8
<1>10. TP!AsksBy(j, TP!Requiring) = UNION {demanded(e) : e \in TP!Range(graph[j.object])}
  BY DEF TP!AsksBy
<1> HIDE DEF demanded
<1> QED BY <1>5, <1>9, <1>10

(* What a job asks for, going by the directives of the unit. *)
LEMMA AskedIsSaid ==
    ASSUME GP!GraphInv, LoadedInv, ready, graph = TxEdges, NEW j, j.object \in Names,
           NEW types, NEW a \in TP!AsksBy(j, types)
    PROVE  \E k \in TP!Serving(j), to \in Names :
              /\ k \in types
              /\ a = [object |-> to, type |-> TP!Demand[k].op]
              /\ k = "AddStart" => to \in Requires(j.object)
              /\ k = "AddStartNonreq" => to \in Says(j.object, "Wants") \cup Says(j.object, "Upholds")
              /\ k = "AddVerify" => to \in Says(j.object, "Requisite")
<1>1. PICK n \in Names : n = j.object
  OBVIOUS
<1>2. PICK x \in TP!Range(graph[j.object]) : \E k \in TP!Serving(j) :
         k \in types /\ k \in x.type /\ a = [object |-> x.to, type |-> TP!Demand[k].op]
  BY DEF TP!AsksBy, TP!Asking, TP!Serving
<1>3. PICK k \in TP!Serving(j) :
         k \in types /\ k \in x.type /\ a = [object |-> x.to, type |-> TP!Demand[k].op]
  BY <1>2
<1>4. PICK e \in Range(EdgesFrom(n)) : e.to = x.to /\ k \in e.type
  BY <1>1, <1>3, TxEdgeOfGraph
<1>5. /\ e.to \in Names
      /\ "AddStart" \in e.type => e.to \in Requires(n)
      /\ "AddStartNonreq" \in e.type => e.to \in Says(n, "Wants") \cup Says(n, "Upholds")
      /\ "AddVerify" \in e.type => e.to \in Says(n, "Requisite")
  BY EdgeIsSaid DEF Requires
<1>6. PICK to \in Names : to = e.to
  BY <1>5
<1> QED BY <1>1, <1>3, <1>4, <1>5, <1>6

(* Only two kinds of edges ask for start jobs, one for verify jobs. *)
LEMMA AskedTypes ==
    ASSUME NEW k \in DOMAIN TP!Demand
    PROVE  /\ TP!Demand[k].op = "start" => k \in {"AddStart", "AddStartNonreq"}
           /\ TP!Demand[k].op = "verify" => k = "AddVerify"
           /\ k \notin TP!Requiring => k # "AddStart"
BY DEF TP!Demand, TP!Requiring

(* Doubtful has all that is wanted, and what its units require, but the default unit. *)
LEMMA DoubtfulFacts ==
    ASSUME LoadedInv
    PROVE  /\ \A n \in Names : \A m \in Says(n, "Wants") \cup Says(n, "Upholds") :
                 m # DefaultName => m \in Doubtful
           /\ \A n \in Doubtful : \A m \in Requires(n) : m # DefaultName => m \in Doubtful
<1> DEFINE wanted == UNION {Says(n, "Wants") \cup Says(n, "Upholds") : n \in Names}
           Closed(X) == /\ wanted \ {DefaultName} \subseteq X
                        /\ \A n \in X : Requires(n) \ {DefaultName} \subseteq X
<1>1. Doubtful = {n \in Names : \A X \in SUBSET Names : Closed(X) => n \in X}
  BY DEF Doubtful
<1>2. \A n \in Names : Says(n, "Wants") \cup Says(n, "Upholds") \cup Requires(n) \subseteq Names
  BY SaidOfUnits DEF Requires
<1>3. \A n \in Names : Says(n, "Wants") \cup Says(n, "Upholds") \subseteq wanted
  OBVIOUS
<1> HIDE DEF wanted
<1>4. ASSUME NEW n \in Names, NEW m \in Says(n, "Wants") \cup Says(n, "Upholds"), m # DefaultName
      PROVE  m \in Doubtful
  BY <1>1, <1>2, <1>3, <1>4
<1>5. ASSUME NEW n \in Doubtful, NEW m \in Requires(n), m # DefaultName
      PROVE  m \in Doubtful
  <2>1. n \in Names /\ m \in Names
    BY <1>1, <1>2
  <2>2. ASSUME NEW X \in SUBSET Names, Closed(X) PROVE m \in X
    <3>1. n \in X
      BY <1>1, <2>2
    <3> QED BY <1>5, <2>2, <3>1
  <2> QED BY <1>1, <2>1, <2>2
<1> QED BY <1>4, <1>5

(* The jobs reached are to start, verify or stop units. *)
LEMMA ReachedMayRun ==
    ASSUME GP!GraphInv, LoadedInv, ReadyInv, MakingInv, ReachInv, phase # "idle"
    PROVE  TP!Closure(FALSE) \subseteq MayRun
<1>1. ready /\ graph = TxEdges /\ TP!TypeOK /\ TP!Within(MayRun) /\ TP!LinkInv
  BY DEF ReachInv, MakingInv, TP!TxInv
<1>2. objective \in MayRun
  <2>1. objective = [object |-> DefaultName, type |-> "start"] /\ DefaultName \in Names
    BY BootAssumption DEF MakingInv
  <2> QED BY <1>1, <2>1 DEF MayRun, ReadyInv, TP!Job, TP!JobTypes
<1>3. \A j \in MayRun : TP!Asks(j, FALSE) \subseteq MayRun
  BY <1>1, MayRunClosed
<1> QED BY <1>1, <1>2, <1>3, TP!ClosureIsLeast, TxConstants

(* Only doubtful units have start jobs that are Loose. *)
LEMMA LooseIsDoubtful ==
    ASSUME GP!GraphInv, LoadedInv, ReadyInv, MakingInv, ReachInv, phase # "idle"
    PROVE  \A j \in TP!Loose : j.type = "start" => j.object \in Doubtful
<1>1. ready /\ graph = TxEdges /\ TP!TypeOK /\ objective = [object |-> DefaultName, type |-> "start"]
  BY DEF ReachInv, MakingInv, TP!TxInv
<1>2. TP!Closure(FALSE) \subseteq MayRun
  BY ReachedMayRun
<1>3. \A j \in MayRun : j.object \in Names /\ j \in TP!Job /\ j.type \in {"start", "verify", "stop"}
  BY DEF MayRun, TP!Job
<1>4. PICK X : \A j : j \in X <=> j \in TP!Closure(FALSE) /\ (j.type = "start" => j.object \in Doubtful)
  <2>1. \A j : j \in {i \in TP!Closure(FALSE) : i.type = "start" => i.object \in Doubtful}
                  <=> j \in TP!Closure(FALSE) /\ (j.type = "start" => j.object \in Doubtful)
    OBVIOUS
  <2> QED BY <2>1
<1>5. graph \in [Names -> Seq(TP!Edge)]
  BY <1>1 DEF TP!TypeOK
<1>6. ASSUME NEW j \in TP!Closure(FALSE), NEW types, NEW a \in TP!AsksBy(j, types), a # objective,
             "AddStart" \notin types \/ j \in X
      PROVE  a \in X
  <2>1. PICK n \in Names : n = j.object
    BY <1>2, <1>3
  <2>2. PICK k \in TP!Serving(j), to \in Names :
           /\ k \in types
           /\ a = [object |-> to, type |-> TP!Demand[k].op]
           /\ k = "AddStart" => to \in Requires(j.object)
           /\ k = "AddStartNonreq" => to \in Says(j.object, "Wants") \cup Says(j.object, "Upholds")
    BY <1>1, <2>1, AskedIsSaid
  <2>3. a \in TP!Closure(FALSE)
    <3>1. a \in TP!Asks(j, FALSE)
      BY <1>2, <1>3, <1>5, TP!AsksSplit, TxConstants
    <3> QED BY <1>1, <3>1, TP!ClosureIsLeast, TxConstants
  <2>4. CASE TP!Demand[k].op # "start"
    BY <1>4, <2>2, <2>3, <2>4
  <2>5. CASE TP!Demand[k].op = "start"
    <3>1. to # DefaultName /\ k \in {"AddStart", "AddStartNonreq"}
      BY <1>1, <1>6, <2>2, <2>5, AskedTypes DEF TP!Serving
    <3>2. CASE k = "AddStartNonreq"
      <4>1. to \in Doubtful
        BY <2>1, <2>2, <3>1, <3>2, DoubtfulFacts
      <4> QED BY <1>4, <2>2, <2>3, <4>1
    <3>3. CASE k = "AddStart"
      <4>1. j.type = "start"
        BY <1>2, <1>3, <3>3 DEF TP!Serving, TP!Demand, TP!Starts
      <4>2. n \in Doubtful
        BY <1>4, <1>6, <2>1, <2>2, <3>3, <4>1
      <4>3. to \in Doubtful
        BY <2>1, <2>2, <3>1, <3>3, <4>2, DoubtfulFacts
      <4> QED BY <1>4, <2>2, <2>3, <4>3
    <3> QED BY <3>1, <3>2, <3>3
  <2> QED BY <2>4, <2>5
<1>7. ASSUME NEW j \in X, NEW a \in TP!Asks(j, FALSE), a # objective PROVE a \in X
  <2>1. PICK e \in TP!Range(graph[j.object]), k \in TP!Serving(j) :
           k \in e.type /\ a = [object |-> e.to, type |-> TP!Demand[k].op]
    BY DEF TP!Asks, TP!Asking, TP!Serving
  <2>2. a \in TP!AsksBy(j, DOMAIN TP!Demand)
    BY <2>1, TP!AsksByFacts, TxConstants DEF TP!Serving
  <2> QED BY <1>4, <1>6, <1>7, <2>2
<1>8. \A j \in TP!Closure(FALSE) :
         TP!AsksBy(j, DOMAIN TP!Demand \ TP!Requiring) \subseteq X \cup {objective}
  <2>1. "AddStart" \notin DOMAIN TP!Demand \ TP!Requiring
    BY DEF TP!Requiring
  <2> QED BY <1>6, <2>1
<1>9. TP!Loose \subseteq X
  BY <1>1, <1>7, <1>8, TP!LooseIsLeast, TxConstants
<1> QED BY <1>4, <1>9

(* So what the default unit requires, and what that requires, is aimed at. *)
LEMMA RequiredAreAims ==
    ASSUME GP!GraphInv, LoadedInv, ReadyInv, MakingInv, ReachInv, phase # "idle",
           NEW n \in Required \ Doubtful, NEW m \in {n} \cup Requires(n)
    PROVE  m \in Names /\ [object |-> m, type |-> "start"] \in TP!Aims
<1>1. ready /\ graph = TxEdges /\ TP!TypeOK /\ objective = [object |-> DefaultName, type |-> "start"]
  BY DEF ReachInv, MakingInv, TP!TxInv
<1>2. \A u \in Names : Requires(u) \subseteq Names
  BY SaidOfUnits DEF Requires
<1>3. graph \in [Names -> Seq(TP!Edge)]
  BY <1>1 DEF TP!TypeOK
<1>4. PICK X \in SUBSET Names : \A u : u \in X <=>
         u \in Names /\ (u \in Doubtful \/ [object |-> u, type |-> "start"] \in TP!Closure(FALSE))
  <2>1. {u \in Names : u \in Doubtful \/ [object |-> u, type |-> "start"] \in TP!Closure(FALSE)}
           \in SUBSET Names
    OBVIOUS
  <2> QED BY <2>1
<1>5. DefaultName \in X
  <2>1. objective \in TP!Closure(FALSE)
    BY <1>1, TP!ClosureIsLeast, TxConstants
  <2> QED BY <1>1, <1>4, <2>1, BootAssumption
<1>6. ASSUME NEW u \in X, NEW w \in Requires(u) PROVE w \in X
  <2>1. u \in Names /\ w \in Names
    BY <1>2
  <2>2. CASE u \in Doubtful
    BY <1>4, <1>5, <2>1, <2>2, DoubtfulFacts
  <2>3. CASE u \notin Doubtful
    <3>1. PICK j \in TP!Job : j = [object |-> u, type |-> "start"]
      BY <2>1 DEF TP!Job, TP!JobTypes
    <3>2. [object |-> w, type |-> "start"] \in TP!AsksBy(j, TP!Requiring)
      BY <1>1, <2>1, <3>1, RequiresAsks
    <3>3. [object |-> w, type |-> "start"] \in TP!Asks(j, FALSE)
      BY <1>3, <3>2, TP!AsksSplit, TxConstants
    <3>4. j \in TP!Closure(FALSE)
      BY <1>4, <2>3, <3>1
    <3>5. [object |-> w, type |-> "start"] \in TP!Closure(FALSE)
      BY <1>1, <3>3, <3>4, TP!ClosureIsLeast, TxConstants
    <3> QED BY <1>4, <2>1, <3>5
  <2> QED BY <2>2, <2>3
<1>7. n \in X
  BY <1>5, <1>6 DEF Required
<1>8. PICK j : j = [object |-> n, type |-> "start"]
  OBVIOUS
<1>9. j \in TP!Closure(FALSE) \ TP!Loose
  BY <1>4, <1>7, <1>8, LooseIsDoubtful
<1>10. CASE m = n
  BY <1>1, <1>7, <1>8, <1>9, <1>10, TP!FirmAreAims, TxConstants
<1>11. CASE m \in Requires(n)
  <2>1. [object |-> m, type |-> "start"] \in TP!AsksBy(j, TP!Requiring)
    BY <1>1, <1>7, <1>8, <1>11, RequiresAsks
  <2> QED BY <1>2, <1>7, <1>9, <1>11, <2>1 DEF TP!Aims
<1> QED BY <1>10, <1>11

(* There is a verify job only for a unit of which a unit says Requisite=. *)
LEMMA VerifiedIsSaid ==
    ASSUME GP!GraphInv, LoadedInv, ReadyInv, MakingInv, ReachInv, phase # "idle"
    PROVE  \A j \in TP!Closure(FALSE) :
              j.type = "verify" => \E u \in Names : j.object \in Says(u, "Requisite")
<1> DEFINE Fine(j) == j.type = "verify" => \E u \in Names : j.object \in Says(u, "Requisite")
<1>1. ready /\ graph = TxEdges /\ TP!TypeOK /\ objective = [object |-> DefaultName, type |-> "start"]
  BY DEF ReachInv, MakingInv, TP!TxInv
<1>2. PICK X : \A j : j \in X <=> j \in TP!Closure(FALSE) /\ Fine(j)
  <2>1. \A j : j \in {i \in TP!Closure(FALSE) : Fine(i)} <=> j \in TP!Closure(FALSE) /\ Fine(j)
    OBVIOUS
  <2> QED BY <2>1
<1>3. objective \in X
  BY <1>1, <1>2, TP!ClosureIsLeast, TxConstants
<1>4. ASSUME NEW j \in X, NEW a \in TP!Asks(j, FALSE) PROVE a \in X
  <2>1. j \in TP!Closure(FALSE) /\ a \in TP!Closure(FALSE)
    BY <1>1, <1>2, TP!ClosureIsLeast, TxConstants
  <2>2. PICK n \in Names : n = j.object
    BY <2>1, ReachedMayRun DEF MayRun, TP!Job
  <2>3. PICK e \in TP!Range(graph[j.object]), k \in TP!Serving(j) :
           k \in e.type /\ a = [object |-> e.to, type |-> TP!Demand[k].op]
    BY DEF TP!Asks, TP!Asking, TP!Serving
  <2>4. a \in TP!AsksBy(j, DOMAIN TP!Demand)
    BY <2>3, TP!AsksByFacts, TxConstants DEF TP!Serving
  <2>5. PICK d \in TP!Serving(j), to \in Names :
           /\ a = [object |-> to, type |-> TP!Demand[d].op]
           /\ d = "AddVerify" => to \in Says(j.object, "Requisite")
    BY <1>1, <2>2, <2>4, AskedIsSaid
  <2>6. TP!Demand[d].op = "verify" => d = "AddVerify"
    BY AskedTypes DEF TP!Serving
  <2>7. Fine(a)
    BY <2>2, <2>5, <2>6
  <2> QED BY <1>2, <2>1, <2>7
<1>5. TP!Closure(FALSE) \subseteq X
  BY <1>1, <1>3, <1>4, TP!ClosureIsLeast, TxConstants
<1> QED BY <1>2, <1>5

(***************************************************************************)
(* Loading, transaction generation and the scheduler work together: when   *)
(* main() exits the default unit has been started, with success unless a   *)
(* cycle was let pass, and so has what it and the units it requires        *)
(* Requires= or BindsTo=.  Excepted are the requirements of units that are *)
(* also wanted, and units of which a unit says Requisite=.                 *)
(***************************************************************************)
THEOREM RequiredIsUp == Spec => []RequiredUp
<1>1. /\ GP!GraphInv /\ LoadedInv /\ ReadyInv /\ MakingInv /\ ReachInv /\ RunsInv /\ MadeInv
      /\ CarriedOutAtExit
      => RequiredUp
  <2> SUFFICES ASSUME GP!GraphInv, LoadedInv, ReadyInv, MakingInv, ReachInv, RunsInv, MadeInv,
                      CarriedOutAtExit, exited,
                      NEW n \in Required \ Doubtful, NEW m \in {n} \cup Requires(n)
               PROVE  /\ \/ JobOf(m).type = "start"
                         \/ /\ JobOf(m).type = "verify"
                            /\ \E u \in Names : m \in Says(u, "Requisite")
                      /\ T!Acyclic => JobOf(m).state = "success"
    BY DEF RequiredUp
  <2>1. /\ phase = "done" /\ transactions # << >> /\ calls = << >>
        /\ TP!TxInv /\ TP!AimInv
    BY DEF MadeInv, MakingInv, TP!NeedsInv
  <2>2. m \in Names /\ [object |-> m, type |-> "start"] \in TP!Aims
    BY <2>1, RequiredAreAims
  <2>3. /\ JobOf(m).type \in {"none", "start", "verify", "stop"}
        /\ jobs[m] = IF JobOf(m).type = "none" THEN << >> ELSE <<JobOf(m).type>>
    BY <2>1, <2>2, OnlyJob
  <2>4. PICK type \in TP!JobTypes :
           /\ jobs[m] = <<type>> /\ type # "stop"
           /\ [object |-> m, type |-> type] \in TP!Closure(FALSE)
    <3>1. TP!AimsMet
      BY <2>1, TP!AimsGiven, TxConstants
    <3> QED BY <2>1, <2>2, <3>1 DEF TP!AimsMet
  <2>5. JobOf(m).type = type
    <3>1. JobOf(m).type # "none"
      <4>1. <<type>> # << >>
        OBVIOUS
      <4> QED BY <2>3, <2>4, <4>1
    <3>2. <<JobOf(m).type>> = <<type>>
      BY <2>3, <2>4, <3>1
    <3> QED BY <3>2
  <2>6. JobOf(m).type = "verify" => \E u \in Names : m \in Says(u, "Requisite")
    BY <2>1, <2>4, <2>5, VerifiedIsSaid
  <2>7. ASSUME T!Acyclic PROVE JobOf(m).state = "success"
    <3>1. JobOf(m).type # "none"
      BY <2>4, <2>5 DEF TP!JobTypes
    <3>2. ~crashed
      BY <2>1 DEF RunsInv, JP!RunInv, JP!WithinInv
    <3> QED BY <2>1, <2>2, <2>7, <3>1, <3>2
            DEF CarriedOutAtExit, J!CarriedOutOnReturn, J!InEventLoop, J!HasJob, J!Jobs, JobOf
  <2> QED BY <2>3, <2>4, <2>5, <2>6, <2>7
<1> QED BY <1>1, LoadInvariant, MakingInvariant, RunsInvariant, MadeInvariant, CarriedOutByExit, PTL
=============================================================================
