----------------------------- MODULE ObjectGraph ----------------------------
(***************************************************************************)
(* The Schedulable Object Graph (class Scheduler, scheduler/scheduler.cc)  *)
(* and the systemd manifest loader that fills it (lib/iwjs/sdloader.mjs).  *)
(*                                                                         *)
(* A name that is mentioned before it is loaded gets a placeholder object  *)
(* and a place in m_loadqueue.  Loading makes a new object for the unit,   *)
(* takes over the names that lead to it through symbolic links together    *)
(* with the edges other units have put there, and adds the unit's edges.   *)
(*                                                                         *)
(* Objects are numbered in the order they are made.  An Edge is never      *)
(* changed, so the pointers of edges_to are replaced by what they point to.*)
(* Each turn of the two loops of object_load() is an action of its own.    *)
(***************************************************************************)
EXTENDS Integers, Sequences, Functions, FiniteSetsExt, Lists

CONSTANTS
    Names,        \* unit names
    NameOrder,    \* their order in the std::map arguments of object_load()
    FileSystems,  \* the unit files there may be
    Scripts,      \* the units the start-up script may load, in order
    DefaultName   \* the unit that main() starts

(* The directives loadSystemdUnit() looks at, in its order. *)
depTypes == <<"Before", "After", "Requires", "Wants", "PartOf", "BindsTo", "Requisite",
              "Upholds", "Conflicts", "PropagatesReloadTo", "ReloadPropagatedFrom">>

EdgeKinds == {"AddStart", "AddStartNonreq", "AddVerify", "AddStop", "AddStopNonreq",
              "PropagatesStopTo", "PropagatesRestartTo", "PropagatesReloadTo",
              "StartOnStarted", "TryStartOnStarted", "StopOnStopped", "After", "Before"}

Edge == [owner : Names, type : SUBSET EdgeKinds, from : Names, to : Names]

(***************************************************************************)
(* What is at the path of a name: nothing that can be read, a regular file *)
(* with the units each directive names, or a symbolic link.                *)
(***************************************************************************)
Unit == [kind : {"missing", "file"}, deps : [Range(depTypes) -> SUBSET Names]]
          \cup [kind : {"link"}, to : Names]

ASSUME ObjectGraphAssumption ==
    /\ NameOrder \in Seq(Names)
    /\ \A n \in Names : \E k \in DOMAIN NameOrder : NameOrder[k] = n
    /\ FileSystems \subseteq [Names -> Unit]
    /\ Scripts \subseteq Seq(Names)
    /\ DefaultName \in Names

VARIABLES
    files,       \* the file system
    objects,     \* every object ever made
    m_aliases,   \* Scheduler::m_aliases: names to objects
    m_loadqueue, \* Scheduler::m_loadqueue
    to_bind,     \* object_load(): the names not yet bound to the new object
    to_add,      \* object_load(): the edges not yet added
    script,      \* the names the start-up script has still to load
    ready        \* main() has got hold of the object to start

vars == <<files, objects, m_aliases, m_loadqueue, to_bind, to_add, script, ready>>

Schedulable == [main_alias : Names, aliases : SUBSET Names, state : {"uninitialised", "offline"},
                edges : Seq(Edge), edges_to : Seq(Edge)]

TypeOK ==
    /\ files \in [Names -> Unit]
    /\ objects \in Seq(Schedulable)
    /\ DOMAIN m_aliases \subseteq Names
    /\ m_aliases \in [DOMAIN m_aliases -> DOMAIN objects]
    /\ m_loadqueue \in Seq(Names)
    /\ to_bind \in Seq(Names)
    /\ to_add \in Seq(Edge)
    /\ script \in Seq(Names)
    /\ ready \in BOOLEAN

(* No call of object_load() is under way. *)
Idle == to_bind = << >> /\ to_add = << >>

Init ==
    /\ files \in FileSystems
    /\ objects = << >>
    /\ m_aliases = [n \in {} |-> 0]
    /\ m_loadqueue = << >>
    /\ to_bind = << >>
    /\ to_add = << >>
    /\ script \in Scripts
    /\ ready = FALSE

-----------------------------------------------------------------------------
(* The manifest loader                                                     *)

dependencyToEdgeTypes ==
    [Before               |-> {"Before"},
     After                |-> {"After"},
     Requires             |-> {"AddStart", "StartOnStarted"},
     RequiredBy           |-> {"PropagatesStopTo", "PropagatesRestartTo"},
     Wants                |-> {"AddStartNonreq", "TryStartOnStarted"},
     WantedBy             |-> {},
     PartOf               |-> {},
     ConsistsOf           |-> {"PropagatesStopTo", "PropagatesRestartTo"},
     BindsTo              |-> {"AddStart", "StartOnStarted"},
     BoundBy              |-> {"StopOnStopped", "PropagatesStopTo", "PropagatesRestartTo"},
     Requisite            |-> {"AddVerify"},
     RequisiteOf          |-> {"PropagatesStopTo", "PropagatesRestartTo"},
     Upholds              |-> {"AddStartNonreq", "StartOnStarted"},
     UpheldBy             |-> {},
     Conflicts            |-> {"AddStop"},
     ConflictedBy         |-> {"AddStopNonreq"},
     PropagatesReloadTo   |-> {"PropagatesReloadTo"},
     ReloadPropagatedFrom |-> {}]

reverseDep ==
    [Before |-> "After", After |-> "Before", Requires |-> "RequiredBy",
     Wants |-> "WantedBy", PartOf |-> "ConsistsOf", BindsTo |-> "BoundBy",
     Requisite |-> "RequisiteOf", Upholds |-> "UpheldBy", Conflicts |-> "ConflictedBy",
     PropagatesReloadTo |-> "ReloadPropagatedFrom",
     ReloadPropagatedFrom |-> "PropagatesReloadTo"]

(* The bound get_symlinks() puts on the number of names. *)
MaxDepth == 9

(***************************************************************************)
(* get_symlinks(): the names from n along symbolic links, up to a file, to *)
(* something that cannot be read, or to the bound.                         *)
(***************************************************************************)
get_symlinks(n) ==
    LET follow == [m \in Names |-> IF files[m].kind = "link" THEN files[m].to ELSE m]
        walk[d \in 1 .. MaxDepth] == IF d = 1 THEN n ELSE follow[walk[d - 1]]
        ends == {d \in 1 .. MaxDepth : d = MaxDepth \/ files[walk[d]].kind # "link"}
    IN  [d \in 1 .. Min(ends) |-> walk[d]]

(* readSystemdUnit(): the file behind a name, if the links lead to one. *)
Fragment(n) == LET names == get_symlinks(n) IN files[names[Len(names)]]

Found(n) == Fragment(n).kind = "file"

(* The directives of a unit, as positions in depTypes, that name el. *)
Naming(unit, el) == {k \in DOMAIN depTypes : el \in unit.deps[depTypes[k]]}

(* Mutant: each assignment replaces the last, as for the edges to the unit. *)
edges_from_Replaces(unit, el) ==
    LET types(k) == dependencyToEdgeTypes[depTypes[k]]
        assigned == {k \in Naming(unit, el) : types(k) # {}}
    IN  UNION {types(k) : k \in {i \in assigned : \A j \in assigned : j <= i}}

(* loadSystemdUnit(): the types of the edge from the unit to el, all combined. *)
edges_from(unit, el) ==
    UNION {dependencyToEdgeTypes[depTypes[k]] : k \in Naming(unit, el)}

(* Those of the edge from el to the unit: each assignment replaces the last. *)
edges_to(unit, el) ==
    LET complement(k) == dependencyToEdgeTypes[reverseDep[depTypes[k]]]
        assigned      == {k \in Naming(unit, el) : complement(k) # {}}
    IN  UNION {complement(k) : k \in {i \in assigned : \A j \in assigned : j <= i}}

(* The directives that set edges_from, and those that set edges_to: the ones *)
(* that the two tables give a type other than 0.                             *)
FromDirectives == {"Before", "After", "Requires", "Wants", "BindsTo", "Requisite",
                   "Upholds", "Conflicts", "PropagatesReloadTo"}
ToDirectives   == {"Before", "After", "Requires", "PartOf", "BindsTo", "Requisite",
                   "Conflicts", "ReloadPropagatedFrom"}

(* The calls of edge_add() at the end of object_load(), for the unit called n. *)
EdgesOf(n, unit) ==
    LET From(el) == [owner |-> n, type |-> edges_from(unit, el), from |-> n, to |-> el]
        To(el)   == [owner |-> n, type |-> edges_to(unit, el), from |-> el, to |-> n]
        froms    == Filter(NameOrder, UNION {unit.deps[d] : d \in FromDirectives})
        tos      == Filter(NameOrder, UNION {unit.deps[d] : d \in ToDirectives})
    IN  [k \in DOMAIN froms |-> From(froms[k])] \o [k \in DOMAIN tos |-> To(tos[k])]

-----------------------------------------------------------------------------
(* The graph                                                               *)

NewObject(n, state) ==
    [main_alias |-> n, aliases |-> {n}, state |-> state, edges |-> << >>, edges_to |-> << >>]

Bind(n, o) == [m \in DOMAIN m_aliases \cup {n} |-> IF m = n THEN o ELSE m_aliases[m]]

(***************************************************************************)
(* loadSystemdUnit() as far as the making of the new object: a unit that   *)
(* cannot be read is left alone.                                           *)
(***************************************************************************)
object_load(n) ==
    \/ \E unit \in {Fragment(n)} :
          /\ unit.kind = "file"
          /\ objects' = Append(objects, NewObject(n, "offline"))
          /\ to_bind' = get_symlinks(n)
          /\ to_add' = EdgesOf(n, unit)
    \/ /\ ~Found(n)
       /\ UNCHANGED <<objects, to_bind, to_add>>

(* The start-up script calls loadSystemdUnit(). *)
script_load ==
    /\ Idle
    /\ script # << >>
    /\ object_load(Head(script))
    /\ script' = Tail(script)
    /\ UNCHANGED <<files, m_aliases, m_loadqueue, ready>>

(* Mutant: a unit that cannot be read is tried again later. *)
dispatch_load_queue_Retries ==
    /\ Idle
    /\ script = << >>
    /\ ~ready
    /\ m_loadqueue # << >>
    /\ object_load(Head(m_loadqueue))
    /\ m_loadqueue' = Tail(m_loadqueue) \o
                         (IF Found(Head(m_loadqueue)) THEN << >> ELSE <<Head(m_loadqueue)>>)
    /\ UNCHANGED <<files, m_aliases, script, ready>>

(* A turn of the loop of dispatch_load_queue(); nothing looks into the queue *)
(* between front() and pop().                                                *)
dispatch_load_queue ==
    /\ Idle
    /\ script = << >>
    /\ ~ready
    /\ m_loadqueue # << >>
    /\ object_load(Head(m_loadqueue))
    /\ m_loadqueue' = Tail(m_loadqueue)
    /\ UNCHANGED <<files, m_aliases, script, ready>>

(* Mutant: the loop over edges_to is forgotten. *)
object_remap_unowned_edges_FromOnly(old, new) ==
    LET own         == objects[old].aliases
        Owned(es)   == Filter(es, {e \in Range(es) : e.owner \in own})
        Unowned(es) == Filter(es, {e \in Range(es) : e.owner \notin own})
    IN  [objects EXCEPT ![new].edges = @ \o Unowned(objects[old].edges),
                        ![old].edges = Owned(@)]

(* Mutant: the loop over edges is forgotten. *)
object_remap_unowned_edges_ToOnly(old, new) ==
    LET own         == objects[old].aliases
        Owned(es)   == Filter(es, {e \in Range(es) : e.owner \in own})
        Unowned(es) == Filter(es, {e \in Range(es) : e.owner \notin own})
    IN  [objects EXCEPT ![new].edges_to = @ \o Unowned(objects[old].edges_to),
                        ![old].edges_to = Owned(@)]

(***************************************************************************)
(* object_remap_unowned_edges(): the edges of old that belong to other     *)
(* units go to new, those it owns under any of its names stay.             *)
(***************************************************************************)
object_remap_unowned_edges(old, new) ==
    LET own         == objects[old].aliases
        Owned(es)   == Filter(es, {e \in Range(es) : e.owner \in own})
        Unowned(es) == Filter(es, {e \in Range(es) : e.owner \notin own})
    IN  [objects EXCEPT
           ![new].edges    = @ \o Unowned(objects[old].edges),
           ![new].edges_to = @ \o Unowned(objects[old].edges_to),
           ![old].edges    = Owned(@),
           ![old].edges_to = Owned(@)]

(***************************************************************************)
(* A turn of the two loops of object_load() over the aliases.  The new     *)
(* object is the last one: placeholders are only made by the edges.        *)
(***************************************************************************)
bind_alias ==
    /\ to_bind # << >>
    /\ LET n      == Head(to_bind)
           new    == Len(objects)
           remapped == IF n \in DOMAIN m_aliases
                         THEN object_remap_unowned_edges(m_aliases[n], new) ELSE objects
       IN  /\ objects' = [remapped EXCEPT ![new].aliases = @ \cup {n}]
           /\ m_aliases' = Bind(n, new)
    /\ to_bind' = Tail(to_bind)
    /\ UNCHANGED <<files, m_loadqueue, to_add, script, ready>>

(* Scheduler::object_get() of a sequence of names: those that are not known. *)
Unknown(names) == Filter(names, Names \ DOMAIN m_aliases)

(* Mutant: the name is bound before the placeholder has been added. *)
object_get_BindsEarly(unknown) ==
    /\ m_loadqueue' = m_loadqueue \o unknown
    /\ m_aliases' = [n \in DOMAIN m_aliases \cup Range(unknown) |->
                        IF n \in DOMAIN m_aliases THEN m_aliases[n] ELSE Len(objects)]

(* Mutant: the name does not go to the load queue. *)
object_get_NotQueued(unknown) ==
    /\ m_aliases' = [n \in DOMAIN m_aliases \cup Range(unknown) |->
                        IF n \in DOMAIN m_aliases THEN m_aliases[n]
                        ELSE Len(objects) + 1]
    /\ UNCHANGED m_loadqueue

object_get(unknown) ==
    /\ m_loadqueue' = m_loadqueue \o unknown
    /\ m_aliases' = [n \in DOMAIN m_aliases \cup Range(unknown) |->
                        IF n \in DOMAIN m_aliases THEN m_aliases[n]
                        ELSE Len(objects) + 1]

(***************************************************************************)
(* Scheduler::edge_add() for the next edge.  One end is the unit being     *)
(* loaded, so at most one end is unknown and gets a placeholder.           *)
(***************************************************************************)
edge_add ==
    /\ to_bind = << >>
    /\ to_add # << >>
    /\ LET e       == Head(to_add)
           unknown == Unknown(IF e.from = e.owner THEN <<e.to>> ELSE <<e.from>>)
           objs    == objects \o [k \in DOMAIN unknown |->
                                     NewObject(unknown[k], "uninitialised")]
       IN  /\ object_get(unknown)
           /\ objects' = [o \in DOMAIN objs |->
                 [objs[o] EXCEPT
                    !.edges    = IF o = m_aliases'[e.from] THEN Append(@, e) ELSE @,
                    !.edges_to = IF o = m_aliases'[e.to] THEN Append(@, e) ELSE @]]
    /\ to_add' = Tail(to_add)
    /\ UNCHANGED <<files, to_bind, script, ready>>

(* main() asks for the object it is going to start, when the queue is empty. *)
main_object_get ==
    /\ Idle
    /\ script = << >>
    /\ m_loadqueue = << >>
    /\ ~ready
    /\ LET unknown == Unknown(<<DefaultName>>)
       IN  /\ object_get(unknown)
           /\ objects' = objects \o [k \in DOMAIN unknown |->
                                        NewObject(unknown[k], "uninitialised")]
    /\ ready' = TRUE
    /\ UNCHANGED <<files, to_bind, to_add, script>>

(* The graph does not change any more. *)
Loaded == ready /\ UNCHANGED vars

Step ==
    \/ script_load \/ dispatch_load_queue \/ bind_alias \/ edge_add \/ main_object_get

Next == Step \/ Loaded

Spec == Init /\ [][Next]_vars

FairSpec == Spec /\ WF_vars(Step)

-----------------------------------------------------------------------------
(* Properties                                                              *)

(* The objects some name leads to. *)
Live == Range(m_aliases)

(* All names an object goes by lead to it. *)
OneObjectPerUnit ==
    Idle => \A o \in Live : \A n \in objects[o].aliases : m_aliases[n] = o

(***************************************************************************)
(* The job scheduler waits along edges and wakes along edges_to: when an   *)
(* object is ordered after another, the list that other one wakes from     *)
(* leads back to it.                                                       *)
(***************************************************************************)
Wakes(p, o) ==
    \E e \in Range(objects[p].edges_to) : "After" \in e.type /\ m_aliases[e.from] = o

Mirrored ==
    \A o \in Live : \A e \in Range(objects[o].edges) :
        "After" \in e.type => e.to \in DOMAIN m_aliases /\ Wakes(m_aliases[e.to], o)

(* The two sides agree unless loading has split a unit into two objects. *)
MirroredUnlessSplit == Idle /\ OneObjectPerUnit => Mirrored

(***************************************************************************)
(* Whoever is mentioned is loaded: a name that leads to a placeholder has  *)
(* its turn in the load queue still to come, or cannot be read.            *)
(***************************************************************************)
PlaceholdersQueued ==
    \A n \in DOMAIN m_aliases : objects[m_aliases[n]].state = "uninitialised" =>
        n \in Range(m_loadqueue) \cup Range(to_bind) \/ ~Found(n)

(***************************************************************************)
(* Under each of its names, however often it was loaded, a unit has the    *)
(* edges its own directives give it.                                       *)
(***************************************************************************)
OwnDirectivesKept ==
    Idle => \A n \in DOMAIN m_aliases :
        LET unit == Fragment(n)
            o    == objects[m_aliases[n]]
        IN  o.state = "offline" =>
              \A k \in DOMAIN depTypes : \A el \in unit.deps[depTypes[k]] :
                 LET types == dependencyToEdgeTypes[depTypes[k]]
                 IN  types = {} \/ \E e \in Range(o.edges) : e.to = el /\ types \subseteq e.type

(* The directives after Before= that set the edge from the other unit again. *)
Replacing == {"After", "Requires", "PartOf", "BindsTo", "Requisite", "Conflicts",
              "ReloadPropagatedFrom"}

(***************************************************************************)
(* A unit that is Before= another one gives that one an edge to wait for,  *)
(* unless a later directive about it has replaced the edge in edges_to.    *)
(***************************************************************************)
BeforeReaches ==
    Idle /\ OneObjectPerUnit => \A n \in DOMAIN m_aliases :
        LET unit == Fragment(n)
        IN  objects[m_aliases[n]].state = "offline" =>
              \A el \in unit.deps["Before"] :
                 \/ \E d \in Replacing : el \in unit.deps[d]
                 \/ \E e \in Range(objects[m_aliases[el]].edges) :
                       "After" \in e.type /\ m_aliases[e.to] = m_aliases[n]

(* Loading comes to an end, whatever the units say about each other. *)
LoadingEnds == <>ready
=============================================================================
