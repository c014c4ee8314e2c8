------------------------- MODULE ObjectGraphProofs --------------------------
(***************************************************************************)
(* Proofs about ObjectGraph, for any unit files, start-up script and names *)
(* there may be: no name is forgotten, a unit keeps its own directives,    *)
(* and unless a unit is split into two objects the edges that the job      *)
(* scheduler wakes along mirror those it waits along.                      *)
(***************************************************************************)
EXTENDS ObjectGraph, ListsProofs

-----------------------------------------------------------------------------
(* The inductive invariant                                                 *)

(* The file at the end of the symbolic links from a name. *)
End(n) == LET names == get_symlinks(n) IN names[Len(names)]

(* The edges that object_load() adds for the unit called n. *)
Gives(n) == Range(EdgesOf(n, Fragment(n)))

(* The two lists of an object, and the end of an edge that a list is kept at. *)
Sides == {"from", "to"}

Held(i, side) == IF side = "from" THEN Range(objects[i].edges) ELSE Range(objects[i].edges_to)

AtEnd(e, side) == IF side = "from" THEN e.from ELSE e.to

IsLoaded(i) == objects[i].state = "offline"

Leads(n, i) == n \in DOMAIN m_aliases /\ m_aliases[n] = i

LeadsToLoaded(n) == n \in DOMAIN m_aliases /\ IsLoaded(m_aliases[n])

(***************************************************************************)
(* An object goes by every name that leads to it.  A placeholder has one   *)
(* name; a loaded object has the names on the way from its first one to    *)
(* the unit file, all of them once object_load() has bound them.           *)
(***************************************************************************)
NamesInv ==
    /\ \A n \in DOMAIN m_aliases : n \in objects[m_aliases[n]].aliases
    /\ \A i \in DOMAIN objects :
         LET o == objects[i]
         IN  /\ o.main_alias \in o.aliases
             /\ ~IsLoaded(i) => o.aliases = {o.main_alias}
             /\ IsLoaded(i) =>
                  /\ Found(o.main_alias)
                  /\ o.aliases \subseteq Range(get_symlinks(o.main_alias))
                  /\ (to_bind # << >> /\ i = Len(objects))
                       \/ Range(get_symlinks(o.main_alias)) \subseteq o.aliases

(***************************************************************************)
(* What a call of object_load() has still to do is for one object: the     *)
(* names on its way that do not lead to it yet, then its own edges.        *)
(***************************************************************************)
IsLoading(i) ==
    /\ IsLoaded(i)
    /\ LET main == objects[i].main_alias
       IN  /\ \A n \in Range(get_symlinks(main)) : Leads(n, i) <=> n \notin Range(to_bind)
           /\ Range(to_bind) \subseteq Range(get_symlinks(main))
           /\ Range(to_add) \subseteq Gives(main)
           /\ to_bind # << >> => i = Len(objects) /\ Range(to_add) = Gives(main)

LoadInv ==
    /\ IsInjective(to_bind)
    /\ Idle \/ \E i \in DOMAIN objects : IsLoading(i)

(***************************************************************************)
(* An edge in a list of an object was given by a unit that is loaded.  Its *)
(* end leads to the object or, when the unit there was loaded under        *)
(* another name, to the same file; the edges an object owns were put there *)
(* by its own loading, and edges of others lie only where a name leads.    *)
(***************************************************************************)
Sound(i, e, side) ==
    /\ e \in Gives(e.owner)
    /\ LeadsToLoaded(e.owner)
    /\ e.owner = AtEnd(e, side) => objects[i].main_alias = e.owner
    /\ e.owner \notin objects[i].aliases => i \in Live
    /\ ~IsLoaded(i) => AtEnd(e, side) = objects[i].main_alias /\ AtEnd(e, side) # e.owner
    /\ IsLoaded(i) => /\ LeadsToLoaded(AtEnd(e, side))
                      /\ End(AtEnd(e, side)) = End(objects[i].main_alias)

EdgeInv ==
    \A i \in DOMAIN objects : \A side \in Sides : \A e \in Held(i, side) : Sound(i, e, side)

(***************************************************************************)
(* The edges a loaded object was to get are there: at the object itself if *)
(* that end is one of its names, else somewhere.                           *)
(***************************************************************************)
Placed(i, e, side) ==
    /\ AtEnd(e, side) \in objects[i].aliases => e \in Held(i, side)
    /\ \E j \in DOMAIN objects : e \in Held(j, side)

PlacedInv ==
    \A i \in DOMAIN objects : IsLoaded(i) =>
        \A e \in Gives(objects[i].main_alias) :
            \/ IsLoading(i) /\ e \in Range(to_add)
            \/ \A side \in Sides : Placed(i, e, side)

GraphInv ==
    /\ TypeOK
    /\ PlaceholdersQueued
    /\ NamesInv
    /\ LoadInv
    /\ EdgeInv
    /\ PlacedInv

-----------------------------------------------------------------------------
(* Facts: symbolic links                                                   *)

(* W are the names from n, m of which are on the way to where n leads. *)
Walks(W, m, n) ==
    /\ W \in [1 .. MaxDepth -> Names]
    /\ m \in 1 .. MaxDepth
    /\ W[1] = n
    /\ \A d \in 1 .. MaxDepth - 1 :
         W[d + 1] = IF files[W[d]].kind = "link" THEN files[W[d]].to ELSE W[d]
    /\ m = MaxDepth \/ files[W[m]].kind # "link"
    /\ \A d \in 1 .. m - 1 : files[W[d]].kind = "link"

(* A function on names can be applied any number of times. *)
LEMMA NamesIterate ==
    ASSUME NEW k \in Nat, NEW n \in Names, NEW F \in [Names -> Names]
    PROVE  \E K \in [0 .. k -> Names] : K[0] = n /\ \A d \in 1 .. k : K[d] = F[K[d - 1]]
BY Iterates, SMTT(30), ZenonT(30)

(* get_symlinks() walks. *)
LEMMA SymlinksWalk ==
    ASSUME files \in [Names -> Unit], NEW n \in Names
    PROVE  \E W, m : Walks(W, m, n) /\ get_symlinks(n) = [d \in 1 .. m |-> W[d]]
<1> DEFINE follow == [x \in Names |-> IF files[x].kind = "link" THEN files[x].to ELSE x]
           Body(F) == [d \in 1 .. MaxDepth |-> IF d = 1 THEN n ELSE follow[F[d - 1]]]
           W == CHOOSE F : F = Body(F)
           ends == {d \in 1 .. MaxDepth : d = MaxDepth \/ files[W[d]].kind # "link"}
<1>1. get_symlinks(n) = [d \in 1 .. Min(ends) |-> W[d]]
  BY DEF get_symlinks
<1>2. follow \in [Names -> Names]
  <2>1. ASSUME NEW x \in Names, files[x].kind = "link" PROVE files[x].to \in Names
    <3>1. files[x] \in Unit
      OBVIOUS
    <3>2. CASE files[x] \in [kind : {"missing", "file"}, deps : [Range(depTypes) -> SUBSET Names]]
      BY <2>1, <3>2
    <3>3. CASE files[x] \in [kind : {"link"}, to : Names]
      BY <3>3
    <3> QED BY <3>1, <3>2, <3>3 DEF Unit
  <2> QED BY <2>1
<1>3. \A x \in Names : follow[x] = IF files[x].kind = "link" THEN files[x].to ELSE x
  OBVIOUS
<1> HIDE DEF follow
<1>4. PICK K \in [0 .. 8 -> Names] : K[0] = n /\ \A d \in 1 .. 8 : K[d] = follow[K[d - 1]]
  <2>1. PICK k \in Nat : k = 8
    OBVIOUS
  <2>2. \E K \in [0 .. k -> Names] : K[0] = n /\ \A d \in 1 .. k : K[d] = follow[K[d - 1]]
    BY <1>2, NamesIterate, Zenon
  <2> QED BY <2>1, <2>2
<1> DEFINE G == [d \in 1 .. MaxDepth |-> K[d - 1]]
<1>5. G = Body(G)
  <2>1. ASSUME NEW d \in 1 .. MaxDepth PROVE G[d] = Body(G)[d]
    <3>1. CASE d = 1
      BY <1>4, <3>1 DEF MaxDepth
    <3>2. CASE d # 1
      <4>1. d - 1 \in 1 .. 8 /\ d - 1 \in 1 .. MaxDepth
        BY <3>2 DEF MaxDepth
      <4>2. G[d - 1] = K[(d - 1) - 1] /\ G[d] = K[d - 1]
        BY <4>1
      <4> QED BY <1>4, <3>2, <4>1, <4>2
    <3> QED BY <3>1, <3>2
  <2> HIDE DEF G
  <2>2. G = [d \in 1 .. MaxDepth |-> G[d]]
    BY DEF G
  <2> QED BY <2>1, <2>2
<1>6. W = Body(W)
  BY <1>5
<1> HIDE DEF W
<1>7. \A d \in 1 .. MaxDepth : W[d] = IF d = 1 THEN n ELSE follow[W[d - 1]]
  BY <1>6
<1>8. W[1] = n /\ \A d \in 1 .. MaxDepth - 1 : W[d + 1] = follow[W[d]]
  <2>1. ASSUME NEW d \in 1 .. MaxDepth - 1 PROVE W[d + 1] = follow[W[d]]
    <3>1. d + 1 \in 1 .. MaxDepth /\ d + 1 # 1 /\ (d + 1) - 1 = d
      BY DEF MaxDepth
    <3> QED BY <1>7, <3>1
  <2> QED BY <1>7, <2>1 DEF MaxDepth
<1>9. W \in [1 .. MaxDepth -> Names]
  <2> DEFINE P == {k \in 0 .. 8 : W[k + 1] \in Names}
  <2>1. 0 \in P
    BY <1>8
  <2>2. ASSUME NEW k \in Nat, k < 8, k \in P PROVE k + 1 \in P
    <3>1. k + 1 \in 1 .. MaxDepth - 1
      BY <2>2 DEF MaxDepth
    <3>2. W[(k + 1) + 1] \in Names
      BY <1>2, <1>8, <2>2, <3>1
    <3> QED BY <2>2, <3>2
  <2> HIDE DEF P
  <2>3. 0 .. 8 \subseteq P
    BY <2>1, <2>2, UpTo
  <2>4. ASSUME NEW d \in 1 .. MaxDepth PROVE W[d] \in Names
    <3>1. d - 1 \in P /\ (d - 1) + 1 = d
      BY <2>3 DEF MaxDepth
    <3> QED BY <3>1 DEF P
  <2>5. W = [d \in 1 .. MaxDepth |-> W[d]]
    BY <1>6
  <2> QED BY <2>4, <2>5
<1> HIDE DEF Body, G
<1>10. ends \subseteq Nat /\ MaxDepth \in ends
  BY DEF MaxDepth
<1>11. PICK m \in ends : \A d \in ends : m <= d
  BY <1>10, LeastNat
<1>12. Min(ends) = m
  <2>1. Min(ends) \in ends /\ \A d \in ends : Min(ends) <= d
    BY <1>11 DEF Min
  <2> QED BY <1>10, <1>11, <2>1
<1>13. Walks(W, m, n)
  <2>1. m \in 1 .. MaxDepth /\ (m = MaxDepth \/ files[W[m]].kind # "link")
    OBVIOUS
  <2>2. ASSUME NEW d \in 1 .. m - 1 PROVE files[W[d]].kind = "link"
    <3>1. d \in 1 .. MaxDepth /\ d # MaxDepth /\ ~(m <= d)
      BY <2>1 DEF MaxDepth
    <3> QED BY <1>11, <3>1
  <2>3. ASSUME NEW d \in 1 .. MaxDepth - 1
        PROVE  W[d + 1] = IF files[W[d]].kind = "link" THEN files[W[d]].to ELSE W[d]
    <3>1. d \in 1 .. MaxDepth
      BY DEF MaxDepth
    <3> QED BY <1>3, <1>8, <1>9, <3>1
  <2> QED BY <1>8, <1>9, <2>1, <2>2, <2>3 DEF Walks
<1> QED BY <1>1, <1>12, <1>13

(* The names on the way from n: n is the first, and the last is where it ends. *)
LEMMA SymlinksFacts ==
    ASSUME files \in [Names -> Unit], NEW n \in Names
    PROVE  /\ get_symlinks(n) \in Seq(Names)
           /\ get_symlinks(n) # << >>
           /\ n \in Range(get_symlinks(n))
           /\ Range(get_symlinks(n)) \subseteq Names
           /\ End(n) \in Range(get_symlinks(n))
           /\ Fragment(n) = files[End(n)]
<1>1. PICK W, m : Walks(W, m, n) /\ get_symlinks(n) = [d \in 1 .. m |-> W[d]]
  BY SymlinksWalk
<1> DEFINE L == get_symlinks(n)
<1>2. m \in Nat \ {0} /\ 1 .. m \subseteq 1 .. MaxDepth /\ 1 \in 1 .. m /\ m \in 1 .. m
  BY <1>1 DEF Walks, MaxDepth
<1>3. DOMAIN L = 1 .. m /\ \A d \in 1 .. m : L[d] = W[d] /\ W[d] \in Names
  BY <1>1, <1>2 DEF Walks
<1>4. L \in Seq(Names) /\ Len(L) = m
  <2>1. L \in [1 .. m -> Names]
    BY <1>1, <1>3
  <2> HIDE DEF L
  <2>2. L \in Seq(Names)
    BY <1>2, <2>1, SeqDef
  <2> QED BY <1>2, <1>3, <2>2, LenProperties
<1>5. L[1] = n
  BY <1>1, <1>2, <1>3 DEF Walks
<1> HIDE DEF L
<1>6. L # << >>
  BY <1>2, <1>4, EmptySeq
<1>7. n \in Range(L) /\ Range(L) \subseteq Names /\ L[Len(L)] \in Range(L)
  BY <1>2, <1>3, <1>4, <1>5 DEF Range
<1>8. End(n) = L[Len(L)] /\ Fragment(n) = files[End(n)]
  BY DEF End, Fragment, L
<1> QED BY <1>4, <1>6, <1>7, <1>8 DEF L

(* On the way to a unit file no name comes twice. *)
LEMMA SymlinksDistinct ==
    ASSUME files \in [Names -> Unit], NEW n \in Names, Found(n)
    PROVE  IsInjective(get_symlinks(n))
<1>1. PICK W, m : Walks(W, m, n) /\ get_symlinks(n) = [d \in 1 .. m |-> W[d]]
  BY SymlinksWalk
<1>2. m \in 1 .. MaxDepth
  BY <1>1 DEF Walks
<1>3. files[W[m]].kind # "link"
  <2>1. Len(get_symlinks(n)) = m /\ get_symlinks(n)[m] = W[m]
    <3>1. m \in Nat /\ m \in 1 .. m
      BY <1>2 DEF MaxDepth
    <3>2. DOMAIN get_symlinks(n) = 1 .. m
      BY <1>1
    <3> QED BY <1>1, <3>1, <3>2, SymlinksFacts, LenProperties
  <2>2. Fragment(n) = files[W[m]]
    BY <2>1 DEF Fragment
  <2> QED BY <2>2 DEF Found
<1>4. ASSUME NEW j \in 1 .. m, NEW k \in 1 .. m, W[j] = W[k], j < k
      PROVE  FALSE
  <2> DEFINE P == {d \in 0 .. m - k : W[j + d] = W[k + d]}
  <2>1. 0 .. m - k \subseteq P
    <3>1. 0 \in P
      BY <1>2, <1>4 DEF MaxDepth
    <3>2. ASSUME NEW d \in Nat, d < m - k, d \in P PROVE d + 1 \in P
      <4>1. j + d \in 1 .. MaxDepth - 1 /\ k + d \in 1 .. MaxDepth - 1
        BY <1>2, <1>4, <3>2 DEF MaxDepth
      <4>2. W[j + d] = W[k + d] /\ d + 1 \in 0 .. m - k
        BY <1>2, <3>2 DEF MaxDepth
      <4>3. W[(j + d) + 1] = W[(k + d) + 1]
        BY <1>1, <4>1, <4>2 DEF Walks
      <4>4. (j + d) + 1 = j + (d + 1) /\ (k + d) + 1 = k + (d + 1)
        BY <4>1, <1>2
      <4> QED BY <4>2, <4>3, <4>4
    <3> HIDE DEF P
    <3>3. m - k \in Nat
      BY <1>2 DEF MaxDepth
    <3> QED BY <3>1, <3>2, <3>3, UpTo
  <2>2. W[j + (m - k)] = W[m]
    <3>1. m - k \in 0 .. m - k /\ k + (m - k) = m
      BY <1>2 DEF MaxDepth
    <3> QED BY <2>1, <3>1
  <2>3. j + (m - k) \in 1 .. m - 1
    BY <1>2, <1>4 DEF MaxDepth
  <2> QED BY <1>1, <1>3, <2>2, <2>3 DEF Walks
<1>5. ASSUME NEW j \in 1 .. m, NEW k \in 1 .. m, W[j] = W[k]
      PROVE  j = k
  <2>1. j \in Int /\ k \in Int
    OBVIOUS
  <2> QED BY <1>4, <1>5, <2>1
<1> QED BY <1>1, <1>5 DEF IsInjective

(* The names on the way to a unit file all lead there. *)
LEMMA SymlinksEnd ==
    ASSUME files \in [Names -> Unit], NEW n \in Names, Found(n),
           NEW x \in Range(get_symlinks(n))
    PROVE  /\ x \in Names
           /\ End(x) = End(n)
           /\ Fragment(x) = Fragment(n)
           /\ Found(x)
<1>1. PICK W, m : Walks(W, m, n) /\ get_symlinks(n) = [d \in 1 .. m |-> W[d]]
  BY SymlinksWalk
<1>2. x \in Names
  BY SymlinksFacts
<1>3. PICK V, k : Walks(V, k, x) /\ get_symlinks(x) = [d \in 1 .. k |-> V[d]]
  BY <1>2, SymlinksWalk
<1>4. m \in 1 .. MaxDepth /\ k \in 1 .. MaxDepth
  BY <1>1, <1>3 DEF Walks
<1>5. PICK j \in 1 .. m : W[j] = x
  BY <1>1 DEF Range
<1>6. ASSUME NEW W2, NEW m2, NEW y \in Names, Walks(W2, m2, y), get_symlinks(y) = [d \in 1 .. m2 |-> W2[d]]
      PROVE  End(y) = W2[m2]
  <2>1. m2 \in Nat /\ m2 \in 1 .. m2
    BY <1>6 DEF MaxDepth, Walks
  <2>2. DOMAIN get_symlinks(y) = 1 .. m2 /\ get_symlinks(y)[m2] = W2[m2]
    BY <1>6, <2>1
  <2>3. Len(get_symlinks(y)) = m2
    BY <2>1, <2>2, SymlinksFacts, LenProperties
  <2> QED BY <2>2, <2>3 DEF End
<1>7. End(n) = W[m] /\ End(x) = V[k]
  BY <1>1, <1>2, <1>3, <1>6
<1>8. files[W[m]].kind = "file"
  BY <1>7, SymlinksFacts DEF Found
<1> DEFINE P == {d \in 0 .. m - j : V[1 + d] = W[j + d]}
<1>9. 0 .. m - j \subseteq P
  <2>1. 0 \in P
    BY <1>3, <1>4, <1>5 DEF MaxDepth, Walks
  <2>2. ASSUME NEW d \in Nat, d < m - j, d \in P PROVE d + 1 \in P
    <3>1. j + d \in 1 .. MaxDepth - 1 /\ 1 + d \in 1 .. MaxDepth - 1
      BY <1>4, <2>2 DEF MaxDepth
    <3>2. V[1 + d] = W[j + d] /\ d + 1 \in 0 .. m - j
      BY <1>4, <2>2 DEF MaxDepth
    <3>3. V[(1 + d) + 1] = W[(j + d) + 1]
      BY <1>1, <1>3, <3>1, <3>2 DEF Walks
    <3>4. (j + d) + 1 = j + (d + 1) /\ (1 + d) + 1 = 1 + (d + 1)
      BY <3>1, <1>4
    <3> QED BY <3>2, <3>3, <3>4
  <2> HIDE DEF P
  <2>3. m - j \in Nat
    BY <1>4 DEF MaxDepth
  <2> QED BY <2>1, <2>2, <2>3, UpTo
<1>10. \A d \in 0 .. m - j : V[1 + d] = W[j + d]
  BY <1>9
<1> HIDE DEF P
<1>11. V[1 + (m - j)] = W[m]
  <2>1. m - j \in 0 .. m - j /\ j + (m - j) = m
    BY <1>4 DEF MaxDepth
  <2> QED BY <1>10, <2>1
<1>12. k = 1 + (m - j)
  <2>1. CASE k > 1 + (m - j)
    <3>1. 1 + (m - j) \in 1 .. k - 1
      BY <1>4, <2>1 DEF MaxDepth
    <3> QED BY <1>3, <1>8, <1>11, <3>1 DEF Walks
  <2>2. CASE k < 1 + (m - j)
    <3>1. k - 1 \in 0 .. m - j /\ j + (k - 1) \in 1 .. m - 1 /\ k # MaxDepth /\ 1 + (k - 1) = k
      BY <1>4, <2>2 DEF MaxDepth
    <3>2. V[k] = W[j + (k - 1)]
      BY <1>10, <3>1
    <3> QED BY <1>1, <1>3, <3>1, <3>2 DEF Walks
  <2> QED BY <1>4, <2>1, <2>2 DEF MaxDepth
<1>13. End(x) = End(n)
  BY <1>7, <1>11, <1>12
<1> QED BY <1>2, <1>13, SymlinksFacts DEF Found

-----------------------------------------------------------------------------
(* Facts: the edges of a unit                                              *)

(* Each directive stands for some types of edges. *)
LEMMA TypesOfEdges ==
    ASSUME NEW unit, NEW el
    PROVE  /\ edges_from(unit, el) \subseteq EdgeKinds
           /\ edges_to(unit, el) \subseteq EdgeKinds
<1>1. \A d \in Range(depTypes) : dependencyToEdgeTypes[d] \subseteq EdgeKinds
  BY DEF Range, depTypes, dependencyToEdgeTypes, EdgeKinds
<1>2. \A d \in Range(depTypes) : dependencyToEdgeTypes[reverseDep[d]] \subseteq EdgeKinds
  BY DEF Range, depTypes, dependencyToEdgeTypes, reverseDep, EdgeKinds
<1>3. \A k \in Naming(unit, el) : depTypes[k] \in Range(depTypes)
  BY DEF Naming, Range
<1>4. edges_from(unit, el) \subseteq EdgeKinds
  BY <1>1, <1>3 DEF edges_from
<1>5. edges_to(unit, el) \subseteq EdgeKinds
  <2>1. \A x \in edges_to(unit, el) : \E k \in Naming(unit, el) :
          x \in dependencyToEdgeTypes[reverseDep[depTypes[k]]]
    BY DEF edges_to
  <2> QED BY <1>2, <1>3, <2>1
<1> QED BY <1>4, <1>5

GivenFrom(n, unit, el) == [owner |-> n, type |-> edges_from(unit, el), from |-> n, to |-> el]

GivenTo(n, unit, el) == [owner |-> n, type |-> edges_to(unit, el), from |-> el, to |-> n]

(* The directives for which the tables have types are the listed ones. *)
LEMMA TablesGiveTypes ==
    ASSUME NEW k \in DOMAIN depTypes
    PROVE  /\ dependencyToEdgeTypes[depTypes[k]] # {} => depTypes[k] \in FromDirectives
           /\ dependencyToEdgeTypes[reverseDep[depTypes[k]]] # {} => depTypes[k] \in ToDirectives
<1>1. DOMAIN depTypes = 1 .. 11
  BY DEF depTypes
<1>2. k \in 1 .. 11
  BY <1>1
<1>3. \/ depTypes[k] \in FromDirectives
      \/ depTypes[k] = "PartOf" \/ depTypes[k] = "ReloadPropagatedFrom"
  BY <1>2 DEF depTypes, FromDirectives
<1>4. \/ depTypes[k] \in ToDirectives
      \/ depTypes[k] = "Wants" \/ depTypes[k] = "Upholds" \/ depTypes[k] = "PropagatesReloadTo"
  BY <1>2 DEF depTypes, ToDirectives
<1>5. dependencyToEdgeTypes["PartOf"] = {} /\ dependencyToEdgeTypes["ReloadPropagatedFrom"] = {}
  BY DEF dependencyToEdgeTypes
<1>6. /\ dependencyToEdgeTypes[reverseDep["Wants"]] = {}
      /\ dependencyToEdgeTypes[reverseDep["Upholds"]] = {}
      /\ dependencyToEdgeTypes[reverseDep["PropagatesReloadTo"]] = {}
  BY DEF dependencyToEdgeTypes, reverseDep
<1> QED BY <1>3, <1>4, <1>5, <1>6

(* Both kinds of edges of a unit, from it and to it. *)
LEMMA EdgesOfUnit ==
    ASSUME NEW unit, NEW n \in Names
    PROVE  /\ EdgesOf(n, unit) \in Seq(Edge)
           /\ \A el \in Names : edges_from(unit, el) # {} =>
                 GivenFrom(n, unit, el) \in Range(EdgesOf(n, unit))
           /\ \A el \in Names : edges_to(unit, el) # {} =>
                 GivenTo(n, unit, el) \in Range(EdgesOf(n, unit))
           /\ \A e \in Range(EdgesOf(n, unit)) :
                 \E el \in Names : e = GivenFrom(n, unit, el) \/ e = GivenTo(n, unit, el)
<1> DEFINE S == UNION {unit.deps[d] : d \in FromDirectives}
           T == UNION {unit.deps[d] : d \in ToDirectives}
           froms == Filter(NameOrder, S)
           tos == Filter(NameOrder, T)
           F == [k \in DOMAIN froms |-> GivenFrom(n, unit, froms[k])]
           G == [k \in DOMAIN tos |-> GivenTo(n, unit, tos[k])]
<1>1. EdgesOf(n, unit) = F \o G
  BY DEF EdgesOf, GivenFrom, GivenTo
<1>2. /\ NameOrder \in Seq(Names)
      /\ \A el \in Names : \E k \in DOMAIN NameOrder : NameOrder[k] = el
  BY ObjectGraphAssumption
<1> HIDE DEF S, T
<1>3. /\ froms \in Seq(Names)
      /\ \A el \in Names : el \in S => \E k \in DOMAIN froms : froms[k] = el
  <2>1. froms \in Seq(Names)
    BY <1>2, FilterFacts
  <2>2. \A k \in DOMAIN NameOrder : NameOrder[k] \in S =>
           \E j \in DOMAIN froms : froms[j] = NameOrder[k]
    BY <1>2, FilterFacts
  <2> QED BY <1>2, <2>1, <2>2
<1>4. /\ tos \in Seq(Names)
      /\ \A el \in Names : el \in T => \E k \in DOMAIN tos : tos[k] = el
  <2>1. tos \in Seq(Names)
    BY <1>2, FilterFacts
  <2>2. \A k \in DOMAIN NameOrder : NameOrder[k] \in T =>
           \E j \in DOMAIN tos : tos[j] = NameOrder[k]
    BY <1>2, FilterFacts
  <2> QED BY <1>2, <2>1, <2>2
<1> HIDE DEF froms, tos
<1>5. /\ \A el \in Names : edges_from(unit, el) # {} => el \in S
      /\ \A el \in Names : edges_to(unit, el) # {} => el \in T
  <2>1. ASSUME NEW el \in Names, edges_from(unit, el) # {} PROVE el \in S
    <3>1. PICK k \in Naming(unit, el) : dependencyToEdgeTypes[depTypes[k]] # {}
      BY <2>1 DEF edges_from
    <3>2. depTypes[k] \in FromDirectives /\ el \in unit.deps[depTypes[k]]
      BY <3>1, TablesGiveTypes DEF Naming
    <3> QED BY <3>2 DEF S
  <2>2. ASSUME NEW el \in Names, edges_to(unit, el) # {} PROVE el \in T
    <3>1. PICK k \in Naming(unit, el) : dependencyToEdgeTypes[reverseDep[depTypes[k]]] # {}
      BY <2>2 DEF edges_to
    <3>2. depTypes[k] \in ToDirectives /\ el \in unit.deps[depTypes[k]]
      BY <3>1, TablesGiveTypes DEF Naming
    <3> QED BY <3>2 DEF T
  <2> QED BY <2>1, <2>2
<1>5a. \A el \in Names : GivenFrom(n, unit, el) \in Edge /\ GivenTo(n, unit, el) \in Edge
  BY TypesOfEdges DEF GivenFrom, GivenTo, Edge
<1>6. F \in Seq(Edge)
  <2>1. Len(froms) \in Nat /\ DOMAIN froms = 1 .. Len(froms) /\ \A k \in DOMAIN froms : froms[k] \in Names
    BY <1>3, LenProperties, ElementOfSeq
  <2>2. F \in [1 .. Len(froms) -> Edge]
    BY <1>5a, <2>1
  <2> HIDE DEF F
  <2> QED BY <2>1, <2>2, SeqDef
<1>7. G \in Seq(Edge)
  <2>1. Len(tos) \in Nat /\ DOMAIN tos = 1 .. Len(tos) /\ \A k \in DOMAIN tos : tos[k] \in Names
    BY <1>4, LenProperties, ElementOfSeq
  <2>2. G \in [1 .. Len(tos) -> Edge]
    BY <1>5a, <2>1
  <2> HIDE DEF G
  <2> QED BY <2>1, <2>2, SeqDef
<1>8. ASSUME NEW el \in Names, edges_from(unit, el) # {}
      PROVE  \E k \in DOMAIN F : F[k] = GivenFrom(n, unit, el)
  BY <1>3, <1>5, <1>8
<1>9. ASSUME NEW el \in Names, edges_to(unit, el) # {}
      PROVE  \E k \in DOMAIN G : G[k] = GivenTo(n, unit, el)
  BY <1>4, <1>5, <1>9
<1>10. ASSUME NEW k \in DOMAIN F PROVE \E el \in Names : F[k] = GivenFrom(n, unit, el)
  <2>1. froms[k] \in Names
    BY <1>3, ElementOfSeq, LenProperties
  <2> QED BY <2>1
<1>11. ASSUME NEW k \in DOMAIN G PROVE \E el \in Names : G[k] = GivenTo(n, unit, el)
  <2>1. tos[k] \in Names
    BY <1>4, ElementOfSeq, LenProperties
  <2> QED BY <2>1
<1> HIDE DEF F, G
<1>12. Joins(F \o G, F, G, Edge)
  BY <1>6, <1>7, ConcatElements
<1>13. PICK c : c = F \o G
  OBVIOUS
<1>14. Joins(c, F, G, Edge) /\ EdgesOf(n, unit) = c
  BY <1>1, <1>12, <1>13
<1>15. ASSUME NEW e \in Range(c)
       PROVE  \E el \in Names : e = GivenFrom(n, unit, el) \/ e = GivenTo(n, unit, el)
  <2>1. PICK j \in DOMAIN c : c[j] = e
    BY DEF Range
  <2> QED BY <1>10, <1>11, <1>14, <2>1 DEF Joins
<1>16. ASSUME NEW el \in Names, edges_from(unit, el) # {}
       PROVE  GivenFrom(n, unit, el) \in Range(c)
  BY <1>8, <1>14, <1>16 DEF Joins, Range
<1>17. ASSUME NEW el \in Names, edges_to(unit, el) # {}
       PROVE  GivenTo(n, unit, el) \in Range(c)
  BY <1>9, <1>14, <1>17 DEF Joins, Range
<1> QED BY <1>14, <1>15, <1>16, <1>17 DEF Joins

(* The edges a unit gives, as what they are needed for below. *)
LEMMA GivesFacts ==
    ASSUME NEW n \in Names
    PROVE  /\ EdgesOf(n, Fragment(n)) \in Seq(Edge)
           /\ \A e \in Gives(n) : e \in Edge /\ e.owner = n /\ (e.from = n \/ e.to = n)
<1>1. EdgesOf(n, Fragment(n)) \in Seq(Edge)
  BY EdgesOfUnit
<1>2. ASSUME NEW e \in Gives(n)
      PROVE  e \in Edge /\ e.owner = n /\ (e.from = n \/ e.to = n)
  <2>1. e \in Edge
    BY <1>1, LenProperties, ElementOfSeq DEF Gives, Range
  <2>2. PICK el \in Names : e = GivenFrom(n, Fragment(n), el) \/ e = GivenTo(n, Fragment(n), el)
    BY EdgesOfUnit DEF Gives
  <2> QED BY <2>1, <2>2 DEF GivenFrom, GivenTo
<1> QED BY <1>1, <1>2

-----------------------------------------------------------------------------
(* Facts: what the building blocks of the actions do, exactly              *)

(* The elements of a list after the operations the graph applies to lists. *)
LEMMA RangeFacts ==
    ASSUME NEW S, NEW s \in Seq(S)
    PROVE  /\ Range(s) \subseteq S
           /\ \A t \in Seq(S) : s \o t \in Seq(S) /\ Range(s \o t) = Range(s) \cup Range(t)
           /\ \A x \in S : Append(s, x) \in Seq(S) /\ Range(Append(s, x)) = Range(s) \cup {x}
           /\ \A T : /\ Filter(s, T) \in Seq(S)
                     /\ Range(Filter(s, T)) = Range(s) \cap T
           /\ s # << >> => /\ Head(s) \in S
                           /\ Tail(s) \in Seq(S)
                           /\ Range(s) = {Head(s)} \cup Range(Tail(s))
<1>1. Range(s) \subseteq S
  BY LenProperties, ElementOfSeq DEF Range
<1>2. ASSUME NEW t \in Seq(S)
      PROVE  s \o t \in Seq(S) /\ Range(s \o t) = Range(s) \cup Range(t)
  <2>1. Joins(s \o t, s, t, S)
    BY ConcatElements
  <2>2. PICK c : c = s \o t
    OBVIOUS
  <2>3. Joins(c, s, t, S)
    BY <2>1, <2>2
  <2>4. Range(c) = Range(s) \cup Range(t)
    BY <2>3 DEF Joins, Range
  <2>5. c \in Seq(S)
    BY <2>3 DEF Joins
  <2> QED BY <2>2, <2>4, <2>5
<1>3. ASSUME NEW x \in S
      PROVE  Append(s, x) \in Seq(S) /\ Range(Append(s, x)) = Range(s) \cup {x}
  <2>1. PICK c : c = Append(s, x)
    OBVIOUS
  <2>2. /\ c \in Seq(S)
        /\ DOMAIN c = DOMAIN s \cup {Len(s) + 1}
        /\ \A k \in DOMAIN s : c[k] = s[k]
        /\ c[Len(s) + 1] = x
    BY <2>1, AppendKeeps
  <2>3. Range(c) = Range(s) \cup {x}
    BY <2>2 DEF Range
  <2> QED BY <2>1, <2>2, <2>3
<1>4. ASSUME NEW T
      PROVE  Filter(s, T) \in Seq(S) /\ Range(Filter(s, T)) = Range(s) \cap T
  <2>1. PICK c : c = Filter(s, T)
    OBVIOUS
  <2>2. /\ c \in Seq(S)
        /\ \A k \in DOMAIN c : c[k] \in T /\ \E i \in DOMAIN s : s[i] = c[k]
        /\ \A i \in DOMAIN s : s[i] \in T => \E k \in DOMAIN c : c[k] = s[i]
    BY <2>1, FilterFacts
  <2>3. Range(c) = Range(s) \cap T
    BY <2>2 DEF Range
  <2> QED BY <2>1, <2>2, <2>3
<1>5. ASSUME s # << >>
      PROVE  /\ Head(s) \in S
             /\ Tail(s) \in Seq(S)
             /\ Range(s) = {Head(s)} \cup Range(Tail(s))
  <2>1. /\ Head(s) \in S
        /\ Tail(s) \in Seq(S)
        /\ Len(s) \in Nat \ {0}
        /\ DOMAIN s = 1 .. Len(s)
        /\ Head(s) = s[1]
        /\ \A k \in DOMAIN s : s[k] = Head(s) \/ \E j \in DOMAIN Tail(s) : Tail(s)[j] = s[k]
        /\ \A j \in DOMAIN Tail(s) : \E k \in DOMAIN s : s[k] = Tail(s)[j]
    BY <1>5, HeadTailElements
  <2>2. Head(s) \in Range(s)
    BY <2>1 DEF Range
  <2>3. Range(Tail(s)) \subseteq Range(s)
    BY <2>1 DEF Range
  <2>4. Range(s) \subseteq {Head(s)} \cup Range(Tail(s))
    BY <2>1 DEF Range
  <2> QED BY <2>1, <2>2, <2>3, <2>4
<1> QED BY <1>1, <1>2, <1>3, <1>4, <1>5

(* The objects there are. *)
LEMMA ObjectFacts ==
    ASSUME NEW objs \in Seq(Schedulable)
    PROVE  /\ Len(objs) \in Nat
           /\ DOMAIN objs = 1 .. Len(objs)
           /\ \A i \in DOMAIN objs :
                /\ objs[i] \in Schedulable
                /\ objs[i].main_alias \in Names
                /\ objs[i].aliases \subseteq Names
                /\ objs[i].edges \in Seq(Edge)
                /\ objs[i].edges_to \in Seq(Edge)
<1>1. Len(objs) \in Nat /\ DOMAIN objs = 1 .. Len(objs) /\ \A i \in DOMAIN objs : objs[i] \in Schedulable
  BY LenProperties, ElementOfSeq
<1>2. \A o \in Schedulable : /\ o.main_alias \in Names
                             /\ o.aliases \subseteq Names
                             /\ o.edges \in Seq(Edge)
                             /\ o.edges_to \in Seq(Edge)
  BY DEF Schedulable
<1> QED BY <1>1, <1>2

(* A new object, in either state. *)
LEMMA NewObjectFacts ==
    ASSUME NEW n \in Names, NEW state \in {"uninitialised", "offline"}
    PROVE  /\ NewObject(n, state) \in Schedulable
           /\ NewObject(n, state).main_alias = n
           /\ NewObject(n, state).aliases = {n}
           /\ NewObject(n, state).state = state
           /\ NewObject(n, state).edges = << >>
           /\ NewObject(n, state).edges_to = << >>
<1>1. << >> \in Seq(Edge)
  BY EmptySeq
<1> QED BY <1>1 DEF NewObject, Schedulable

(* Nothing of the objects there are changes, but for one that is new. *)
Made(objs, n, state) ==
    /\ objs \in Seq(Schedulable)
    /\ Len(objs) = Len(objects) + 1
    /\ DOMAIN objs = DOMAIN objects \cup {Len(objs)}
    /\ Len(objs) \notin DOMAIN objects
    /\ \A i \in DOMAIN objects : objs[i] = objects[i]
    /\ objs[Len(objs)] = NewObject(n, state)

(* A new object at the end of the list is all that changes. *)
LEMMA Making ==
    ASSUME objects \in Seq(Schedulable), NEW n \in Names, NEW state \in {"uninitialised", "offline"}
    PROVE  Made(Append(objects, NewObject(n, state)), n, state)
<1>1. PICK o \in Schedulable : o = NewObject(n, state)
  BY NewObjectFacts
<1>2. PICK objs : objs = Append(objects, o)
  OBVIOUS
<1>3. /\ objs \in Seq(Schedulable)
      /\ Len(objects) \in Nat
      /\ DOMAIN objs = DOMAIN objects \cup {Len(objects) + 1}
      /\ Len(objects) + 1 \notin DOMAIN objects
      /\ \A k \in DOMAIN objects : objs[k] = objects[k]
      /\ objs[Len(objects) + 1] = o
  BY <1>2, AppendKeeps
<1>4. Len(objs) = Len(objects) + 1
  BY <1>2, AppendProperties
<1>5. Made(objs, n, state)
  BY <1>1, <1>3, <1>4 DEF Made
<1> QED BY <1>1, <1>2, <1>5

(* object_load() makes an object if the name leads to a unit file. *)
LEMMA ObjectLoad ==
    ASSUME objects \in Seq(Schedulable), NEW n \in Names, object_load(n)
    PROVE  \/ /\ Found(n)
              /\ Made(objects', n, "offline")
              /\ to_bind' = get_symlinks(n)
              /\ to_add' = EdgesOf(n, Fragment(n))
           \/ /\ ~Found(n)
              /\ UNCHANGED <<objects, to_bind, to_add>>
<1>1. CASE ~Found(n) /\ UNCHANGED <<objects, to_bind, to_add>>
  BY <1>1
<1>2. CASE /\ Fragment(n).kind = "file"
           /\ objects' = Append(objects, NewObject(n, "offline"))
           /\ to_bind' = get_symlinks(n)
           /\ to_add' = EdgesOf(n, Fragment(n))
  <2>1. Made(Append(objects, NewObject(n, "offline")), n, "offline")
    BY Making
  <2>2. Made(objects', n, "offline")
    BY <1>2, <2>1
  <2> QED BY <1>2, <2>2 DEF Found
<1> QED BY <1>1, <1>2 DEF object_load

-----------------------------------------------------------------------------
(* What a turn of the loops over the aliases does: n leads to the new      *)
(* object, and the edges of the object it has led to that belong to others *)
(* go there.                                                               *)

Moved(n, side) ==
    IF n \in DOMAIN m_aliases
      THEN {e \in Held(m_aliases[n], side) : e.owner \notin objects[m_aliases[n]].aliases}
      ELSE {}

Bound(n, new) ==
    /\ objects' \in Seq(Schedulable)
    /\ Len(objects') = Len(objects)
    /\ DOMAIN objects' = DOMAIN objects
    /\ \A i \in DOMAIN objects :
         /\ objects'[i].main_alias = objects[i].main_alias
         /\ objects'[i].state = objects[i].state
         /\ objects'[i].aliases = objects[i].aliases \cup (IF i = new THEN {n} ELSE {})
         /\ \A side \in Sides :
              Held(i, side)' = IF i = new THEN Held(i, side) \cup Moved(n, side)
                               ELSE IF Leads(n, i) THEN Held(i, side) \ Moved(n, side)
                               ELSE Held(i, side)
    /\ DOMAIN m_aliases' = DOMAIN m_aliases \cup {n}
    /\ m_aliases'[n] = new
    /\ \A x \in DOMAIN m_aliases : x # n => m_aliases'[x] = m_aliases[x]
    /\ m_aliases' = [x \in DOMAIN m_aliases' |-> m_aliases'[x]]

(* bind_alias does that, for a name that does not lead to the new object yet. *)
LEMMA Binding ==
    ASSUME TypeOK, bind_alias,
           NEW n \in Names, n = Head(to_bind), NEW new \in DOMAIN objects, new = Len(objects),
           ~Leads(n, new)
    PROVE  Bound(n, new)
<1>1. /\ m_aliases' = Bind(n, new)
      /\ objects' = [(IF n \in DOMAIN m_aliases
                        THEN object_remap_unowned_edges(m_aliases[n], new) ELSE objects)
                       EXCEPT ![new].aliases = @ \cup {n}]
  BY DEF bind_alias
<1>2. /\ DOMAIN m_aliases' = DOMAIN m_aliases \cup {n}
      /\ m_aliases'[n] = new
      /\ \A x \in DOMAIN m_aliases : x # n => m_aliases'[x] = m_aliases[x]
      /\ m_aliases' = [x \in DOMAIN m_aliases' |-> m_aliases'[x]]
  BY <1>1 DEF Bind
<1>3. /\ objects \in Seq(Schedulable)
      /\ Len(objects) \in Nat
      /\ DOMAIN objects = 1 .. Len(objects)
      /\ \A i \in DOMAIN objects :
           /\ objects[i] \in Schedulable
           /\ objects[i].aliases \subseteq Names
           /\ objects[i].edges \in Seq(Edge)
           /\ objects[i].edges_to \in Seq(Edge)
  BY ObjectFacts DEF TypeOK
<1>4. /\ \A o \in Schedulable, al \in SUBSET Names : [o EXCEPT !.aliases = al] \in Schedulable
      /\ \A o \in Schedulable, es \in Seq(Edge), ts \in Seq(Edge) :
            [o EXCEPT !.edges = es, !.edges_to = ts] \in Schedulable
  BY DEF Schedulable
<1> DEFINE Good(objs) ==
             /\ objs \in Seq(Schedulable)
             /\ DOMAIN objs = DOMAIN objects
             /\ \A i \in DOMAIN objects :
                  /\ objs[i].main_alias = objects[i].main_alias
                  /\ objs[i].state = objects[i].state
                  /\ objs[i].aliases = objects[i].aliases
           HeldIn(objs, i, side) == IF side = "from" THEN Range(objs[i].edges) ELSE Range(objs[i].edges_to)
           Kept(objs) ==
             \A i \in DOMAIN objects : \A side \in Sides :
               HeldIn(objs, i, side) = IF i = new THEN Held(i, side) \cup Moved(n, side)
                                       ELSE IF Leads(n, i) THEN Held(i, side) \ Moved(n, side)
                                       ELSE Held(i, side)
<1>5. ASSUME NEW objs, Good(objs), Kept(objs), objects' = [objs EXCEPT ![new].aliases = @ \cup {n}]
      PROVE  Bound(n, new)
  <2>1. objs \in Seq(Schedulable) /\ DOMAIN objs = 1 .. Len(objects) /\ Len(objs) = Len(objects)
    BY <1>3, <1>5, LenProperties
  <2>2. objs[new] \in Schedulable /\ objs[new].aliases \cup {n} \in SUBSET Names
    BY <1>3, <1>5, <2>1, ObjectFacts
  <2>3. [objs[new] EXCEPT !.aliases = objs[new].aliases \cup {n}] \in Schedulable
    BY <1>4, <2>2
  <2>4. objects' = [objs EXCEPT ![new] = [objs[new] EXCEPT !.aliases = objs[new].aliases \cup {n}]]
    BY <1>5
  <2>5. objects' \in Seq(Schedulable) /\ Len(objects') = Len(objs) /\ DOMAIN objects' = DOMAIN objs
    BY <2>1, <2>3, <2>4, ExceptSeq, LenProperties
  <2>6. ASSUME NEW i \in DOMAIN objects
        PROVE  /\ objects'[i].main_alias = objs[i].main_alias
               /\ objects'[i].state = objs[i].state
               /\ objects'[i].aliases = objs[i].aliases \cup (IF i = new THEN {n} ELSE {})
               /\ objects'[i].edges = objs[i].edges
               /\ objects'[i].edges_to = objs[i].edges_to
    <3>1. i \in DOMAIN objs /\ new \in DOMAIN objs
      BY <1>5
    <3>2. CASE i = new
      BY <2>2, <2>4, <3>1, <3>2 DEF Schedulable
    <3>3. CASE i # new
      BY <2>4, <3>1, <3>3
    <3> QED BY <3>2, <3>3
  <2>7. ASSUME NEW i \in DOMAIN objects, NEW side \in Sides
        PROVE  Held(i, side)' = HeldIn(objs, i, side)
    BY <2>6 DEF Held
  <2>8. ASSUME NEW i \in DOMAIN objects
        PROVE  /\ objects'[i].main_alias = objects[i].main_alias
               /\ objects'[i].state = objects[i].state
               /\ objects'[i].aliases = objects[i].aliases \cup (IF i = new THEN {n} ELSE {})
    BY <1>5, <2>6
  <2>9. ASSUME NEW i \in DOMAIN objects, NEW side \in Sides
        PROVE  Held(i, side)' = IF i = new THEN Held(i, side) \cup Moved(n, side)
                                ELSE IF Leads(n, i) THEN Held(i, side) \ Moved(n, side)
                                ELSE Held(i, side)
    BY <1>5, <2>7
  <2>10. objects' \in Seq(Schedulable) /\ Len(objects') = Len(objects) /\ DOMAIN objects' = DOMAIN objects
    BY <1>5, <2>1, <2>5
  <2> HIDE DEF Good, Kept, HeldIn
  <2> QED BY <1>2, <2>8, <2>9, <2>10 DEF Bound
<1>6. CASE n \notin DOMAIN m_aliases
  <2>1. Good(objects)
    BY <1>3
  <2>2. Kept(objects)
    BY <1>6 DEF Held, Moved, Leads
  <2> QED BY <1>1, <1>5, <1>6, <2>1, <2>2
<1>7. CASE n \in DOMAIN m_aliases
  <2>1. PICK old \in DOMAIN objects : old = m_aliases[n] /\ old # new
    BY <1>7 DEF TypeOK, Leads
  <2> DEFINE own == objects[old].aliases
             Owned(es) == Filter(es, {e \in Range(es) : e.owner \in own})
             Unowned(es) == Filter(es, {e \in Range(es) : e.owner \notin own})
             newObject == [objects[new] EXCEPT !.edges = objects[new].edges \o Unowned(objects[old].edges),
                                               !.edges_to = objects[new].edges_to \o Unowned(objects[old].edges_to)]
             oldObject == [objects[old] EXCEPT !.edges = Owned(objects[old].edges),
                                               !.edges_to = Owned(objects[old].edges_to)]
             objs == object_remap_unowned_edges(old, new)
  <2>2. objs = [objects EXCEPT ![new] = newObject, ![old] = oldObject]
    BY <2>1 DEF object_remap_unowned_edges
  <2>3. ASSUME NEW es \in Seq(Edge), NEW fs \in Seq(Edge)
        PROVE  /\ Owned(es) \in Seq(Edge)
               /\ Unowned(es) \in Seq(Edge)
               /\ Range(Owned(es)) = {e \in Range(es) : e.owner \in own}
               /\ Range(Unowned(es)) = {e \in Range(es) : e.owner \notin own}
               /\ fs \o Unowned(es) \in Seq(Edge)
               /\ Range(fs \o Unowned(es)) = Range(fs) \cup {e \in Range(es) : e.owner \notin own}
    <3>1. /\ Owned(es) \in Seq(Edge)
          /\ Range(Owned(es)) = Range(es) \cap {e \in Range(es) : e.owner \in own}
      BY RangeFacts
    <3>2. /\ Unowned(es) \in Seq(Edge)
          /\ Range(Unowned(es)) = Range(es) \cap {e \in Range(es) : e.owner \notin own}
      BY RangeFacts
    <3> HIDE DEF Owned, Unowned
    <3>3. /\ fs \o Unowned(es) \in Seq(Edge)
          /\ Range(fs \o Unowned(es)) = Range(fs) \cup Range(Unowned(es))
      BY <3>2, RangeFacts
    <3> QED BY <3>1, <3>2, <3>3
  <2> HIDE DEF Owned, Unowned
  <2>4. newObject \in Schedulable /\ oldObject \in Schedulable
    BY <1>3, <1>4, <2>3
  <2>5. /\ newObject.main_alias = objects[new].main_alias
        /\ newObject.state = objects[new].state
        /\ newObject.aliases = objects[new].aliases
        /\ Range(newObject.edges) = Held(new, "from") \cup Moved(n, "from")
        /\ Range(newObject.edges_to) = Held(new, "to") \cup Moved(n, "to")
    BY <1>3, <1>7, <2>1, <2>3 DEF Held, Moved, Schedulable
  <2>6. /\ oldObject.main_alias = objects[old].main_alias
        /\ oldObject.state = objects[old].state
        /\ oldObject.aliases = objects[old].aliases
        /\ Range(oldObject.edges) = Held(old, "from") \ Moved(n, "from")
        /\ Range(oldObject.edges_to) = Held(old, "to") \ Moved(n, "to")
    BY <1>3, <1>7, <2>1, <2>3 DEF Held, Moved, Schedulable
  <2> HIDE DEF newObject, oldObject, objs
  <2>7. [objects EXCEPT ![new] = newObject] \in Seq(Schedulable)
    BY <1>3, <2>4, ExceptSeq
  <2>8. objs \in Seq(Schedulable) /\ DOMAIN objs = DOMAIN objects
    BY <1>3, <2>1, <2>2, <2>4, <2>7, ExceptSeq, LenProperties
  <2>9. /\ objs[new] = newObject
        /\ objs[old] = oldObject
        /\ \A i \in DOMAIN objects : i # new /\ i # old => objs[i] = objects[i]
    BY <2>1, <2>2
  <2>10. Good(objs)
    BY <2>5, <2>6, <2>8, <2>9
  <2>11. Kept(objs)
    <3> SUFFICES ASSUME NEW i \in DOMAIN objects, NEW side \in Sides
                 PROVE  HeldIn(objs, i, side) = IF i = new THEN Held(i, side) \cup Moved(n, side)
                                                ELSE IF Leads(n, i) THEN Held(i, side) \ Moved(n, side)
                                                ELSE Held(i, side)
      OBVIOUS
    <3>1. Leads(n, i) <=> i = old
      BY <1>7, <2>1 DEF Leads
    <3>2. CASE i = new
      BY <2>5, <2>9, <3>2 DEF Sides
    <3>3. CASE i = old
      BY <2>1, <2>6, <2>9, <3>1, <3>3 DEF Sides
    <3>4. CASE i # new /\ i # old
      BY <2>9, <3>1, <3>4 DEF Sides, Held
    <3> QED BY <3>2, <3>3, <3>4
  <2>12. objects' = [objs EXCEPT ![new].aliases = @ \cup {n}]
    BY <1>1, <1>7, <2>1 DEF objs
  <2> HIDE DEF Good, Kept
  <2> QED BY <1>5, <2>10, <2>11, <2>12
<1> QED BY <1>6, <1>7

-----------------------------------------------------------------------------
(* What asking for x does: if no name x is known there is now, and it is   *)
(* in the load queue.  The edges of A, at most one, are put at their ends. *)

Got(x, A) ==
    /\ objects' \in Seq(Schedulable)
    /\ \A n \in DOMAIN m_aliases : m_aliases'[n] = m_aliases[n]
    /\ m_aliases' = [n \in DOMAIN m_aliases' |-> m_aliases'[n]]
    /\ DOMAIN m_aliases' = DOMAIN m_aliases \cup {x}
    /\ DOMAIN objects \subseteq DOMAIN objects'
    /\ \A i \in DOMAIN objects :
         /\ objects'[i].main_alias = objects[i].main_alias
         /\ objects'[i].state = objects[i].state
         /\ objects'[i].aliases = objects[i].aliases
         /\ \A side \in Sides :
              Held(i, side)' = Held(i, side) \cup {e \in A : m_aliases'[AtEnd(e, side)] = i}
    /\ IF x \in DOMAIN m_aliases
         THEN DOMAIN objects' = DOMAIN objects /\ m_loadqueue' = m_loadqueue
         ELSE \E p : /\ p \notin DOMAIN objects
                     /\ DOMAIN objects' = DOMAIN objects \cup {p}
                     /\ m_aliases'[x] = p
                     /\ m_loadqueue' = Append(m_loadqueue, x)
                     /\ objects'[p].main_alias = x
                     /\ objects'[p].state = "uninitialised"
                     /\ objects'[p].aliases = {x}
                     /\ \A side \in Sides :
                          Held(p, side)' = {e \in A : m_aliases'[AtEnd(e, side)] = p}

(* What is not known of the one name asked for: nothing, or that name. *)
LEMMA UnknownFacts ==
    ASSUME NEW x \in Names
    PROVE  Unknown(<<x>>) = IF x \in DOMAIN m_aliases THEN << >> ELSE <<x>>
<1> DEFINE T == Names \ DOMAIN m_aliases
<1>1. PICK s : s = <<x>> /\ s \in Seq(Names) /\ Len(s) = 1 /\ DOMAIN s = {1} /\ s[1] = x
  <2>1. <<x>> \in Seq(Names) /\ Len(<<x>>) = 1 /\ <<x>>[1] = x
    OBVIOUS
  <2>2. DOMAIN <<x>> = {1}
    OBVIOUS
  <2> QED BY <2>1, <2>2
<1> HIDE DEF T
<1>2. PICK c : c = Filter(s, T)
  OBVIOUS
<1>3. /\ c \in Seq(Names)
      /\ Len(c) <= 1
      /\ \A k \in DOMAIN c : c[k] \in T /\ \E i \in DOMAIN s : s[i] = c[k]
      /\ \A i \in DOMAIN s : s[i] \in T => \E k \in DOMAIN c : c[k] = s[i]
  <2>1. s \in Seq(Names)
    BY <1>1
  <2>2. /\ Filter(s, T) \in Seq(Names)
        /\ Len(Filter(s, T)) <= Len(s)
        /\ \A k \in DOMAIN Filter(s, T) :
              Filter(s, T)[k] \in T /\ \E i \in DOMAIN s : s[i] = Filter(s, T)[k]
        /\ \A i \in DOMAIN s :
              s[i] \in T => \E k \in DOMAIN Filter(s, T) : Filter(s, T)[k] = s[i]
    BY <2>1, FilterFacts
  <2>3. Len(s) = 1
    BY <1>1
  <2> QED BY <1>2, <2>2, <2>3
<1>4. Len(c) \in Nat /\ DOMAIN c = 1 .. Len(c)
  BY <1>3, LenProperties
<1>5. CASE x \in DOMAIN m_aliases
  <2>1. DOMAIN c = {}
    BY <1>1, <1>3, <1>5 DEF T
  <2>2. Len(c) = 0
    BY <1>4, <2>1
  <2>3. c = << >>
    BY <1>3, <2>2, EmptySeq
  <2> QED BY <1>1, <1>2, <1>5, <2>3 DEF Unknown, T
<1>6. CASE x \notin DOMAIN m_aliases
  <2>1. \E k \in DOMAIN c : c[k] = x
    BY <1>1, <1>3, <1>6 DEF T
  <2>2. Len(c) = 1 /\ c[1] = x
    BY <1>3, <1>4, <2>1
  <2>3. c = s
    BY <1>1, <1>3, <2>2, SeqEqual
  <2> QED BY <1>1, <1>2, <1>6, <2>3 DEF Unknown, T
<1> QED BY <1>5, <1>6

(* Adding what is missing to the objects. *)
Asked(x, objs) ==
    /\ objs \in Seq(Schedulable)
    /\ \A n \in DOMAIN m_aliases : m_aliases'[n] = m_aliases[n]
    /\ m_aliases' = [n \in DOMAIN m_aliases' |-> m_aliases'[n]]
    /\ DOMAIN m_aliases' = DOMAIN m_aliases \cup {x}
    /\ IF x \in DOMAIN m_aliases
         THEN objs = objects /\ m_loadqueue' = m_loadqueue
         ELSE /\ Made(objs, x, "uninitialised")
              /\ m_aliases'[x] = Len(objs)
              /\ m_loadqueue' = Append(m_loadqueue, x)

(* object_get() for one name does that, with or without a placeholder. *)
LEMMA Asking ==
    ASSUME TypeOK, NEW x \in Names, object_get(Unknown(<<x>>))
    PROVE  Asked(x, objects \o [k \in DOMAIN Unknown(<<x>>) |->
                                   NewObject(Unknown(<<x>>)[k], "uninitialised")])
<1> DEFINE objs == objects \o [k \in DOMAIN Unknown(<<x>>) |->
                                  NewObject(Unknown(<<x>>)[k], "uninitialised")]
<1>1. /\ objects \in Seq(Schedulable)
      /\ m_loadqueue \in Seq(Names)
      /\ DOMAIN m_aliases \subseteq Names
      /\ m_aliases = [n \in DOMAIN m_aliases |-> m_aliases[n]]
  BY DEF TypeOK
<1>2. CASE x \in DOMAIN m_aliases
  <2>1. Unknown(<<x>>) = << >>
    BY <1>2, UnknownFacts
  <2>2. m_loadqueue' = m_loadqueue \o << >>
    BY <2>1 DEF object_get
  <2>3. m_loadqueue' = m_loadqueue
    BY <1>1, <2>2, ConcatEmptySeq
  <2>4. Range(Unknown(<<x>>)) = {}
    BY <2>1 DEF Range
  <2>5. m_aliases' = [n \in DOMAIN m_aliases |-> m_aliases[n]]
    BY <2>4 DEF object_get
  <2>6. [k \in DOMAIN Unknown(<<x>>) |-> NewObject(Unknown(<<x>>)[k], "uninitialised")] = << >>
    BY <2>1
  <2>7. objs = objects
    BY <1>1, <2>6, ConcatEmptySeq
  <2> HIDE DEF objs
  <2>8. Asked(x, objs)
    BY <1>1, <1>2, <2>3, <2>5, <2>7 DEF Asked
  <2> QED BY <2>8 DEF objs
<1>3. CASE x \notin DOMAIN m_aliases
  <2>1. Unknown(<<x>>) = <<x>>
    BY <1>3, UnknownFacts
  <2>2. m_loadqueue' = Append(m_loadqueue, x)
    <3>1. m_loadqueue' = m_loadqueue \o <<x>>
      BY <2>1 DEF object_get
    <3> QED BY <1>1, <3>1, AppendIsConcat
  <2>3. Range(Unknown(<<x>>)) = {x}
    BY <2>1 DEF Range
  <2>4. PICK o \in Schedulable : o = NewObject(x, "uninitialised")
    BY NewObjectFacts
  <2>5. [k \in DOMAIN Unknown(<<x>>) |-> NewObject(Unknown(<<x>>)[k], "uninitialised")] = <<o>>
    BY <2>1, <2>4
  <2>6. objs = Append(objects, o)
    BY <1>1, <2>5, AppendIsConcat
  <2> HIDE DEF objs
  <2>7. Made(objs, x, "uninitialised")
    BY <1>1, <2>4, <2>6, Making
  <2>8. m_aliases' = [n \in DOMAIN m_aliases \cup {x} |->
                         IF n \in DOMAIN m_aliases THEN m_aliases[n] ELSE Len(objects) + 1]
    BY <2>3 DEF object_get
  <2>9. Len(objs) = Len(objects) + 1
    BY <2>7 DEF Made
  <2>10. Asked(x, objs)
    BY <1>3, <2>2, <2>7, <2>8, <2>9 DEF Asked, Made
  <2> QED BY <2>10 DEF objs
<1> QED BY <1>2, <1>3

(* The edges of A are put at their ends, in both lists. *)
Adds(objs, A) ==
    /\ objects' \in Seq(Schedulable)
    /\ DOMAIN objects' = DOMAIN objs
    /\ \A i \in DOMAIN objs :
         /\ objects'[i].main_alias = objs[i].main_alias
         /\ objects'[i].state = objs[i].state
         /\ objects'[i].aliases = objs[i].aliases
         /\ Range(objects'[i].edges) =
              Range(objs[i].edges) \cup {e \in A : m_aliases'[e.from] = i}
         /\ Range(objects'[i].edges_to) =
              Range(objs[i].edges_to) \cup {e \in A : m_aliases'[e.to] = i}

(* Asking for a name and adding the edges is all that an action does. *)
LEMMA Getting ==
    ASSUME TypeOK, NEW x \in Names, NEW objs, Asked(x, objs), NEW A, Adds(objs, A)
    PROVE  Got(x, A)
<1>1. /\ \A n \in DOMAIN m_aliases : m_aliases'[n] = m_aliases[n]
      /\ m_aliases' = [n \in DOMAIN m_aliases' |-> m_aliases'[n]]
      /\ DOMAIN m_aliases' = DOMAIN m_aliases \cup {x}
      /\ objects' \in Seq(Schedulable)
  BY DEF Asked, Adds
<1>2. /\ DOMAIN objects \subseteq DOMAIN objs
      /\ \A i \in DOMAIN objects : objs[i] = objects[i]
  BY DEF Asked, Made
<1>3. DOMAIN objects' = DOMAIN objs
  BY DEF Adds
<1>4. ASSUME NEW i \in DOMAIN objects
      PROVE  /\ objects'[i].main_alias = objects[i].main_alias
             /\ objects'[i].state = objects[i].state
             /\ objects'[i].aliases = objects[i].aliases
             /\ \A side \in Sides :
                  Held(i, side)' = Held(i, side) \cup {e \in A : m_aliases'[AtEnd(e, side)] = i}
  <2>1. i \in DOMAIN objs /\ objs[i] = objects[i]
    BY <1>2
  <2>2. /\ Range(objects'[i].edges) =
             Range(objects[i].edges) \cup {e \in A : m_aliases'[e.from] = i}
        /\ Range(objects'[i].edges_to) =
             Range(objects[i].edges_to) \cup {e \in A : m_aliases'[e.to] = i}
    BY <2>1 DEF Adds
  <2>3. ASSUME NEW side \in Sides
        PROVE  Held(i, side)' = Held(i, side) \cup {e \in A : m_aliases'[AtEnd(e, side)] = i}
    <3>1. CASE side = "from"
      BY <2>2, <3>1 DEF Held, AtEnd
    <3>2. CASE side = "to"
      BY <2>2, <3>2 DEF Held, AtEnd
    <3> QED BY <3>1, <3>2 DEF Sides
  <2> QED BY <2>1, <2>3 DEF Adds
<1>5. CASE x \in DOMAIN m_aliases
  BY <1>1, <1>2, <1>3, <1>4, <1>5 DEF Got, Asked
<1>6. CASE x \notin DOMAIN m_aliases
  <2>1. Made(objs, x, "uninitialised") /\ m_aliases'[x] = Len(objs) /\ m_loadqueue' = Append(m_loadqueue, x)
    BY <1>6 DEF Asked
  <2>2. PICK p : p = Len(objs)
    OBVIOUS
  <2>3. /\ p \notin DOMAIN objects
        /\ DOMAIN objs = DOMAIN objects \cup {p}
        /\ objs[p] = NewObject(x, "uninitialised")
    BY <2>1, <2>2 DEF Made
  <2>4. /\ objects'[p].main_alias = x
        /\ objects'[p].state = "uninitialised"
        /\ objects'[p].aliases = {x}
        /\ Range(objects'[p].edges) = Range(<< >>) \cup {e \in A : m_aliases'[e.from] = p}
        /\ Range(objects'[p].edges_to) = Range(<< >>) \cup {e \in A : m_aliases'[e.to] = p}
    BY <2>3, NewObjectFacts DEF Adds
  <2>5. Range(<< >>) = {}
    BY DEF Range
  <2>6. ASSUME NEW side \in Sides
        PROVE  Held(p, side)' = {e \in A : m_aliases'[AtEnd(e, side)] = p}
    <3>1. CASE side = "from"
      BY <2>4, <2>5, <3>1 DEF Held, AtEnd
    <3>2. CASE side = "to"
      BY <2>4, <2>5, <3>2 DEF Held, AtEnd
    <3> QED BY <3>1, <3>2 DEF Sides
  <2>7. \E q : /\ q \notin DOMAIN objects
               /\ DOMAIN objects' = DOMAIN objects \cup {q}
               /\ m_aliases'[x] = q
               /\ m_loadqueue' = Append(m_loadqueue, x)
               /\ objects'[q].main_alias = x
               /\ objects'[q].state = "uninitialised"
               /\ objects'[q].aliases = {x}
               /\ \A side \in Sides :
                    Held(q, side)' = {e \in A : m_aliases'[AtEnd(e, side)] = q}
    BY <1>3, <2>1, <2>2, <2>3, <2>4, <2>6
  <2> QED BY <1>1, <1>2, <1>3, <1>4, <1>6, <2>7 DEF Got
<1> QED BY <1>5, <1>6

(* The end of an edge that is not the unit's own. *)
OtherEnd(e) == IF e.from = e.owner THEN e.to ELSE e.from

(* edge_add() asks for the other end and puts the edge in both lists. *)
LEMMA AddingEdge ==
    ASSUME TypeOK, edge_add, NEW e \in Edge, e = Head(to_add)
    PROVE  OtherEnd(e) \in Names /\ Got(OtherEnd(e), {e})
<1> DEFINE x == OtherEnd(e)
           unknown == Unknown(<<x>>)
           objs == objects \o [k \in DOMAIN unknown |-> NewObject(unknown[k], "uninitialised")]
<1>1. x \in Names
  BY DEF Edge, OtherEnd
<1>2. Unknown(IF e.from = e.owner THEN <<e.to>> ELSE <<e.from>>) = unknown
  BY DEF OtherEnd
<1>3. /\ object_get(unknown)
      /\ objects' = [o \in DOMAIN objs |->
            [objs[o] EXCEPT
               !.edges    = IF o = m_aliases'[e.from] THEN Append(@, e) ELSE @,
               !.edges_to = IF o = m_aliases'[e.to] THEN Append(@, e) ELSE @]]
  BY <1>2 DEF edge_add
<1> HIDE DEF x
<1>4. Asked(x, objs)
  BY <1>1, <1>3, Asking
<1> HIDE DEF objs, unknown
<1>5. objs \in Seq(Schedulable)
  BY <1>4 DEF Asked, TypeOK, Made
<1>6. /\ Len(objs) \in Nat
      /\ DOMAIN objs = 1 .. Len(objs)
      /\ \A i \in DOMAIN objs : /\ objs[i] \in Schedulable
                                /\ objs[i].edges \in Seq(Edge)
                                /\ objs[i].edges_to \in Seq(Edge)
  BY <1>5, ObjectFacts
<1>8. ASSUME NEW i \in DOMAIN objs
      PROVE  /\ objects'[i] \in Schedulable
             /\ objects'[i].main_alias = objs[i].main_alias
             /\ objects'[i].state = objs[i].state
             /\ objects'[i].aliases = objs[i].aliases
             /\ Range(objects'[i].edges) =
                  Range(objs[i].edges) \cup {d \in {e} : m_aliases'[d.from] = i}
             /\ Range(objects'[i].edges_to) =
                  Range(objs[i].edges_to) \cup {d \in {e} : m_aliases'[d.to] = i}
  <2>1. PICK es : es = IF i = m_aliases'[e.from] THEN Append(objs[i].edges, e) ELSE objs[i].edges
    OBVIOUS
  <2>2. PICK ts : ts = IF i = m_aliases'[e.to] THEN Append(objs[i].edges_to, e) ELSE objs[i].edges_to
    OBVIOUS
  <2>3. es \in Seq(Edge) /\ Range(es) = Range(objs[i].edges) \cup {d \in {e} : m_aliases'[d.from] = i}
    BY <1>6, <2>1, RangeFacts
  <2>4. ts \in Seq(Edge) /\ Range(ts) = Range(objs[i].edges_to) \cup {d \in {e} : m_aliases'[d.to] = i}
    BY <1>6, <2>2, RangeFacts
  <2>5. objects'[i] = [objs[i] EXCEPT !.edges = es, !.edges_to = ts]
    BY <1>3, <2>1, <2>2
  <2>6. /\ objects'[i] \in Schedulable
        /\ objects'[i].main_alias = objs[i].main_alias
        /\ objects'[i].state = objs[i].state
        /\ objects'[i].aliases = objs[i].aliases
        /\ objects'[i].edges = es
        /\ objects'[i].edges_to = ts
    BY <1>6, <2>3, <2>4, <2>5 DEF Schedulable
  <2> QED BY <2>3, <2>4, <2>6
<1>9. DOMAIN objects' = DOMAIN objs
  BY <1>3
<1>10. objects' \in Seq(Schedulable)
  <2>1. objects' = [i \in 1 .. Len(objs) |-> objects'[i]]
    BY <1>3, <1>6
  <2>2. objects' \in [1 .. Len(objs) -> Schedulable]
    BY <1>6, <1>8, <2>1
  <2> QED BY <1>6, <2>2, SeqDef
<1>11. Adds(objs, {e})
  BY <1>8, <1>9, <1>10 DEF Adds
<1> QED BY <1>1, <1>4, <1>11, Getting DEF x

(* main() asks for the unit it starts and adds no edge. *)
LEMMA GettingDefault ==
    ASSUME TypeOK, main_object_get
    PROVE  Got(DefaultName, {})
<1> DEFINE unknown == Unknown(<<DefaultName>>)
           objs == objects \o [k \in DOMAIN unknown |-> NewObject(unknown[k], "uninitialised")]
<1>1. DefaultName \in Names
  BY ObjectGraphAssumption
<1>2. object_get(unknown) /\ objects' = objs
  BY DEF main_object_get
<1>3. Asked(DefaultName, objs)
  BY <1>1, <1>2, Asking
<1> HIDE DEF unknown, objs
<1>4. objs \in Seq(Schedulable)
  BY <1>3 DEF Asked, TypeOK, Made
<1>5. Adds(objs, {})
  BY <1>2, <1>4 DEF Adds
<1> QED BY <1>1, <1>3, <1>5, Getting

-----------------------------------------------------------------------------
(* The steps preserve the invariant                                        *)

(* What is read from the file system does not change with the graph. *)
LEMMA Stable ==
    ASSUME UNCHANGED files, NEW n
    PROVE  /\ get_symlinks(n)' = get_symlinks(n)
           /\ Fragment(n)' = Fragment(n)
           /\ Found(n)' = Found(n)
           /\ End(n)' = End(n)
           /\ Gives(n)' = Gives(n)
<1>1. get_symlinks(n)' = get_symlinks(n)
  BY DEF get_symlinks
<1>2. Fragment(n)' = Fragment(n) /\ End(n)' = End(n)
  BY <1>1 DEF Fragment, End
<1> QED BY <1>1, <1>2 DEF Found, Gives

(* What the types say of the parts. *)
LEMMA GraphTypes ==
    ASSUME TypeOK
    PROVE  /\ files \in [Names -> Unit]
           /\ objects \in Seq(Schedulable)
           /\ \A i \in DOMAIN objects : /\ objects[i].main_alias \in Names
                                        /\ objects[i].aliases \subseteq Names
           /\ DOMAIN m_aliases \subseteq Names
           /\ \A n \in DOMAIN m_aliases : m_aliases[n] \in DOMAIN objects
           /\ \A i \in DOMAIN objects : \A side \in Sides : Held(i, side) \subseteq Edge
           /\ Range(to_add) \subseteq Edge
           /\ Range(to_bind) \subseteq Names
<1>1. ASSUME NEW i \in DOMAIN objects, NEW side \in Sides PROVE Held(i, side) \subseteq Edge
  BY ObjectFacts, RangeFacts DEF TypeOK, Held
<1>2. Range(to_add) \subseteq Edge /\ Range(to_bind) \subseteq Names
  BY RangeFacts DEF TypeOK
<1> QED BY <1>1, <1>2, ObjectFacts DEF TypeOK

(* A call of loadSystemdUnit() for n, which may be the front of the queue. *)
LEMMA LoadStep ==
    ASSUME GraphInv, Idle, UNCHANGED <<files, m_aliases>>,
           NEW n \in Names, object_load(n),
           m_loadqueue' \in Seq(Names), script' \in Seq(Names), ready' \in BOOLEAN,
           \A x \in Range(m_loadqueue) : x = n \/ x \in Range(m_loadqueue')
    PROVE  GraphInv'
<1>1. TypeOK /\ PlaceholdersQueued /\ NamesInv /\ LoadInv /\ EdgeInv /\ PlacedInv
  BY DEF GraphInv
<1>2. /\ files \in [Names -> Unit]
      /\ objects \in Seq(Schedulable)
      /\ DOMAIN m_aliases \subseteq Names
      /\ \A x \in DOMAIN m_aliases : m_aliases[x] \in DOMAIN objects
  BY <1>1, GraphTypes
<1>3. Range(to_bind) = {} /\ Range(to_add) = {} /\ to_bind = << >>
  BY DEF Idle, Range
<1>4. \A x : /\ get_symlinks(x)' = get_symlinks(x)
             /\ Found(x)' = Found(x)
             /\ End(x)' = End(x)
             /\ Gives(x)' = Gives(x)
  BY Stable
<1>5. CASE ~Found(n) /\ UNCHANGED <<objects, to_bind, to_add>>
  <2>1. TypeOK'
    BY <1>1, <1>5 DEF TypeOK
  <2>2. PlaceholdersQueued'
    <3> SUFFICES ASSUME NEW x \in DOMAIN m_aliases', objects'[m_aliases'[x]].state = "uninitialised"
                 PROVE  x \in Range(m_loadqueue') \cup Range(to_bind') \/ ~Found(x)'
      BY DEF PlaceholdersQueued
    <3>1. x \in Range(m_loadqueue) \/ ~Found(x)
      BY <1>1, <1>3, <1>5 DEF PlaceholdersQueued
    <3> QED BY <1>4, <1>5, <3>1
  <2>3. NamesInv' /\ LoadInv'
    BY <1>1, <1>4, <1>5 DEF NamesInv, LoadInv, Idle, IsLoaded
  <2>4. \A i, side : Held(i, side)' = Held(i, side)
    BY <1>5 DEF Held
  <2>5. EdgeInv'
    <3> SUFFICES ASSUME NEW i \in DOMAIN objects', NEW side \in Sides, NEW e \in Held(i, side)'
                 PROVE  Sound(i, e, side)'
      BY DEF EdgeInv
    <3>1. i \in DOMAIN objects /\ e \in Held(i, side)
      BY <1>5, <2>4
    <3>2. Sound(i, e, side)
      BY <1>1, <3>1 DEF EdgeInv
    <3> QED BY <1>4, <1>5, <3>2 DEF Sound, AtEnd, IsLoaded, LeadsToLoaded, Live
  <2>6. PlacedInv'
    <3> SUFFICES ASSUME NEW i \in DOMAIN objects', IsLoaded(i)', NEW e \in Gives(objects[i].main_alias)'
                 PROVE  \A side \in Sides : Placed(i, e, side)'
      BY DEF PlacedInv
    <3>1. i \in DOMAIN objects /\ IsLoaded(i) /\ e \in Gives(objects[i].main_alias)
      BY <1>4, <1>5 DEF IsLoaded
    <3>2. \A side \in Sides : Placed(i, e, side)
      BY <1>1, <1>3, <3>1 DEF PlacedInv
    <3> QED BY <1>5, <2>4, <3>2 DEF Placed
  <2> QED BY <2>1, <2>2, <2>3, <2>5, <2>6 DEF GraphInv
<1>6. CASE /\ Found(n)
           /\ Made(objects', n, "offline")
           /\ to_bind' = get_symlinks(n)
           /\ to_add' = EdgesOf(n, Fragment(n))
  <2>1. PICK new : new = Len(objects')
    OBVIOUS
  <2>2. /\ objects' \in Seq(Schedulable)
        /\ DOMAIN objects' = DOMAIN objects \cup {new}
        /\ new \notin DOMAIN objects
        /\ \A i \in DOMAIN objects : objects'[i] = objects[i]
        /\ objects'[new] = NewObject(n, "offline")
    BY <1>6, <2>1 DEF Made
  <2>3. /\ objects'[new].main_alias = n
        /\ objects'[new].aliases = {n}
        /\ objects'[new].state = "offline"
        /\ objects'[new].edges = << >>
        /\ objects'[new].edges_to = << >>
    BY <2>2, NewObjectFacts
  <2>4. /\ get_symlinks(n) \in Seq(Names)
        /\ get_symlinks(n) # << >>
        /\ n \in Range(get_symlinks(n))
        /\ IsInjective(get_symlinks(n))
    BY <1>2, <1>6, SymlinksFacts, SymlinksDistinct
  <2>5. Range(to_add') = Gives(n) /\ Range(to_bind') = Range(get_symlinks(n)) /\ to_bind' # << >>
    BY <1>6, <2>4 DEF Gives
  <2>6. /\ \A i \in DOMAIN objects : \A side : Held(i, side)' = Held(i, side)
        /\ \A side : Held(new, side)' = {}
    <3>1. Range(<< >>) = {}
      BY DEF Range
    <3>2. ASSUME NEW i \in DOMAIN objects, NEW side PROVE Held(i, side)' = Held(i, side)
      BY <2>2 DEF Held
    <3>3. ASSUME NEW side PROVE Held(new, side)' = {}
      BY <2>3, <3>1 DEF Held
    <3> QED BY <3>2, <3>3
  <2>7. /\ \A i \in DOMAIN objects : IsLoaded(i)' = IsLoaded(i)
        /\ IsLoaded(new)'
        /\ \A x : LeadsToLoaded(x)' = LeadsToLoaded(x)
        /\ Live' = Live
    BY <1>2, <2>2, <2>3 DEF IsLoaded, LeadsToLoaded, Live
  <2>8. TypeOK'
    <3>1. to_add' \in Seq(Edge) /\ to_bind' \in Seq(Names)
      BY <1>6, <2>4, GivesFacts
    <3>2. m_aliases' \in [DOMAIN m_aliases' -> DOMAIN objects'] /\ DOMAIN m_aliases' \subseteq Names
      BY <1>1, <2>2 DEF TypeOK
    <3> QED BY <1>1, <2>2, <3>1, <3>2 DEF TypeOK
  <2>9. PlaceholdersQueued'
    <3> SUFFICES ASSUME NEW x \in DOMAIN m_aliases', objects'[m_aliases'[x]].state = "uninitialised"
                 PROVE  x \in Range(m_loadqueue') \cup Range(to_bind') \/ ~Found(x)'
      BY DEF PlaceholdersQueued
    <3>1. objects[m_aliases[x]].state = "uninitialised" /\ x \in DOMAIN m_aliases
      BY <1>2, <2>2
    <3>2. x \in Range(m_loadqueue) \/ ~Found(x)
      BY <1>1, <1>3, <3>1 DEF PlaceholdersQueued
    <3> QED BY <1>4, <2>4, <2>5, <3>2
  <2>10. NamesInv'
    <3>1. \A x \in DOMAIN m_aliases' : x \in objects'[m_aliases'[x]].aliases
      BY <1>1, <1>2, <2>2 DEF NamesInv
    <3>2. ASSUME NEW i \in DOMAIN objects
          PROVE  /\ objects'[i].main_alias \in objects'[i].aliases
                 /\ ~IsLoaded(i)' => objects'[i].aliases = {objects'[i].main_alias}
                 /\ IsLoaded(i)' =>
                      /\ Found(objects[i].main_alias)'
                      /\ objects'[i].aliases \subseteq Range(get_symlinks(objects[i].main_alias)')
                      /\ Range(get_symlinks(objects[i].main_alias)') \subseteq objects'[i].aliases
      BY <1>1, <1>3, <1>4, <2>2, <2>7 DEF NamesInv
    <3>3. /\ objects'[new].main_alias \in objects'[new].aliases
          /\ Found(objects[new].main_alias)'
          /\ objects'[new].aliases \subseteq Range(get_symlinks(objects[new].main_alias)')
      BY <1>4, <1>6, <2>3, <2>4
    <3>4. ASSUME NEW i \in DOMAIN objects'
          PROVE  /\ objects'[i].main_alias \in objects'[i].aliases
                 /\ ~IsLoaded(i)' => objects'[i].aliases = {objects'[i].main_alias}
                 /\ IsLoaded(i)' =>
                      /\ Found(objects[i].main_alias)'
                      /\ objects'[i].aliases \subseteq Range(get_symlinks(objects[i].main_alias)')
                      /\ (to_bind' # << >> /\ i = Len(objects'))
                           \/ Range(get_symlinks(objects[i].main_alias)') \subseteq objects'[i].aliases
      <4>1. CASE i \in DOMAIN objects
        BY <3>2, <4>1
      <4>2. CASE i = new
        BY <2>1, <2>5, <2>7, <3>3, <4>2
      <4> QED BY <2>2, <4>1, <4>2
    <3> QED BY <3>1, <3>4 DEF NamesInv
  <2>11. IsLoading(new)'
    <3>1. \A x : ~Leads(x, new)'
      BY <1>2, <2>2 DEF Leads
    <3> QED BY <1>4, <2>1, <2>3, <2>5, <2>7, <3>1 DEF IsLoading
  <2>12. LoadInv'
    BY <1>6, <2>2, <2>4, <2>11 DEF LoadInv
  <2>13. EdgeInv'
    <3> SUFFICES ASSUME NEW i \in DOMAIN objects', NEW side \in Sides, NEW e \in Held(i, side)'
                 PROVE  Sound(i, e, side)'
      BY DEF EdgeInv
    <3>1. i \in DOMAIN objects /\ e \in Held(i, side)
      BY <2>2, <2>6
    <3>2. Sound(i, e, side)
      BY <1>1, <3>1 DEF EdgeInv
    <3>3. objects'[i] = objects[i] /\ IsLoaded(i)' = IsLoaded(i)
      BY <2>2, <2>7, <3>1
    <3> QED BY <1>4, <2>7, <3>2, <3>3 DEF Sound, AtEnd
  <2>14. PlacedInv'
    <3> SUFFICES ASSUME NEW i \in DOMAIN objects', IsLoaded(i)', NEW e \in Gives(objects[i].main_alias)'
                 PROVE  \/ IsLoading(i)' /\ e \in Range(to_add')
                        \/ \A side \in Sides : Placed(i, e, side)'
      BY DEF PlacedInv
    <3>1. CASE i = new
      BY <1>4, <2>3, <2>5, <2>11, <3>1
    <3>2. CASE i \in DOMAIN objects
      <4>1. IsLoaded(i) /\ e \in Gives(objects[i].main_alias) /\ objects'[i].aliases = objects[i].aliases
        BY <1>4, <2>2, <2>7, <3>2
      <4>2. \A side \in Sides : Placed(i, e, side)
        BY <1>1, <1>3, <3>2, <4>1 DEF PlacedInv
      <4>3. ASSUME NEW side \in Sides PROVE Placed(i, e, side)'
        <5>1. AtEnd(e, side) \in objects'[i].aliases => e \in Held(i, side)'
          BY <2>6, <3>2, <4>1, <4>2 DEF Placed
        <5>2. PICK j \in DOMAIN objects : e \in Held(j, side)
          BY <4>2 DEF Placed
        <5>3. j \in DOMAIN objects' /\ e \in Held(j, side)'
          BY <2>2, <2>6, <5>2
        <5> QED BY <5>1, <5>3 DEF Placed, AtEnd
      <4> QED BY <4>3
    <3> QED BY <2>2, <3>1, <3>2
  <2> QED BY <2>8, <2>9, <2>10, <2>12, <2>13, <2>14 DEF GraphInv
<1> QED BY <1>2, <1>5, <1>6, ObjectLoad

(* In a list without repetitions the head does not come again. *)
LEMMA HeadOnce ==
    ASSUME NEW S, NEW s \in Seq(S), s # << >>, IsInjective(s)
    PROVE  Head(s) \notin Range(Tail(s)) /\ IsInjective(Tail(s))
<1>1. /\ Tail(s) \in Seq(S)
      /\ Len(s) \in Nat \ {0}
      /\ DOMAIN s = 1 .. Len(s)
      /\ Head(s) = s[1]
      /\ Len(Tail(s)) = Len(s) - 1
  BY HeadTailElements
<1>2. /\ DOMAIN Tail(s) = 1 .. Len(Tail(s))
      /\ \A k \in 1 .. Len(Tail(s)) : Tail(s)[k] = s[k + 1]
  BY <1>1, HeadTailProperties, LenProperties
<1>3. \A k \in DOMAIN Tail(s) : k \in Int /\ k + 1 \in DOMAIN s /\ k + 1 # 1 /\ Tail(s)[k] = s[k + 1]
  BY <1>1, <1>2
<1>4. Head(s) \notin Range(Tail(s))
  BY <1>1, <1>3 DEF Range, IsInjective
<1>5. ASSUME NEW j \in DOMAIN Tail(s), NEW k \in DOMAIN Tail(s), Tail(s)[j] = Tail(s)[k]
      PROVE  j = k
  <2>1. j + 1 = k + 1
    BY <1>3, <1>5 DEF IsInjective
  <2> QED BY <1>3, <2>1
<1> QED BY <1>4, <1>5 DEF IsInjective

(* A turn of the loops over the aliases. *)
LEMMA BindStep ==
    ASSUME GraphInv, bind_alias
    PROVE  GraphInv'
<1>1. TypeOK /\ PlaceholdersQueued /\ NamesInv /\ LoadInv /\ EdgeInv /\ PlacedInv
  BY DEF GraphInv
<1>2. /\ files \in [Names -> Unit]
      /\ objects \in Seq(Schedulable)
      /\ DOMAIN m_aliases \subseteq Names
      /\ \A x \in DOMAIN m_aliases : m_aliases[x] \in DOMAIN objects
      /\ \A i \in DOMAIN objects : objects[i].main_alias \in Names
  BY <1>1, GraphTypes
<1>3. /\ to_bind # << >>
      /\ to_bind' = Tail(to_bind)
      /\ UNCHANGED <<files, m_loadqueue, to_add, script, ready>>
  BY DEF bind_alias
<1>4. \A x : /\ get_symlinks(x)' = get_symlinks(x)
             /\ Found(x)' = Found(x)
             /\ End(x)' = End(x)
             /\ Gives(x)' = Gives(x)
  BY <1>3, Stable
<1>5. PICK new \in DOMAIN objects : IsLoading(new)
  BY <1>1, <1>3 DEF LoadInv, Idle
<1>6. PICK n \in Names : n = Head(to_bind)
  BY <1>1, <1>3, RangeFacts DEF TypeOK
<1>7. /\ Range(to_bind) = {n} \cup Range(Tail(to_bind))
      /\ n \notin Range(Tail(to_bind))
      /\ IsInjective(Tail(to_bind))
      /\ Tail(to_bind) \in Seq(Names)
  BY <1>1, <1>3, <1>6, RangeFacts, HeadOnce DEF TypeOK, LoadInv
<1>8. PICK main \in Names : main = objects[new].main_alias
  BY <1>2
<1>9. /\ IsLoaded(new)
      /\ \A x \in Range(get_symlinks(main)) : Leads(x, new) <=> x \notin Range(to_bind)
      /\ Range(to_bind) \subseteq Range(get_symlinks(main))
      /\ Range(to_add) = Gives(main)
      /\ new = Len(objects)
  BY <1>3, <1>5, <1>8 DEF IsLoading
<1>10. ~Leads(n, new) /\ n \in Range(get_symlinks(main))
  BY <1>7, <1>9
<1>11. Bound(n, new)
  BY <1>1, <1>6, <1>9, <1>10, Binding
<1>12. /\ objects' \in Seq(Schedulable)
       /\ Len(objects') = Len(objects)
       /\ DOMAIN objects' = DOMAIN objects
       /\ DOMAIN m_aliases' = DOMAIN m_aliases \cup {n}
       /\ m_aliases'[n] = new
       /\ \A x \in DOMAIN m_aliases : x # n => m_aliases'[x] = m_aliases[x]
       /\ m_aliases' = [x \in DOMAIN m_aliases' |-> m_aliases'[x]]
  BY <1>11 DEF Bound
<1>13. \A i \in DOMAIN objects :
         /\ objects'[i].main_alias = objects[i].main_alias
         /\ objects'[i].state = objects[i].state
         /\ objects'[i].aliases = objects[i].aliases \cup (IF i = new THEN {n} ELSE {})
         /\ IsLoaded(i)' = IsLoaded(i)
  BY <1>11 DEF Bound, IsLoaded
<1>14. \A i \in DOMAIN objects : \A side \in Sides :
         Held(i, side)' = IF i = new THEN Held(i, side) \cup Moved(n, side)
                          ELSE IF Leads(n, i) THEN Held(i, side) \ Moved(n, side)
                          ELSE Held(i, side)
  BY <1>11 DEF Bound
<1>15. \A x : LeadsToLoaded(x) \/ x = n => LeadsToLoaded(x)'
  <2>1. ASSUME NEW x, LeadsToLoaded(x) \/ x = n PROVE LeadsToLoaded(x)'
    <3>1. CASE x = n
      BY <1>9, <1>12, <1>13, <3>1 DEF LeadsToLoaded, IsLoaded
    <3>2. CASE x # n
      <4>1. x \in DOMAIN m_aliases /\ IsLoaded(m_aliases[x]) /\ m_aliases'[x] = m_aliases[x]
        BY <1>12, <2>1, <3>2 DEF LeadsToLoaded
      <4>2. m_aliases[x] \in DOMAIN objects
        BY <1>2, <4>1
      <4> QED BY <1>12, <1>13, <4>1, <4>2 DEF LeadsToLoaded, IsLoaded
    <3> QED BY <3>1, <3>2
  <2> QED BY <2>1
<1>16. TypeOK'
  <2>1. \A x \in DOMAIN m_aliases' : m_aliases'[x] \in DOMAIN objects'
    BY <1>2, <1>12
  <2>2. m_aliases' \in [DOMAIN m_aliases' -> DOMAIN objects'] /\ DOMAIN m_aliases' \subseteq Names
    BY <1>2, <1>12, <2>1
  <2> QED BY <1>1, <1>3, <1>7, <1>12, <2>2 DEF TypeOK
<1>17. PlaceholdersQueued'
  <2> SUFFICES ASSUME NEW x \in DOMAIN m_aliases', objects'[m_aliases'[x]].state = "uninitialised"
               PROVE  x \in Range(m_loadqueue') \cup Range(to_bind') \/ ~Found(x)'
    BY DEF PlaceholdersQueued
  <2>1. x # n
    BY <1>9, <1>12, <1>13 DEF IsLoaded
  <2>2. x \in DOMAIN m_aliases /\ objects[m_aliases[x]].state = "uninitialised"
    BY <1>2, <1>12, <1>13, <2>1
  <2>3. x \in Range(m_loadqueue) \cup Range(to_bind) \/ ~Found(x)
    BY <1>1, <2>2 DEF PlaceholdersQueued
  <2> QED BY <1>3, <1>4, <1>7, <2>1, <2>3
<1>18. NamesInv'
  <2>1. ASSUME NEW x \in DOMAIN m_aliases' PROVE x \in objects'[m_aliases'[x]].aliases
    <3>1. CASE x = n
      BY <1>12, <1>13, <3>1
    <3>2. CASE x # n
      <4>1. x \in DOMAIN m_aliases /\ m_aliases'[x] = m_aliases[x] /\ m_aliases[x] \in DOMAIN objects
        BY <1>2, <1>12, <3>2
      <4>2. x \in objects[m_aliases[x]].aliases
        BY <1>1, <4>1 DEF NamesInv
      <4> QED BY <1>13, <4>1, <4>2
    <3> QED BY <3>1, <3>2
  <2>2. ASSUME NEW i \in DOMAIN objects'
        PROVE  /\ objects'[i].main_alias \in objects'[i].aliases
               /\ ~IsLoaded(i)' => objects'[i].aliases = {objects'[i].main_alias}
               /\ IsLoaded(i)' =>
                    /\ Found(objects[i].main_alias)'
                    /\ objects'[i].aliases \subseteq Range(get_symlinks(objects[i].main_alias)')
                    /\ (to_bind' # << >> /\ i = Len(objects'))
                         \/ Range(get_symlinks(objects[i].main_alias)') \subseteq objects'[i].aliases
    <3>1. i \in DOMAIN objects
      BY <1>12
    <3>2. /\ objects[i].main_alias \in objects[i].aliases
          /\ ~IsLoaded(i) => objects[i].aliases = {objects[i].main_alias}
          /\ IsLoaded(i) =>
               /\ Found(objects[i].main_alias)
               /\ objects[i].aliases \subseteq Range(get_symlinks(objects[i].main_alias))
               /\ (to_bind # << >> /\ i = Len(objects))
                    \/ Range(get_symlinks(objects[i].main_alias)) \subseteq objects[i].aliases
      BY <1>1, <3>1 DEF NamesInv
    <3>3. CASE i # new
      BY <1>4, <1>9, <1>13, <3>1, <3>2, <3>3
    <3>4. CASE i = new
      <4>1. /\ main \in objects'[i].aliases
            /\ Found(main)
            /\ objects'[i].aliases \subseteq Range(get_symlinks(main))
            /\ objects'[i].main_alias = main
        BY <1>8, <1>9, <1>10, <1>13, <3>2, <3>4
      <4>2. ASSUME to_bind' = << >>, NEW x \in Range(get_symlinks(main))
            PROVE  x \in objects'[i].aliases
        <5>1. CASE x \in Range(to_bind)
          <6>1. Range(Tail(to_bind)) = {}
            BY <1>3, <4>2 DEF Range
          <6> QED BY <1>7, <1>13, <3>1, <3>4, <5>1, <6>1
        <5>2. CASE x \notin Range(to_bind)
          <6>1. Leads(x, new)
            BY <1>9, <4>2, <5>2
          <6>2. x \in objects[new].aliases
            BY <1>1, <6>1 DEF Leads, NamesInv
          <6> QED BY <1>13, <3>1, <3>4, <6>2
        <5> QED BY <5>1, <5>2
      <4> QED BY <1>4, <1>9, <1>12, <1>13, <3>1, <3>4, <4>1, <4>2
    <3> QED BY <3>3, <3>4
  <2> QED BY <2>1, <2>2 DEF NamesInv
<1>19. IsLoading(new)'
  <2>1. ASSUME NEW x \in Range(get_symlinks(main))
        PROVE  Leads(x, new)' <=> x \notin Range(to_bind')
    <3>1. CASE x = n
      BY <1>3, <1>7, <1>12, <3>1 DEF Leads
    <3>2. CASE x # n
      <4>1. Leads(x, new)' <=> Leads(x, new)
        BY <1>12, <3>2 DEF Leads
      <4> QED BY <1>3, <1>7, <1>9, <2>1, <3>2, <4>1
    <3> QED BY <3>1, <3>2
  <2>2. Range(to_bind') \subseteq Range(get_symlinks(main))
    BY <1>3, <1>7, <1>9
  <2>3. objects'[new].main_alias = main
    BY <1>8, <1>13
  <2> QED BY <1>3, <1>4, <1>9, <1>12, <1>13, <2>1, <2>2, <2>3 DEF IsLoading
<1>20. LoadInv'
  BY <1>3, <1>7, <1>12, <1>19 DEF LoadInv
<1>21. EdgeInv'
  <2> SUFFICES ASSUME NEW i \in DOMAIN objects', NEW side \in Sides, NEW e \in Held(i, side)'
               PROVE  Sound(i, e, side)'
    BY DEF EdgeInv
  <2>1. i \in DOMAIN objects
    BY <1>12
  <2>2. CASE i = new /\ e \in Moved(n, side)
    <3>1. PICK old \in DOMAIN objects : Leads(n, old) /\ e \in Held(old, side) /\ e.owner \notin objects[old].aliases
      BY <1>2, <2>2 DEF Moved, Leads
    <3>2. Sound(old, e, side)
      BY <1>1, <3>1 DEF EdgeInv
    <3>3. /\ n \in objects[old].aliases
          /\ objects[old].main_alias \in objects[old].aliases
          /\ ~IsLoaded(old) => objects[old].aliases = {objects[old].main_alias}
          /\ IsLoaded(old) =>
               /\ Found(objects[old].main_alias)
               /\ objects[old].aliases \subseteq Range(get_symlinks(objects[old].main_alias))
      BY <1>1, <3>1 DEF NamesInv, Leads
    <3>4. e.owner # AtEnd(e, side)
      BY <3>1, <3>2, <3>3 DEF Sound
    <3>5. new \in Live'
      BY <1>12 DEF Live, Range
    <3>6. LeadsToLoaded(e.owner)'
      BY <1>15, <3>2 DEF Sound
    <3>7. Found(main)
      BY <1>1, <1>8, <1>9 DEF NamesInv
    <3>8. End(n) = End(main)
      BY <1>2, <1>10, <3>7, SymlinksEnd
    <3>9. LeadsToLoaded(AtEnd(e, side))' /\ End(AtEnd(e, side)) = End(main)
      <4>1. CASE IsLoaded(old)
        <5>1. LeadsToLoaded(AtEnd(e, side)) /\ End(AtEnd(e, side)) = End(objects[old].main_alias)
          BY <3>2, <4>1 DEF Sound
        <5>2. End(n) = End(objects[old].main_alias)
          BY <1>2, <3>3, <4>1, SymlinksEnd
        <5> QED BY <1>15, <3>8, <5>1, <5>2
      <4>2. CASE ~IsLoaded(old)
        <5>1. AtEnd(e, side) = n
          BY <3>2, <3>3, <4>2 DEF Sound
        <5> QED BY <1>15, <3>8, <5>1
      <4> QED BY <4>1, <4>2
    <3>10. IsLoaded(new)' /\ objects'[new].main_alias = main
      BY <1>8, <1>9, <1>13
    <3>11. e \in Gives(e.owner)
      BY <3>2 DEF Sound
    <3> QED BY <1>4, <2>2, <3>4, <3>5, <3>6, <3>9, <3>10, <3>11 DEF Sound, AtEnd
  <2>3. CASE e \in Held(i, side) /\ (Leads(n, i) => e \notin Moved(n, side))
    <3>1. Sound(i, e, side)
      BY <1>1, <2>1, <2>3 DEF EdgeInv
    <3>2. e.owner \notin objects'[i].aliases => i \in Live'
      <4> SUFFICES ASSUME e.owner \notin objects'[i].aliases PROVE i \in Live'
        OBVIOUS
      <4>1. PICK x : Leads(x, i)
        BY <1>13, <2>1, <3>1 DEF Sound, Live, Range, Leads
      <4>2. CASE x = n
        <5>1. e.owner \in objects[i].aliases
          BY <2>3, <4>1, <4>2 DEF Moved, Leads
        <5> QED BY <1>13, <2>1, <5>1
      <4>3. CASE x # n
        BY <1>12, <4>1, <4>3 DEF Leads, Live, Range
      <4> QED BY <4>2, <4>3
    <3>3. LeadsToLoaded(e.owner)' /\ (IsLoaded(i) => LeadsToLoaded(AtEnd(e, side))')
      BY <1>15, <3>1 DEF Sound
    <3>4. objects'[i].main_alias = objects[i].main_alias /\ IsLoaded(i)' = IsLoaded(i)
      BY <1>13, <2>1
    <3> QED BY <1>4, <3>1, <3>2, <3>3, <3>4 DEF Sound, AtEnd
  <2>4. \/ i = new /\ e \in Moved(n, side)
        \/ e \in Held(i, side) /\ (Leads(n, i) => e \notin Moved(n, side))
    BY <1>10, <1>14, <2>1
  <2> QED BY <2>2, <2>3, <2>4
<1>22. PlacedInv'
  <2> SUFFICES ASSUME NEW i \in DOMAIN objects', IsLoaded(i)', NEW e \in Gives(objects[i].main_alias)'
               PROVE  \/ IsLoading(i)' /\ e \in Range(to_add')
                      \/ \A side \in Sides : Placed(i, e, side)'
    BY DEF PlacedInv
  <2>1. i \in DOMAIN objects /\ IsLoaded(i) /\ e \in Gives(objects[i].main_alias)
    BY <1>4, <1>12, <1>13
  <2>2. CASE i = new
    BY <1>3, <1>8, <1>9, <1>19, <2>1, <2>2
  <2>3. CASE i # new
    <3>1. ~IsLoading(i)
      BY <1>3, <1>9, <2>3 DEF IsLoading
    <3>2. \A side \in Sides : Placed(i, e, side)
      BY <1>1, <2>1, <3>1 DEF PlacedInv
    <3>3. objects'[i].aliases = objects[i].aliases
      BY <1>13, <2>1, <2>3
    <3>4. e.owner \in objects[i].aliases
      BY <1>1, <1>2, <2>1, GivesFacts DEF NamesInv
    <3>5. ASSUME NEW side \in Sides PROVE Placed(i, e, side)'
      <4>1. AtEnd(e, side) \in objects'[i].aliases => e \in Held(i, side)'
        <5> SUFFICES ASSUME AtEnd(e, side) \in objects[i].aliases PROVE e \in Held(i, side)'
          BY <3>3
        <5>1. e \in Held(i, side)
          BY <3>2 DEF Placed
        <5>2. Leads(n, i) => e \notin Moved(n, side)
          BY <3>4 DEF Moved, Leads
        <5> QED BY <1>14, <2>1, <2>3, <5>1, <5>2
      <4>2. PICK j \in DOMAIN objects : e \in Held(j, side)
        BY <3>2 DEF Placed
      <4>3. e \in Held(j, side)' \/ e \in Held(new, side)'
        BY <1>14, <4>2
      <4> QED BY <1>12, <4>1, <4>2, <4>3 DEF Placed, AtEnd
    <3> QED BY <3>5
  <2> QED BY <2>2, <2>3
<1> QED BY <1>16, <1>17, <1>18, <1>20, <1>21, <1>22 DEF GraphInv

(* Asking for a name, and putting an edge of the unit being loaded at the  *)
(* ends it has: edge_add() and main()'s object_get().                      *)
LEMMA GetStep ==
    ASSUME GraphInv, to_bind = << >>, UNCHANGED <<files, to_bind, script>>,
           NEW x \in Names, NEW A, Got(x, A),
           to_add' \in Seq(Edge), Range(to_add) = A \cup Range(to_add'),
           \A e \in A : OtherEnd(e) = x,
           ready' \in BOOLEAN
    PROVE  GraphInv'
<1>1. TypeOK /\ PlaceholdersQueued /\ NamesInv /\ LoadInv /\ EdgeInv /\ PlacedInv
  BY DEF GraphInv
<1>2. /\ files \in [Names -> Unit]
      /\ DOMAIN m_aliases \subseteq Names
      /\ \A y \in DOMAIN m_aliases : m_aliases[y] \in DOMAIN objects
      /\ \A i \in DOMAIN objects : objects[i].main_alias \in Names
      /\ m_loadqueue \in Seq(Names) /\ script \in Seq(Names)
  BY <1>1, GraphTypes DEF TypeOK
<1>3. \A y : /\ get_symlinks(y)' = get_symlinks(y)
             /\ Found(y)' = Found(y)
             /\ End(y)' = End(y)
             /\ Gives(y)' = Gives(y)
  BY Stable
<1>4. /\ objects' \in Seq(Schedulable)
      /\ \A y \in DOMAIN m_aliases : m_aliases'[y] = m_aliases[y]
      /\ m_aliases' = [y \in DOMAIN m_aliases' |-> m_aliases'[y]]
      /\ DOMAIN m_aliases' = DOMAIN m_aliases \cup {x}
      /\ DOMAIN objects \subseteq DOMAIN objects'
  BY DEF Got
<1>5. \A i \in DOMAIN objects :
        /\ objects'[i].main_alias = objects[i].main_alias
        /\ objects'[i].aliases = objects[i].aliases
        /\ IsLoaded(i)' = IsLoaded(i)
        /\ \A side \in Sides :
             Held(i, side)' = Held(i, side) \cup {e \in A : m_aliases'[AtEnd(e, side)] = i}
  BY DEF Got, IsLoaded
<1>6. \A i \in DOMAIN objects' : i \notin DOMAIN objects =>
        /\ x \notin DOMAIN m_aliases
        /\ m_aliases'[x] = i
        /\ objects'[i].main_alias = x
        /\ objects'[i].aliases = {x}
        /\ ~IsLoaded(i)'
        /\ \A side \in Sides : Held(i, side)' = {e \in A : m_aliases'[AtEnd(e, side)] = i}
  <2> SUFFICES ASSUME NEW i \in DOMAIN objects', i \notin DOMAIN objects
               PROVE  /\ x \notin DOMAIN m_aliases
                      /\ m_aliases'[x] = i
                      /\ objects'[i].main_alias = x
                      /\ objects'[i].aliases = {x}
                      /\ ~IsLoaded(i)'
                      /\ \A side \in Sides : Held(i, side)' = {e \in A : m_aliases'[AtEnd(e, side)] = i}
    OBVIOUS
  <2>1. x \notin DOMAIN m_aliases
    BY DEF Got
  <2>2. PICK p : /\ DOMAIN objects' = DOMAIN objects \cup {p}
                 /\ m_aliases'[x] = p
                 /\ objects'[p].main_alias = x
                 /\ objects'[p].state = "uninitialised"
                 /\ objects'[p].aliases = {x}
                 /\ \A side \in Sides : Held(p, side)' = {e \in A : m_aliases'[AtEnd(e, side)] = p}
    BY <2>1 DEF Got
  <2>3. i = p
    BY <2>2
  <2> QED BY <2>1, <2>2, <2>3 DEF IsLoaded
<1>7. \/ x \in DOMAIN m_aliases /\ m_loadqueue' = m_loadqueue
      \/ /\ x \notin DOMAIN m_aliases
         /\ m_loadqueue' = Append(m_loadqueue, x)
         /\ m_aliases'[x] \in DOMAIN objects' /\ m_aliases'[x] \notin DOMAIN objects
  BY DEF Got
<1>8. /\ m_loadqueue' \in Seq(Names)
      /\ Range(m_loadqueue) \subseteq Range(m_loadqueue')
      /\ x \in DOMAIN m_aliases \/ x \in Range(m_loadqueue')
  <2>1. CASE x \in DOMAIN m_aliases /\ m_loadqueue' = m_loadqueue
    BY <1>2, <2>1
  <2>2. CASE m_loadqueue' = Append(m_loadqueue, x)
    <3>1. /\ Append(m_loadqueue, x) \in Seq(Names)
          /\ Range(Append(m_loadqueue, x)) = Range(m_loadqueue) \cup {x}
      BY <1>2, RangeFacts
    <3> QED BY <2>2, <3>1
  <2> QED BY <1>7, <2>1, <2>2
<1>9. \A y \in DOMAIN m_aliases' : m_aliases'[y] \in DOMAIN objects'
  BY <1>2, <1>4, <1>7
<1>10. /\ \A y, i : Leads(y, i) => Leads(y, i)'
       /\ \A y : LeadsToLoaded(y) => LeadsToLoaded(y)'
       /\ Live \subseteq Live'
  <2>1. \A y, i : Leads(y, i) => Leads(y, i)'
    BY <1>4 DEF Leads
  <2>2. ASSUME NEW y, LeadsToLoaded(y) PROVE LeadsToLoaded(y)'
    <3>1. y \in DOMAIN m_aliases /\ IsLoaded(m_aliases[y]) /\ m_aliases'[y] = m_aliases[y]
      BY <1>4, <2>2 DEF LeadsToLoaded
    <3> QED BY <1>2, <1>4, <1>5, <3>1 DEF LeadsToLoaded, IsLoaded
  <2>3. Live \subseteq Live'
    BY <1>4 DEF Live, Range
  <2> QED BY <2>1, <2>2, <2>3
<1>11. TypeOK'
  <2>1. m_aliases' \in [DOMAIN m_aliases' -> DOMAIN objects'] /\ DOMAIN m_aliases' \subseteq Names
    BY <1>2, <1>4, <1>9
  <2> QED BY <1>1, <1>4, <1>8, <2>1 DEF TypeOK
<1>12. PlaceholdersQueued'
  <2> SUFFICES ASSUME NEW y \in DOMAIN m_aliases', objects'[m_aliases'[y]].state = "uninitialised"
               PROVE  y \in Range(m_loadqueue') \cup Range(to_bind') \/ ~Found(y)'
    BY DEF PlaceholdersQueued
  <2>1. CASE y \in DOMAIN m_aliases
    <3>1. objects[m_aliases[y]].state = "uninitialised"
      BY <1>2, <1>4, <2>1 DEF Got
    <3>2. y \in Range(m_loadqueue) \cup Range(to_bind) \/ ~Found(y)
      BY <1>1, <2>1, <3>1 DEF PlaceholdersQueued
    <3> QED BY <1>3, <1>8, <3>2
  <2>2. CASE y \notin DOMAIN m_aliases
    BY <1>4, <1>8, <2>2
  <2> QED BY <2>1, <2>2
<1>13. NamesInv'
  <2>1. ASSUME NEW y \in DOMAIN m_aliases' PROVE y \in objects'[m_aliases'[y]].aliases
    <3>1. CASE y \in DOMAIN m_aliases
      BY <1>1, <1>2, <1>4, <1>5, <3>1 DEF NamesInv
    <3>2. CASE y \notin DOMAIN m_aliases
      BY <1>4, <1>6, <1>7, <3>2
    <3> QED BY <3>1, <3>2
  <2>2. ASSUME NEW i \in DOMAIN objects'
        PROVE  /\ objects'[i].main_alias \in objects'[i].aliases
               /\ ~IsLoaded(i)' => objects'[i].aliases = {objects'[i].main_alias}
               /\ IsLoaded(i)' =>
                    /\ Found(objects[i].main_alias)'
                    /\ objects'[i].aliases \subseteq Range(get_symlinks(objects[i].main_alias)')
                    /\ (to_bind' # << >> /\ i = Len(objects'))
                         \/ Range(get_symlinks(objects[i].main_alias)') \subseteq objects'[i].aliases
    <3>1. CASE i \in DOMAIN objects
      BY <1>1, <1>3, <1>5, <3>1 DEF NamesInv
    <3>2. CASE i \notin DOMAIN objects
      BY <1>6, <3>2
    <3> QED BY <3>1, <3>2
  <2> QED BY <2>1, <2>2 DEF NamesInv
<1>14. ASSUME NEW i \in DOMAIN objects, IsLoading(i)
       PROVE  /\ \A y \in Range(get_symlinks(objects[i].main_alias)) : Leads(y, i)
              /\ Leads(objects[i].main_alias, i)
              /\ IsLoaded(i)
              /\ Range(to_add) \subseteq Gives(objects[i].main_alias)
  <2>1. Range(to_bind) = {}
    BY DEF Range
  <2> QED BY <1>2, <1>14, <2>1, SymlinksFacts DEF IsLoading
<1>15. ASSUME NEW i \in DOMAIN objects, IsLoading(i)
       PROVE  IsLoading(i)'
  <2>1. PICK main \in Names : main = objects[i].main_alias
    BY <1>2
  <2>2. Range(to_bind') = {} /\ to_bind' = << >>
    BY DEF Range
  <2>3. IsLoaded(i)' /\ objects'[i].main_alias = main
    BY <1>5, <1>14, <1>15, <2>1
  <2>4. \A y \in Range(get_symlinks(main)) : Leads(y, i)'
    BY <1>10, <1>14, <1>15, <2>1
  <2>5. Range(to_add') \subseteq Gives(main)
    BY <1>14, <1>15, <2>1
  <2> QED BY <1>3, <2>2, <2>3, <2>4, <2>5 DEF IsLoading
<1>16. LoadInv'
  <2>1. CASE Idle
    <3>1. Range(to_add') = {}
      BY <2>1 DEF Idle, Range
    <3>2. Len(to_add') \in Nat /\ DOMAIN to_add' = 1 .. Len(to_add')
      BY LenProperties
    <3>3. \A k \in DOMAIN to_add' : FALSE
      BY <3>1 DEF Range
    <3>4. Len(to_add') = 0
      <4>1. PICK len \in Nat : len = Len(to_add')
        BY <3>2
      <4>2. 1 \in 1 .. len => FALSE
        BY <3>2, <3>3, <4>1
      <4> QED BY <4>1, <4>2
    <3>5. to_add' = << >>
      BY <3>4, EmptySeq
    <3> QED BY <1>1, <3>5 DEF Idle, LoadInv
  <2>2. CASE ~Idle
    <3>1. PICK i \in DOMAIN objects : IsLoading(i)
      BY <1>1, <2>2 DEF LoadInv
    <3> QED BY <1>1, <1>4, <1>15, <3>1 DEF LoadInv
  <2> QED BY <2>1, <2>2
<1>17. ASSUME NEW e \in A
       PROVE  \E c \in DOMAIN objects :
                 /\ e.owner = objects[c].main_alias
                 /\ e \in Gives(e.owner)
                 /\ Leads(e.owner, c)
                 /\ IsLoaded(c)
                 /\ \A side \in Sides : AtEnd(e, side) \in {e.owner, x}
  <2>1. e \in Range(to_add)
    BY <1>17
  <2>2. ~Idle
    BY <2>1 DEF Idle, Range
  <2>3. PICK c \in DOMAIN objects : IsLoading(c)
    BY <1>1, <2>2 DEF LoadInv
  <2>4. /\ e \in Gives(objects[c].main_alias)
        /\ Leads(objects[c].main_alias, c)
        /\ IsLoaded(c)
    BY <1>14, <2>1, <2>3
  <2>5. e.owner = objects[c].main_alias /\ (e.from = e.owner \/ e.to = e.owner)
    BY <1>2, <2>4, GivesFacts
  <2>6. OtherEnd(e) = x
    BY <1>17
  <2>7. \A side \in Sides : AtEnd(e, side) \in {e.owner, x}
    BY <2>5, <2>6 DEF Sides, AtEnd, OtherEnd
  <2> QED BY <2>4, <2>5, <2>7
<1>18. ASSUME NEW e \in A, NEW side \in Sides
       PROVE  AtEnd(e, side) \in DOMAIN m_aliases' /\ m_aliases'[AtEnd(e, side)] \in DOMAIN objects'
  BY <1>4, <1>9, <1>17, <1>18 DEF Leads
<1>19. ASSUME NEW i \in DOMAIN objects', NEW side \in Sides, NEW e \in A, m_aliases'[AtEnd(e, side)] = i
       PROVE  Sound(i, e, side)'
  <2>1. PICK c \in DOMAIN objects : /\ e.owner = objects[c].main_alias
                                    /\ e \in Gives(e.owner)
                                    /\ Leads(e.owner, c)
                                    /\ IsLoaded(c)
    BY <1>17
  <2>2. PICK y : y = AtEnd(e, side) /\ y \in DOMAIN m_aliases' /\ m_aliases'[y] = i
    BY <1>18, <1>19
  <2>3. LeadsToLoaded(e.owner)'
    BY <1>10, <2>1 DEF Leads, LeadsToLoaded
  <2>4. e.owner = y => i = c
    BY <1>4, <2>1, <2>2 DEF Leads
  <2>5. e.owner = y => objects'[i].main_alias = e.owner
    BY <1>5, <2>1, <2>4
  <2>6. i \in Live'
    BY <2>2 DEF Live, Range
  <2>7. /\ y \in objects'[i].aliases
        /\ ~IsLoaded(i)' => objects'[i].aliases = {objects'[i].main_alias}
        /\ IsLoaded(i)' =>
             /\ Found(objects'[i].main_alias)
             /\ objects'[i].aliases \subseteq Range(get_symlinks(objects'[i].main_alias))
    <3>1. y \in objects'[i].aliases
      BY <1>13, <2>2 DEF NamesInv
    <3>2. PICK main : main = objects'[i].main_alias
      OBVIOUS
    <3>3. /\ ~IsLoaded(i)' => objects'[i].aliases = {objects'[i].main_alias}
          /\ IsLoaded(i)' => /\ Found(main)'
                             /\ objects'[i].aliases \subseteq Range(get_symlinks(main)')
      BY <1>13, <3>2 DEF NamesInv
    <3> QED BY <1>3, <3>1, <3>2, <3>3
  <2>8. ~IsLoaded(i)' => y = objects'[i].main_alias /\ y # e.owner
    BY <1>5, <2>1, <2>4, <2>7
  <2>9. IsLoaded(i)' => LeadsToLoaded(y)' /\ End(y) = End(objects'[i].main_alias)
    <3> SUFFICES ASSUME IsLoaded(i)' PROVE LeadsToLoaded(y)' /\ End(y) = End(objects'[i].main_alias)
      OBVIOUS
    <3>1. i \in DOMAIN objects
      BY <1>6
    <3>2. objects'[i].main_alias \in Names
      BY <1>2, <1>5, <3>1
    <3>3. End(y) = End(objects'[i].main_alias)
      BY <1>2, <2>7, <3>2, SymlinksEnd
    <3>4. LeadsToLoaded(y)'
      BY <2>2 DEF LeadsToLoaded, IsLoaded
    <3> QED BY <3>3, <3>4
  <2> QED BY <1>3, <2>1, <2>2, <2>3, <2>5, <2>6, <2>8, <2>9 DEF Sound, AtEnd
<1>20. EdgeInv'
  <2> SUFFICES ASSUME NEW i \in DOMAIN objects', NEW side \in Sides, NEW e \in Held(i, side)'
               PROVE  Sound(i, e, side)'
    BY DEF EdgeInv
  <2>1. CASE e \in A /\ m_aliases'[AtEnd(e, side)] = i
    BY <1>19, <2>1
  <2>2. CASE i \in DOMAIN objects /\ e \in Held(i, side)
    <3>1. Sound(i, e, side)
      BY <1>1, <2>2 DEF EdgeInv
    <3>2. /\ objects'[i].main_alias = objects[i].main_alias
          /\ objects'[i].aliases = objects[i].aliases
          /\ IsLoaded(i)' = IsLoaded(i)
      BY <1>5, <2>2
    <3> QED BY <1>3, <1>10, <3>1, <3>2 DEF Sound, AtEnd
  <2> QED BY <1>5, <1>6, <2>1, <2>2
<1>21. PlacedInv'
  <2> SUFFICES ASSUME NEW i \in DOMAIN objects', IsLoaded(i)', NEW e \in Gives(objects[i].main_alias)'
               PROVE  \/ IsLoading(i)' /\ e \in Range(to_add')
                      \/ \A side \in Sides : Placed(i, e, side)'
    BY DEF PlacedInv
  <2>1. i \in DOMAIN objects
    BY <1>6
  <2>2. IsLoaded(i) /\ e \in Gives(objects[i].main_alias) /\ objects'[i].aliases = objects[i].aliases
    BY <1>3, <1>5, <2>1
  <2>3. CASE \A side \in Sides : Placed(i, e, side)
    <3>1. ASSUME NEW side \in Sides PROVE Placed(i, e, side)'
      <4>1. AtEnd(e, side) \in objects'[i].aliases => e \in Held(i, side)'
        BY <1>5, <2>1, <2>2, <2>3 DEF Placed
      <4>2. PICK j \in DOMAIN objects : e \in Held(j, side)
        BY <2>3 DEF Placed
      <4>3. j \in DOMAIN objects' /\ e \in Held(j, side)'
        BY <1>4, <1>5, <4>2
      <4> QED BY <4>1, <4>3 DEF Placed, AtEnd
    <3> QED BY <3>1
  <2>4. CASE IsLoading(i) /\ e \in A
    <3>1. ASSUME NEW side \in Sides PROVE Placed(i, e, side)'
      <4>1. AtEnd(e, side) \in objects'[i].aliases => e \in Held(i, side)'
        <5> SUFFICES ASSUME AtEnd(e, side) \in objects[i].aliases PROVE e \in Held(i, side)'
          BY <2>2
        <5>1. AtEnd(e, side) \in Range(get_symlinks(objects[i].main_alias))
          BY <1>1, <2>1, <2>2 DEF NamesInv
        <5>2. Leads(AtEnd(e, side), i)
          BY <1>14, <2>1, <2>4, <5>1
        <5>3. m_aliases'[AtEnd(e, side)] = i
          BY <1>4, <5>2 DEF Leads
        <5> QED BY <1>5, <2>1, <2>4, <5>3
      <4>2. PICK j \in DOMAIN objects' : m_aliases'[AtEnd(e, side)] = j
        BY <1>18, <2>4
      <4>3. e \in Held(j, side)'
        BY <1>5, <1>6, <2>4, <4>2
      <4> QED BY <4>1, <4>2, <4>3 DEF Placed, AtEnd
    <3> QED BY <3>1
  <2>5. CASE IsLoading(i) /\ e \in Range(to_add')
    BY <1>15, <2>1, <2>5
  <2> QED BY <1>1, <2>1, <2>2, <2>3, <2>4, <2>5 DEF PlacedInv
<1> QED BY <1>11, <1>12, <1>13, <1>16, <1>20, <1>21 DEF GraphInv

(* There is nothing yet. *)
LEMMA InitGraph ==
    ASSUME Init
    PROVE  GraphInv
<1>1. /\ files \in [Names -> Unit]
      /\ script \in Seq(Names)
  BY ObjectGraphAssumption DEF Init
<1>2. /\ objects = << >> /\ to_bind = << >> /\ to_add = << >> /\ m_loadqueue = << >>
      /\ m_aliases = [n \in {} |-> 0]
      /\ ready = FALSE
  BY DEF Init
<1>3. DOMAIN objects = {} /\ DOMAIN m_aliases = {}
  BY <1>2
<1>4. /\ objects \in Seq(Schedulable)
      /\ to_bind \in Seq(Names)
      /\ to_add \in Seq(Edge)
      /\ m_loadqueue \in Seq(Names)
  BY <1>2, EmptySeq
<1>5. m_aliases \in [DOMAIN m_aliases -> DOMAIN objects]
  BY <1>2, <1>3
<1>6. TypeOK
  BY <1>1, <1>2, <1>3, <1>4, <1>5 DEF TypeOK
<1>7. IsInjective(to_bind) /\ Idle
  BY <1>2 DEF IsInjective, Idle
<1> QED BY <1>3, <1>6, <1>7 DEF GraphInv, PlaceholdersQueued, NamesInv, LoadInv, EdgeInv, PlacedInv

-----------------------------------------------------------------------------
(* The theorems                                                            *)

(* Every operation of the graph preserves the invariant. *)
THEOREM GraphInvariant == Spec => []GraphInv
<1>1. Init => GraphInv
  BY InitGraph
<1>2. GraphInv /\ [Next]_vars => GraphInv'
  <2> SUFFICES ASSUME GraphInv, [Next]_vars
               PROVE  GraphInv'
    OBVIOUS
  <2>1. /\ m_loadqueue \in Seq(Names)
        /\ script \in Seq(Names)
        /\ to_add \in Seq(Edge)
        /\ ready \in BOOLEAN
        /\ TypeOK
    BY DEF GraphInv, TypeOK
  <2>2. CASE script_load
    <3>1. Head(script) \in Names /\ Tail(script) \in Seq(Names)
      BY <2>1, <2>2, RangeFacts DEF script_load
    <3>2. PICK n \in Names : n = Head(script)
      BY <3>1
    <3>3. object_load(n)
      BY <2>2, <3>2 DEF script_load
    <3> QED BY <2>1, <2>2, <3>1, <3>3, LoadStep DEF script_load
  <2>3. CASE dispatch_load_queue
    <3>1. /\ Head(m_loadqueue) \in Names /\ Tail(m_loadqueue) \in Seq(Names)
          /\ Range(m_loadqueue) = {Head(m_loadqueue)} \cup Range(Tail(m_loadqueue))
      BY <2>1, <2>3, RangeFacts DEF dispatch_load_queue
    <3>2. PICK n \in Names : n = Head(m_loadqueue)
      BY <3>1
    <3>3. object_load(n)
      BY <2>3, <3>2 DEF dispatch_load_queue
    <3>4. \A x \in Range(m_loadqueue) : x = n \/ x \in Range(m_loadqueue')
      BY <2>3, <3>1, <3>2 DEF dispatch_load_queue
    <3> QED BY <2>1, <2>3, <3>1, <3>3, <3>4, LoadStep DEF dispatch_load_queue
  <2>4. CASE bind_alias
    BY <2>4, BindStep
  <2>5. CASE edge_add
    <3>1. /\ to_bind = << >> /\ to_add # << >> /\ to_add' = Tail(to_add)
          /\ UNCHANGED <<files, to_bind, script, ready>>
      BY <2>5 DEF edge_add
    <3>2. /\ Head(to_add) \in Edge /\ Tail(to_add) \in Seq(Edge)
          /\ Range(to_add) = {Head(to_add)} \cup Range(Tail(to_add))
      BY <2>1, <3>1, RangeFacts
    <3>3. PICK e \in Edge : e = Head(to_add)
      BY <3>2
    <3>4. PICK x \in Names : x = OtherEnd(e) /\ Got(x, {e})
      BY <2>1, <2>5, <3>3, AddingEdge
    <3>5. /\ Range(to_add) = {e} \cup Range(to_add')
          /\ \A d \in {e} : OtherEnd(d) = x
          /\ to_add' \in Seq(Edge)
          /\ ready' \in BOOLEAN
      BY <2>1, <3>1, <3>2, <3>3, <3>4
    <3> QED BY <3>1, <3>4, <3>5, GetStep
  <2>6. CASE main_object_get
    <3>1. /\ to_bind = << >>
          /\ UNCHANGED <<files, to_bind, to_add, script>>
          /\ ready' = TRUE
      BY <2>6 DEF main_object_get, Idle
    <3>2. DefaultName \in Names /\ Got(DefaultName, {})
      BY <2>1, <2>6, GettingDefault, ObjectGraphAssumption
    <3>3. /\ Range(to_add) = {} \cup Range(to_add')
          /\ \A d \in {} : OtherEnd(d) = DefaultName
          /\ to_add' \in Seq(Edge)
          /\ ready' \in BOOLEAN
      BY <2>1, <3>1
    <3> QED BY <3>1, <3>2, <3>3, GetStep
  <2>7. CASE UNCHANGED vars
    <3>1. \A n : /\ get_symlinks(n)' = get_symlinks(n)
                 /\ Fragment(n)' = Fragment(n)
                 /\ Found(n)' = Found(n)
                 /\ End(n)' = End(n)
                 /\ Gives(n)' = Gives(n)
      BY <2>7, Stable DEF vars
    <3>2. TypeOK' /\ PlaceholdersQueued'
      BY <2>7, <3>1 DEF GraphInv, vars, TypeOK, PlaceholdersQueued
    <3>3. NamesInv' /\ LoadInv'
      BY <2>7, <3>1 DEF GraphInv, vars, NamesInv, LoadInv, IsLoading, IsLoaded, Leads, Idle
    <3>4. EdgeInv'
      BY <2>7, <3>1 DEF GraphInv, vars, EdgeInv, Sound, Held, AtEnd, IsLoaded, LeadsToLoaded, Live
    <3>5. PlacedInv'
      BY <2>7, <3>1 DEF GraphInv, vars, PlacedInv, Placed, Held, AtEnd, IsLoading, IsLoaded, Leads
    <3> QED BY <3>2, <3>3, <3>4, <3>5 DEF GraphInv
  <2> QED BY <2>2, <2>3, <2>4, <2>5, <2>6, <2>7 DEF Next, Step, Loaded
<1> QED BY <1>1, <1>2, PTL DEF Spec

(* The variables have their types: whatever the units say of each other.   *)
THEOREM GraphTypeOK == Spec => []TypeOK
<1>1. GraphInv => TypeOK
  BY DEF GraphInv
<1> QED BY <1>1, GraphInvariant, PTL

(* Whoever is mentioned has its turn in m_loadqueue still to come, is      *)
(* loaded, or cannot be read.                                              *)
THEOREM NobodyForgotten == Spec => []PlaceholdersQueued
<1>1. GraphInv => PlaceholdersQueued
  BY DEF GraphInv
<1> QED BY <1>1, GraphInvariant, PTL

-----------------------------------------------------------------------------
(* What the invariant means for what the job scheduler is given            *)

(* Between calls of object_load() a loaded unit goes by all the names on   *)
(* the way to its file, and all its edges are placed.                      *)
LEMMA WhenIdle ==
    ASSUME GraphInv, Idle, NEW i \in DOMAIN objects, IsLoaded(i)
    PROVE  LET main == objects[i].main_alias
           IN  /\ main \in Names
               /\ Found(main)
               /\ main \in objects[i].aliases
               /\ End(main) \in objects[i].aliases
               /\ \A x \in objects[i].aliases :
                     x \in Names /\ End(x) = End(main) /\ Fragment(x) = Fragment(main)
               /\ \A e \in Gives(main) : \A side \in Sides : Placed(i, e, side)
<1>1. TypeOK /\ NamesInv /\ PlacedInv
  BY DEF GraphInv
<1>2. PICK main : main = objects[i].main_alias
  OBVIOUS
<1>3. main \in Names /\ files \in [Names -> Unit]
  BY <1>1, <1>2, GraphTypes
<1>4. /\ Found(main)
      /\ main \in objects[i].aliases
      /\ objects[i].aliases = Range(get_symlinks(main))
  BY <1>1, <1>2 DEF NamesInv, Idle
<1>5. End(main) \in objects[i].aliases
  BY <1>3, <1>4, SymlinksFacts
<1>6. \A x \in objects[i].aliases : x \in Names /\ End(x) = End(main) /\ Fragment(x) = Fragment(main)
  BY <1>3, <1>4, SymlinksEnd
<1>7. \A e \in Gives(main) : \A side \in Sides : Placed(i, e, side)
  <2>1. Range(to_add) = {}
    BY DEF Idle, Range
  <2> QED BY <1>1, <1>2, <2>1 DEF PlacedInv
<1> QED BY <1>2, <1>3, <1>4, <1>5, <1>6, <1>7

(* A unit file names units. *)
LEMMA UnitDeps ==
    ASSUME TypeOK, NEW n \in Names, Found(n), NEW d \in Range(depTypes)
    PROVE  Fragment(n).deps[d] \subseteq Names
<1>1. Fragment(n) = files[End(n)] /\ End(n) \in Names
  BY SymlinksFacts DEF TypeOK
<1>2. PICK unit \in Unit : unit = Fragment(n) /\ unit.kind = "file"
  BY <1>1 DEF TypeOK, Found
<1>3. CASE unit \in [kind : {"missing", "file"}, deps : [Range(depTypes) -> SUBSET Names]]
  BY <1>2, <1>3
<1>4. CASE unit \in [kind : {"link"}, to : Names]
  BY <1>2, <1>4
<1> QED BY <1>3, <1>4 DEF Unit

(* A unit has the edges its own directives give it. *)
LEMMA OwnKept ==
    ASSUME GraphInv
    PROVE  OwnDirectivesKept
<1> SUFFICES ASSUME Idle, NEW n \in DOMAIN m_aliases, objects[m_aliases[n]].state = "offline",
                    NEW k \in DOMAIN depTypes, NEW el \in Fragment(n).deps[depTypes[k]],
                    dependencyToEdgeTypes[depTypes[k]] # {}
             PROVE  \E e \in Range(objects[m_aliases[n]].edges) :
                       e.to = el /\ dependencyToEdgeTypes[depTypes[k]] \subseteq e.type
  BY DEF OwnDirectivesKept
<1>1. TypeOK /\ NamesInv
  BY DEF GraphInv
<1>2. PICK i \in DOMAIN objects : i = m_aliases[n]
  BY <1>1, GraphTypes
<1>3. IsLoaded(i) /\ n \in objects[i].aliases
  BY <1>1, <1>2 DEF IsLoaded, NamesInv
<1>4. PICK main \in Names : /\ main = objects[i].main_alias
                            /\ Found(main)
                            /\ main \in objects[i].aliases
                            /\ Fragment(n) = Fragment(main)
                            /\ \A e \in Gives(main) : \A side \in Sides : Placed(i, e, side)
  BY <1>3, WhenIdle
<1>5. depTypes[k] \in Range(depTypes)
  BY DEF Range
<1>6. el \in Names
  BY <1>1, <1>4, <1>5, UnitDeps
<1>7. k \in Naming(Fragment(main), el)
  BY <1>4 DEF Naming
<1>8. dependencyToEdgeTypes[depTypes[k]] \subseteq edges_from(Fragment(main), el)
  BY <1>7 DEF edges_from
<1>9. PICK e : e = GivenFrom(main, Fragment(main), el)
  OBVIOUS
<1>10. e \in Gives(main) /\ e.to = el /\ e.from = main /\ e.type = edges_from(Fragment(main), el)
  BY <1>6, <1>8, <1>9, EdgesOfUnit DEF Gives, GivenFrom
<1>11. e \in Held(i, "from")
  BY <1>4, <1>10 DEF Placed, AtEnd, Sides
<1> QED BY <1>2, <1>8, <1>10, <1>11 DEF Held

(* Two objects in use for the same file are one, if no unit is split. *)
LEMMA SameFile ==
    ASSUME GraphInv, Idle, OneObjectPerUnit,
           NEW i \in Live, NEW j \in Live, IsLoaded(i), IsLoaded(j),
           End(objects[i].main_alias) = End(objects[j].main_alias)
    PROVE  i = j
<1>1. i \in DOMAIN objects /\ j \in DOMAIN objects
  BY GraphTypes DEF GraphInv, Live, Range
<1>2. PICK x : x = End(objects[i].main_alias)
  OBVIOUS
<1>3. x \in objects[i].aliases /\ x \in objects[j].aliases
  BY <1>1, <1>2, WhenIdle
<1> QED BY <1>3 DEF OneObjectPerUnit

(* A name that leads to a loaded object has its file. *)
LEMMA LeadsToFile ==
    ASSUME GraphInv, Idle, NEW x, LeadsToLoaded(x)
    PROVE  /\ m_aliases[x] \in Live /\ m_aliases[x] \in DOMAIN objects
           /\ IsLoaded(m_aliases[x])
           /\ x \in objects[m_aliases[x]].aliases
           /\ End(x) = End(objects[m_aliases[x]].main_alias)
           /\ Fragment(x) = Fragment(objects[m_aliases[x]].main_alias)
<1>1. TypeOK /\ NamesInv
  BY DEF GraphInv
<1>2. PICK i \in DOMAIN objects : i = m_aliases[x] /\ x \in DOMAIN m_aliases /\ IsLoaded(i)
  BY <1>1, GraphTypes DEF LeadsToLoaded
<1>3. i \in Live
  BY <1>2 DEF Live, Range
<1>4. x \in objects[i].aliases
  BY <1>1, <1>2 DEF NamesInv
<1>5. End(x) = End(objects[i].main_alias) /\ Fragment(x) = Fragment(objects[i].main_alias)
  BY <1>2, <1>4, WhenIdle
<1> QED BY <1>2, <1>3, <1>4, <1>5

(* Then the edges in the lists of an object in use are those of its names. *)
LEMMA EndsMeet ==
    ASSUME GraphInv, Idle, OneObjectPerUnit,
           NEW i \in Live, NEW side \in Sides, NEW e \in Held(i, side)
    PROVE  Leads(AtEnd(e, side), i)
<1>1. i \in DOMAIN objects
  BY GraphTypes DEF GraphInv, Live, Range
<1>2. Sound(i, e, side) /\ objects[i].main_alias \in objects[i].aliases
  BY <1>1 DEF GraphInv, EdgeInv, NamesInv
<1>3. \A x \in objects[i].aliases : m_aliases[x] = i
  BY DEF OneObjectPerUnit
<1>4. CASE ~IsLoaded(i)
  <2>1. AtEnd(e, side) = objects[i].main_alias
    BY <1>2, <1>4 DEF Sound
  <2>2. PICK y \in DOMAIN m_aliases : m_aliases[y] = i
    BY DEF Live, Range
  <2>3. y \in objects[i].aliases /\ objects[i].aliases = {objects[i].main_alias}
    BY <1>1, <1>4, <2>2 DEF GraphInv, NamesInv
  <2> QED BY <2>1, <2>2, <2>3 DEF Leads
<1>5. CASE IsLoaded(i)
  <2>1. PICK x : x = AtEnd(e, side)
    OBVIOUS
  <2>2. LeadsToLoaded(x) /\ End(x) = End(objects[i].main_alias)
    BY <1>2, <1>5, <2>1 DEF Sound
  <2>3. PICK j \in Live : /\ j = m_aliases[x]
                          /\ IsLoaded(j)
                          /\ End(x) = End(objects[j].main_alias)
    BY <2>2, LeadsToFile
  <2>4. i = j
    BY <1>5, <2>2, <2>3, SameFile
  <2> QED BY <2>1, <2>2, <2>3, <2>4 DEF Leads, LeadsToLoaded
<1> QED BY <1>4, <1>5

(* And the edges a unit was to get are at the objects their ends lead to. *)
LEMMA EdgesReach ==
    ASSUME GraphInv, Idle, OneObjectPerUnit,
           NEW o \in Live, IsLoaded(o), NEW e \in Gives(objects[o].main_alias), NEW side \in Sides
    PROVE  \E j \in DOMAIN objects : Leads(AtEnd(e, side), j) /\ e \in Held(j, side)
<1>1. TypeOK /\ NamesInv /\ EdgeInv /\ files \in [Names -> Unit] /\ o \in DOMAIN objects
  BY GraphTypes DEF GraphInv, Live, Range
<1>2. PICK main \in Names : main = objects[o].main_alias
  BY <1>1, GraphTypes
<1>3. PICK x : x = AtEnd(e, side)
  OBVIOUS
<1>4. Placed(o, e, side)
  BY <1>1, WhenIdle
<1>5. e.owner = main
  BY <1>2, GivesFacts
<1>6. CASE x \in objects[o].aliases
  <2>1. e \in Held(o, side)
    BY <1>3, <1>4, <1>6 DEF Placed
  <2>2. Leads(x, o)
    BY <1>3, <2>1, EndsMeet
  <2> QED BY <1>1, <1>3, <2>1, <2>2
<1>7. CASE x \notin objects[o].aliases
  <2>1. PICK p \in DOMAIN objects : e \in Held(p, side)
    BY <1>4 DEF Placed
  <2>2. CASE p \in Live
    BY <1>3, <2>1, <2>2, EndsMeet
  <2>3. CASE p \notin Live
    <3>1. Sound(p, e, side)
      BY <1>1, <2>1 DEF EdgeInv
    <3>2. main \in objects[p].aliases
      BY <1>5, <2>3, <3>1 DEF Sound
    <3>3. IsLoaded(p)
      BY <1>1, <1>5, <3>1, <3>2 DEF Sound, NamesInv
    <3>4. LeadsToLoaded(x) /\ End(x) = End(objects[p].main_alias)
      BY <1>3, <3>1, <3>3 DEF Sound
    <3>5. End(main) = End(objects[p].main_alias)
      BY <3>2, <3>3, WhenIdle
    <3>6. PICK q \in Live : /\ q = m_aliases[x]
                            /\ IsLoaded(q)
                            /\ x \in objects[q].aliases
                            /\ End(x) = End(objects[q].main_alias)
      BY <3>4, LeadsToFile
    <3>7. q = o
      BY <1>2, <3>4, <3>5, <3>6, SameFile
    <3> QED BY <1>7, <3>6, <3>7
  <2> QED BY <2>2, <2>3
<1> QED BY <1>6, <1>7

(* What the scheduler wakes along mirrors what it waits along. *)
LEMMA MirrorHolds ==
    ASSUME GraphInv
    PROVE  MirroredUnlessSplit
<1> SUFFICES ASSUME Idle, OneObjectPerUnit, NEW o \in Live, NEW e \in Range(objects[o].edges),
                    "After" \in e.type
             PROVE  e.to \in DOMAIN m_aliases /\ Wakes(m_aliases[e.to], o)
  BY DEF MirroredUnlessSplit, Mirrored
<1>1. TypeOK /\ EdgeInv /\ NamesInv /\ o \in DOMAIN objects
  BY GraphTypes DEF GraphInv, Live, Range
<1>2. e \in Held(o, "from") /\ "from" \in Sides /\ "to" \in Sides
  BY DEF Held, Sides
<1>3. Leads(e.from, o)
  <2>1. Leads(AtEnd(e, "from"), o)
    BY <1>2, EndsMeet
  <2> QED BY <2>1 DEF AtEnd
<1>4. Sound(o, e, "from")
  BY <1>1, <1>2 DEF EdgeInv
<1>5. e \in Gives(e.owner) /\ LeadsToLoaded(e.owner) /\ e.owner \in Names
  BY <1>1, <1>4 DEF Sound, LeadsToLoaded, TypeOK
<1>6. CASE e.owner = e.from
  <2>1. IsLoaded(o) /\ objects[o].main_alias = e.owner
    BY <1>3, <1>4, <1>5, <1>6 DEF Sound, AtEnd, Leads, LeadsToLoaded
  <2>2. PICK j \in DOMAIN objects : Leads(AtEnd(e, "to"), j) /\ e \in Held(j, "to")
    BY <1>2, <1>5, <2>1, EdgesReach
  <2>3. Leads(e.to, j) /\ e \in Range(objects[j].edges_to)
    BY <2>2 DEF AtEnd, Held
  <2> QED BY <1>3, <2>3 DEF Leads, Wakes
<1>7. CASE e.owner # e.from
  <2>1. PICK el \in Names : e = GivenTo(e.owner, Fragment(e.owner), el)
    BY <1>5, <1>7, EdgesOfUnit DEF Gives, GivenFrom
  <2>2. /\ e.type = edges_to(Fragment(e.owner), el)
        /\ e.from = el
        /\ e.to = e.owner
    BY <2>1 DEF GivenTo
  <2>3. PICK p \in Live : /\ p = m_aliases[e.owner]
                          /\ p \in DOMAIN objects
                          /\ IsLoaded(p)
                          /\ Fragment(e.owner) = Fragment(objects[p].main_alias)
    BY <1>5, LeadsToFile
  <2>4. PICK main \in Names : /\ main = objects[p].main_alias
                              /\ main \in objects[p].aliases
                              /\ \A d \in Gives(main) : \A side \in Sides : Placed(p, d, side)
    BY <2>3, WhenIdle
  <2>5. PICK d : d = GivenTo(main, Fragment(main), el)
    OBVIOUS
  <2>6. d.from = el /\ d.to = main /\ d.type = e.type
    BY <2>2, <2>3, <2>4, <2>5 DEF GivenTo
  <2>7. d \in Gives(main)
    BY <2>2, <2>3, <2>4, <2>5, EdgesOfUnit DEF Gives
  <2>8. d \in Held(p, "to")
    BY <1>2, <2>4, <2>6, <2>7 DEF Placed, AtEnd
  <2>9. d \in Range(objects[p].edges_to) /\ m_aliases[d.from] = o /\ m_aliases[e.to] = p
    BY <1>3, <2>2, <2>3, <2>6, <2>8 DEF Held, Leads
  <2> QED BY <1>5, <2>2, <2>6, <2>9 DEF Wakes, LeadsToLoaded
<1> QED BY <1>6, <1>7

(* Of the directives only Before= and the Replacing ones give the other    *)
(* unit an edge, so one that Before= has given stays if none of those      *)
(* follows.                                                                *)
LEMMA AfterGiven ==
    ASSUME NEW unit, NEW el, el \in unit.deps["Before"],
           \A d \in Replacing : el \notin unit.deps[d]
    PROVE  "After" \in edges_to(unit, el)
<1> DEFINE complement(k) == dependencyToEdgeTypes[reverseDep[depTypes[k]]]
           assigned == {k \in Naming(unit, el) : complement(k) # {}}
           last == {k \in assigned : \A j \in assigned : j <= k}
<1>1. DOMAIN depTypes = 1 .. 11
  BY DEF depTypes
<1>2. 1 \in assigned /\ complement(1) = {"After"}
  <2>1. depTypes[1] = "Before" /\ 1 \in DOMAIN depTypes
    BY <1>1 DEF depTypes
  <2>2. complement(1) = {"After"}
    BY <2>1 DEF dependencyToEdgeTypes, reverseDep
  <2> QED BY <2>1, <2>2 DEF Naming
<1>3. ASSUME NEW k \in assigned PROVE k = 1
  <2>1. k \in 1 .. 11 /\ depTypes[k] \notin Replacing
    BY <1>1 DEF Naming
  <2>2. k \in {1, 4, 8, 10}
    BY <2>1 DEF depTypes, Replacing
  <2>3. k # 4 /\ k # 8 /\ k # 10
    <3>1. depTypes[4] = "Wants" /\ depTypes[8] = "Upholds" /\ depTypes[10] = "PropagatesReloadTo"
      BY DEF depTypes
    <3>2. complement(4) = {} /\ complement(8) = {} /\ complement(10) = {}
      BY <3>1 DEF dependencyToEdgeTypes, reverseDep
    <3> QED BY <3>2
  <2> QED BY <2>2, <2>3
<1> HIDE DEF complement, assigned
<1>4. 1 \in last
  BY <1>2, <1>3
<1> HIDE DEF last
<1>5. complement(1) \subseteq UNION {complement(k) : k \in last}
  BY <1>4
<1>6. edges_to(unit, el) = UNION {complement(k) : k \in last}
  BY DEF edges_to, complement, assigned, last
<1> QED BY <1>2, <1>5, <1>6

(* What an edge to another unit says, the unit has said of it. *)
LEMMA SaidFrom ==
    ASSUME NEW unit, NEW el
    PROVE  /\ "AddStart" \in edges_from(unit, el) =>
                 el \in unit.deps["Requires"] \/ el \in unit.deps["BindsTo"]
           /\ "AddStartNonreq" \in edges_from(unit, el) =>
                 el \in unit.deps["Wants"] \/ el \in unit.deps["Upholds"]
           /\ "AddStop" \in edges_from(unit, el) => el \in unit.deps["Conflicts"]
           /\ "AddVerify" \in edges_from(unit, el) => el \in unit.deps["Requisite"]
           /\ "After" \in edges_from(unit, el) => el \in unit.deps["After"]
           /\ "PropagatesStopTo" \notin edges_from(unit, el)
<1>1. ASSUME NEW x \in edges_from(unit, el)
      PROVE  \E d \in Range(depTypes) : el \in unit.deps[d] /\ x \in dependencyToEdgeTypes[d]
  BY DEF edges_from, Naming, Range
<1>2. Range(depTypes) = DOMAIN reverseDep
  BY DEF depTypes, reverseDep, Range
<1>3. ASSUME NEW d \in DOMAIN reverseDep
      PROVE  /\ "AddStart" \in dependencyToEdgeTypes[d] => d = "Requires" \/ d = "BindsTo"
             /\ "AddStartNonreq" \in dependencyToEdgeTypes[d] => d = "Wants" \/ d = "Upholds"
             /\ "AddStop" \in dependencyToEdgeTypes[d] => d = "Conflicts"
             /\ "AddVerify" \in dependencyToEdgeTypes[d] => d = "Requisite"
             /\ "After" \in dependencyToEdgeTypes[d] => d = "After"
             /\ "PropagatesStopTo" \notin dependencyToEdgeTypes[d]
  BY DEF reverseDep, dependencyToEdgeTypes
<1> QED BY <1>1, <1>2, <1>3

(* So with an edge from another unit; Before= counts if nothing has replaced it. *)
LEMMA SaidTo ==
    ASSUME NEW unit, NEW el
    PROVE  /\ "PropagatesStopTo" \in edges_to(unit, el) =>
                 \E d \in {"Requires", "BindsTo", "PartOf", "Requisite"} : el \in unit.deps[d]
           /\ "After" \in edges_to(unit, el) =>
                 el \in unit.deps["Before"] /\ \A d \in Replacing : el \notin unit.deps[d]
           /\ edges_to(unit, el) \cap {"AddStart", "AddStartNonreq", "AddStop", "AddVerify"} = {}
<1> DEFINE complement(k) == dependencyToEdgeTypes[reverseDep[depTypes[k]]]
           assigned == {k \in Naming(unit, el) : complement(k) # {}}
<1>1. ASSUME NEW x \in edges_to(unit, el)
      PROVE  \E k \in assigned : x \in complement(k) /\ \A j \in assigned : j <= k
  BY DEF edges_to
<1>2. DOMAIN depTypes = 1 .. 11
  BY DEF depTypes
<1>3. ASSUME NEW k \in 1 .. 11
      PROVE  /\ "PropagatesStopTo" \in complement(k) =>
                   depTypes[k] \in {"Requires", "BindsTo", "PartOf", "Requisite"}
             /\ "After" \in complement(k) => k = 1 /\ depTypes[k] = "Before"
             /\ complement(k) \cap {"AddStart", "AddStartNonreq", "AddStop", "AddVerify"} = {}
             /\ depTypes[k] \in Replacing => k > 1 /\ complement(k) # {}
  BY DEF depTypes, reverseDep, dependencyToEdgeTypes, Replacing
<1>4. \A k \in assigned : k \in 1 .. 11 /\ el \in unit.deps[depTypes[k]]
  BY <1>2 DEF Naming
<1>5. ASSUME NEW d \in Replacing, el \in unit.deps[d]
      PROVE  \E k \in assigned : k > 1
  <2>1. PICK k \in 1 .. 11 : depTypes[k] = d
    BY DEF depTypes, Replacing
  <2>2. k > 1 /\ complement(k) # {}
    BY <1>3, <2>1
  <2> HIDE DEF complement
  <2>3. k \in Naming(unit, el)
    BY <1>2, <1>5, <2>1 DEF Naming
  <2> QED BY <2>2, <2>3
<1> HIDE DEF complement, assigned
<1>6. ASSUME "After" \in edges_to(unit, el)
      PROVE  el \in unit.deps["Before"] /\ \A d \in Replacing : el \notin unit.deps[d]
  <2>1. PICK k \in assigned : "After" \in complement(k) /\ \A j \in assigned : j <= k
    BY <1>1, <1>6
  <2>2. k = 1 /\ el \in unit.deps["Before"]
    BY <1>3, <1>4, <2>1
  <2>3. \A j \in assigned : ~(j > 1)
    BY <1>4, <2>1, <2>2
  <2> QED BY <1>5, <2>2, <2>3
<1>7. ASSUME "PropagatesStopTo" \in edges_to(unit, el)
      PROVE  \E d \in {"Requires", "BindsTo", "PartOf", "Requisite"} : el \in unit.deps[d]
  BY <1>1, <1>3, <1>4, <1>7
<1>8. edges_to(unit, el) \cap {"AddStart", "AddStartNonreq", "AddStop", "AddVerify"} = {}
  BY <1>1, <1>3, <1>4
<1> QED BY <1>6, <1>7, <1>8

(* Before= gives the other unit something to wait for. *)
LEMMA BeforeGiven ==
    ASSUME GraphInv, Idle, OneObjectPerUnit, NEW n \in DOMAIN m_aliases,
           objects[m_aliases[n]].state = "offline",
           NEW el \in Fragment(n).deps["Before"],
           \A d \in Replacing : el \notin Fragment(n).deps[d]
    PROVE  /\ el \in DOMAIN m_aliases
           /\ \E e \in Range(objects[m_aliases[el]].edges) :
                 /\ "After" \in e.type
                 /\ e.to = objects[m_aliases[n]].main_alias
                 /\ m_aliases[e.to] = m_aliases[n]
<1>1. LeadsToLoaded(n) /\ TypeOK
  BY DEF LeadsToLoaded, IsLoaded, GraphInv
<1>2. PICK p \in Live : /\ p = m_aliases[n]
                        /\ p \in DOMAIN objects
                        /\ IsLoaded(p)
                        /\ Fragment(n) = Fragment(objects[p].main_alias)
  BY <1>1, LeadsToFile
<1>3. PICK main \in Names : /\ main = objects[p].main_alias
                            /\ Found(main)
                            /\ main \in objects[p].aliases
  BY <1>2, WhenIdle
<1>4. "Before" \in Range(depTypes)
  <2>1. depTypes[1] = "Before" /\ 1 \in DOMAIN depTypes
    BY DEF depTypes
  <2> QED BY <2>1 DEF Range
<1>5. el \in Names
  BY <1>1, <1>2, <1>3, <1>4, UnitDeps
<1>6. "After" \in edges_to(Fragment(main), el)
  BY <1>2, <1>3, AfterGiven
<1>7. PICK e : e = GivenTo(main, Fragment(main), el)
  OBVIOUS
<1>8. /\ e \in Gives(main)
      /\ "After" \in e.type
      /\ e.from = el
      /\ e.to = main
  BY <1>5, <1>6, <1>7, EdgesOfUnit DEF Gives, GivenTo
<1>9. PICK j \in DOMAIN objects : Leads(AtEnd(e, "from"), j) /\ e \in Held(j, "from")
  BY <1>2, <1>3, <1>8, EdgesReach DEF Sides
<1>10. Leads(el, j) /\ e \in Range(objects[j].edges)
  BY <1>8, <1>9 DEF AtEnd, Held
<1>11. m_aliases[e.to] = m_aliases[n]
  BY <1>2, <1>3, <1>8 DEF OneObjectPerUnit
<1> QED BY <1>2, <1>3, <1>8, <1>10, <1>11 DEF Leads

(* Whoever is Before= another unit is waited for. *)
LEMMA BeforeHolds ==
    ASSUME GraphInv
    PROVE  BeforeReaches
BY BeforeGiven DEF BeforeReaches

(* Under each of its names, however often it was loaded, a unit has the    *)
(* edges that its own directives give it (loadSystemdUnit(), edge_add(),   *)
(* object_remap_unowned_edges()).                                          *)
THEOREM DirectivesKept == Spec => []OwnDirectivesKept
BY OwnKept, GraphInvariant, PTL

(* Unless a unit is split into two objects, for every edge that makes a    *)
(* job of one object wait there is one in edges_to of the other that       *)
(* leads job_complete() back to it.                                        *)
THEOREM WaitingIsWoken == Spec => []MirroredUnlessSplit
BY MirrorHolds, GraphInvariant, PTL

(* A unit that is Before= another one gives that one an edge to wait for,  *)
(* unless a unit is split or a later directive replaces the edge.          *)
THEOREM BeforeIsHonoured == Spec => []BeforeReaches
BY BeforeHolds, GraphInvariant, PTL
=============================================================================
