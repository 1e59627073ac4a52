--------------------------- MODULE TopologyProofs ---------------------------
(***************************************************************************)
(* The two indexes of the topology graph mirror each other and dangle      *)
(* nowhere, an export dangles only where an upsert overtook it, the query  *)
(* endpoints answer what the graph says, and what they answered stays in   *)
(* their answers: for every finite set of ids, every set of kinds,         *)
(* documents, registries and clients, and any number of edges.             *)
(*                                                                         *)
(* The queries are loops.  The provers take no induction theorem with an   *)
(* operator as its parameter, so induction is stated here over sets        *)
(* (Smallest, Induction), and from it that the functions the loops are     *)
(* written as are well defined (Iteration, LoopDefined).                   *)
(***************************************************************************)
EXTENDS Topology, WellFoundedInduction, SequenceTheorems, FiniteSetTheorems, TLAPS

(* What an export has read: the edges its node list goes with join nodes of *)
(* that list, they are still in the graph, and a finished export has them.  *)
ExportOK ==
  \A c \in Clients :
    /\ \A e \in export[c].base : {e.from, e.to} \subseteq export[c].ids
    /\ export[c].base \subseteq Edges(out)
    /\ export[c].pc = "done" => export[c].base \subseteq export[c].edges

(* Load starts from an empty graph. *)
Unloaded == phase = "boot" => out = [id \in AnyId |-> <<>>] /\ in = [id \in AnyId |-> <<>>]
                               /\ export = [c \in Clients |-> NoExport]

GraphOK == TypeOK /\ Mirrored /\ ExportOK
Inv == GraphOK /\ Unloaded

-----------------------------------------------------------------------------
(* Appending to a list adds one element to what it holds. *)
LEMMA AppendAdds ==
  ASSUME NEW S, NEW s \in Seq(S), NEW e \in S
  PROVE  ToSet(Append(s, e)) = ToSet(s) \cup {e}
<1>1. DOMAIN Append(s, e) = DOMAIN s \cup {Len(s) + 1} /\ DOMAIN s = 1..Len(s)
  OBVIOUS
<1>2. Append(s, e)[Len(s) + 1] = e /\ \A i \in DOMAIN s : Append(s, e)[i] = s[i]
  OBVIOUS
<1>. QED BY <1>1, <1>2 DEF ToSet

(* Filing an edge under one of its ends adds it to the index, and it is the *)
(* only edge that the list of that end gains.                               *)
LEMMA FilingAdds ==
  ASSUME NEW m \in [AnyId -> Seq(Edge)], NEW id \in AnyId, NEW e \in Edge
  PROVE  /\ Filed(m, id, e) \in [AnyId -> Seq(Edge)]
         /\ Edges(Filed(m, id, e)) = Edges(m) \cup {e}
         /\ \A x \in AnyId : \A f \in ToSet(Filed(m, id, e)[x]) :
              f \in ToSet(m[x]) \/ (f = e /\ x = id)
<1> DEFINE n == Filed(m, id, e)
<1>1. n \in [AnyId -> Seq(Edge)]
  BY DEF Filed
<1>2. ToSet(n[id]) = ToSet(m[id]) \cup {e}
  BY AppendAdds DEF Filed
<1>3. \A x \in AnyId : x # id => n[x] = m[x]
  BY DEF Filed
<1> HIDE DEF n
<1>4. Edges(n) = Edges(m) \cup {e}
  BY <1>2, <1>3 DEF Edges
<1>5. \A x \in AnyId : \A f \in ToSet(n[x]) : f \in ToSet(m[x]) \/ (f = e /\ x = id)
  BY <1>2, <1>3
<1>. QED BY <1>1, <1>4, <1>5 DEF n

(* Adding an edge between two nodes keeps the graph well formed. *)
LEMMA FileKeepsGraph ==
  ASSUME TypeOK, Mirrored, NEW e \in Edge, File(e), UNCHANGED nodes,
         {e.from, e.to} \subseteq DOMAIN nodes
  PROVE  /\ out' \in [AnyId -> Seq(Edge)] /\ in' \in [AnyId -> Seq(Edge)]
         /\ Edges(out)' = Edges(out) \cup {e}
         /\ Mirrored'
<1>1. e.from \in AnyId /\ e.to \in AnyId
  BY DEF Edge
<1>2. /\ out \in [AnyId -> Seq(Edge)] /\ out' = Filed(out, e.from, e)
      /\ in \in [AnyId -> Seq(Edge)] /\ in' = Filed(in, e.to, e)
  BY DEF File, TypeOK
<1>3. /\ out' \in [AnyId -> Seq(Edge)] /\ in' \in [AnyId -> Seq(Edge)]
      /\ Edges(out)' = Edges(out) \cup {e} /\ Edges(in)' = Edges(in) \cup {e}
  BY <1>1, <1>2, FilingAdds
<1>4. /\ \A x \in AnyId : \A f \in ToSet(out'[x]) : f \in ToSet(out[x]) \/ (f = e /\ x = e.from)
      /\ \A x \in AnyId : \A f \in ToSet(in'[x]) : f \in ToSet(in[x]) \/ (f = e /\ x = e.to)
  BY <1>1, <1>2, FilingAdds
<1>5. Mirrored'
  BY <1>3, <1>4 DEF Mirrored
<1>. QED BY <1>3, <1>5

(* Steps that leave the edges alone and never remove a node. *)
LEMMA NodesOnlyKeepGraph ==
  ASSUME Mirrored, UNCHANGED <<out, in>>, DOMAIN nodes \subseteq DOMAIN nodes'
  PROVE  Mirrored'
<1>. HIDE DEF Edges, ToSet
<1>1. Edges(out') = Edges(out) /\ Edges(in') = Edges(in)
  OBVIOUS
<1>. QED BY <1>1 DEF Mirrored

(* Steps that export nothing and remove no edge. *)
LEMMA ExportKept ==
  ASSUME ExportOK, UNCHANGED export, Edges(out) \subseteq Edges(out')
  PROVE  ExportOK'
<1>. HIDE DEF Edges
<1>. QED BY DEF ExportOK

(* The empty graph is well formed. *)
LEMMA InitInv == Init => Inv
<1> SUFFICES ASSUME Init PROVE Inv
  OBVIOUS
<1>1. Edges(out) = {} /\ Edges(in) = {} /\ \A id \in AnyId : ToSet(out[id]) = {} /\ ToSet(in[id]) = {}
  BY DEF Init, Edges, ToSet
<1>2. TypeOK
  BY DEF Init, TypeOK, NoExport
<1>3. Mirrored
  BY <1>1 DEF Mirrored
<1>4. ExportOK
  BY DEF Init, ExportOK, NoExport
<1>5. Unloaded
  BY DEF Init, Unloaded
<1>. QED BY <1>2, <1>3, <1>4, <1>5 DEF Inv, GraphOK

(* Once main has read its spec it never boots again; until then the graph   *)
(* is empty and nobody exports.                                             *)
LEMMA StaysLoaded == Inv /\ [Next]_vars => Unloaded'
<1> SUFFICES ASSUME Inv, [Next]_vars, phase' = "boot" PROVE Unloaded'
  BY DEF Unloaded
<1>1. ~LoadNodes /\ ~LoadEdge /\ ~Discover
  BY DEF LoadNodes, LoadEdge, Discover
<1>2. \A token : ~HandleUpsert(token)
  BY DEF HandleUpsert
<1>3. \A c \in Clients : ~SpecNodes(c)
  BY DEF SpecNodes
<1>4. ASSUME NEW c \in Clients, SpecEdges(c) PROVE FALSE
  <2>1. phase = "boot" /\ export[c].pc = "edges"
    BY <1>4 DEF SpecEdges
  <2>2. export[c] = NoExport
    BY <2>1 DEF Inv, Unloaded
  <2>. QED BY <2>1, <2>2 DEF NoExport
<1>5. UNCHANGED vars
  BY <1>1, <1>2, <1>3, <1>4 DEF Next
<1>. QED BY <1>5 DEF Inv, Unloaded, vars, graph

(* Every step keeps it so: loading, discovery, upserts and both reads. *)
LEMMA NextInv == Inv /\ [Next]_vars => Inv'
<1> SUFFICES ASSUME Inv, [Next]_vars PROVE GraphOK'
  BY StaysLoaded DEF Inv
<1> USE DEF Inv, GraphOK
<1>1. CASE LoadNodes
  <2>1. PICK doc \in SpecFiles : nodes' = doc.nodes /\ pending' = doc.edges
    BY <1>1 DEF LoadNodes
  <2>2. TypeOK'
    BY <1>1, <2>1, DocumentsAssumption DEF LoadNodes, TypeOK
  <2>3. UNCHANGED <<out, in, export>> /\ \A id \in AnyId : out[id] = <<>> /\ in[id] = <<>>
    BY <1>1 DEF LoadNodes, Unloaded
  <2>4. Mirrored'
    BY <2>3 DEF Mirrored, Edges, ToSet
  <2>. QED BY <2>2, <2>3, <2>4, ExportKept
<1>2. CASE LoadEdge
  <2> DEFINE e == Head(pending)
  <2>1. e \in Edge /\ pending' \in Seq(Edge)
    BY <1>2 DEF LoadEdge, TypeOK
  <2>2. CASE {e.from, e.to} \subseteq DOMAIN nodes
    <3>1. File(e) /\ UNCHANGED <<phase, nodes, export>>
      BY <1>2, <2>2 DEF LoadEdge
    <3> HIDE DEF e
    <3>2. /\ out' \in [AnyId -> Seq(Edge)] /\ in' \in [AnyId -> Seq(Edge)]
          /\ Edges(out)' = Edges(out) \cup {e} /\ Mirrored'
      BY <2>1, <2>2, <3>1, FileKeepsGraph
    <3>3. TypeOK'
      BY <2>1, <3>1, <3>2 DEF TypeOK
    <3>4. ExportOK'
      BY <3>1, <3>2, ExportKept
    <3>. QED BY <3>2, <3>3, <3>4
  <2>3. CASE ~({e.from, e.to} \subseteq DOMAIN nodes)
    <3>1. phase' = "failed" /\ UNCHANGED <<nodes, out, in, export>>
      BY <1>2, <2>3 DEF LoadEdge
    <3>2. TypeOK'
      BY <2>1, <3>1 DEF TypeOK
    <3>. QED BY <3>1, <3>2, NodesOnlyKeepGraph, ExportKept
  <2>. QED BY <2>2, <2>3
<1>3. CASE Discover
  <2>1. UNCHANGED <<pending, out, in, export>> /\ phase' = "serving"
    BY <1>3 DEF Discover
  <2>2. /\ DOMAIN nodes \subseteq DOMAIN nodes' /\ DOMAIN nodes' \subseteq AnyId
        /\ nodes' \in [DOMAIN nodes' -> Kinds \cup {"sensor", Empty}]
    BY <1>3, DocumentsAssumption DEF Discover, TypeOK, MapKind
  <2>3. TypeOK'
    BY <2>1, <2>2 DEF TypeOK
  <2>. QED BY <2>1, <2>2, <2>3, NodesOnlyKeepGraph, ExportKept
<1>4. ASSUME NEW token, HandleUpsert(token) PROVE GraphOK'
  <2>1. CASE \E n \in NodeBodies : UpsertNode(n)
    <3>1. PICK n \in NodeBodies : UpsertNode(n)
      BY <2>1
    <3>2. /\ DOMAIN nodes \subseteq DOMAIN nodes' /\ DOMAIN nodes' \subseteq AnyId
          /\ nodes' \in [DOMAIN nodes' -> Kinds \cup {"sensor", Empty}]
      BY <3>1, DocumentsAssumption DEF UpsertNode, TypeOK, Node
    <3>3. UNCHANGED <<phase, pending, out, in, export>>
      BY <1>4, <3>1 DEF HandleUpsert, UpsertNode
    <3>4. TypeOK'
      BY <3>2, <3>3 DEF TypeOK
    <3>. QED BY <3>2, <3>3, <3>4, NodesOnlyKeepGraph, ExportKept
  <2>2. CASE \E e \in EdgeBodies : UpsertEdge(e)
    <3>1. PICK e \in EdgeBodies : UpsertEdge(e)
      BY <2>2
    <3>2. e \in Edge
      BY DocumentsAssumption
    <3>3. File(e) /\ {e.from, e.to} \subseteq DOMAIN nodes
          /\ UNCHANGED <<phase, pending, nodes, export>>
      BY <1>4, <3>1 DEF HandleUpsert, UpsertEdge
    <3>4. /\ out' \in [AnyId -> Seq(Edge)] /\ in' \in [AnyId -> Seq(Edge)]
          /\ Edges(out)' = Edges(out) \cup {e} /\ Mirrored'
      BY <3>2, <3>3, FileKeepsGraph
    <3>5. TypeOK'
      BY <3>3, <3>4 DEF TypeOK
    <3>6. ExportOK'
      BY <3>3, <3>4, ExportKept
    <3>. QED BY <3>4, <3>5, <3>6
  <2>. QED BY <1>4, <2>1, <2>2 DEF HandleUpsert
<1>5. ASSUME NEW c \in Clients, SpecNodes(c) PROVE GraphOK'
  <2>1. UNCHANGED <<phase, pending, nodes, out, in>>
    BY <1>5 DEF SpecNodes, graph
  <2>2. Edges(out) \subseteq Edge
    BY DEF Edges, ToSet, TypeOK
  <2>3. TypeOK'
    BY <1>5, <2>1, <2>2 DEF TypeOK, SpecNodes
  <2>4. ExportOK'
    BY <1>5, <2>1 DEF SpecNodes, ExportOK, Mirrored, TypeOK
  <2>. QED BY <2>1, <2>3, <2>4, NodesOnlyKeepGraph
<1>6. ASSUME NEW c \in Clients, SpecEdges(c) PROVE GraphOK'
  <2>1. UNCHANGED <<phase, pending, nodes, out, in>>
    BY <1>6 DEF SpecEdges, graph
  <2>2. Edges(out) \subseteq Edge
    BY DEF Edges, ToSet, TypeOK
  <2>3. TypeOK'
    BY <1>6, <2>1, <2>2 DEF TypeOK, SpecEdges
  <2>4. ExportOK'
    BY <1>6, <2>1 DEF SpecEdges, ExportOK, TypeOK
  <2>. QED BY <2>1, <2>3, <2>4, NodesOnlyKeepGraph
<1>7. CASE UNCHANGED vars
  BY <1>7, NodesOnlyKeepGraph, ExportKept DEF vars, graph, TypeOK
<1>. QED BY <1>1, <1>2, <1>3, <1>4, <1>5, <1>6, <1>7 DEF Next

(* The graph's inductive invariant: types, the two indexes, every export in *)
(* progress, and an empty graph before main has loaded the spec.            *)
THEOREM GraphInvariant == Spec => []Inv
BY InitInv, NextInv, PTL DEF Spec

(* The indexes Graph.out and Graph.in always hold the same edges, filed     *)
(* under their own ends, between nodes that exist.                          *)
THEOREM IndexesMirrored == Spec => []Mirrored
<1>1. Inv => Mirrored
  BY DEF Inv, GraphOK
<1>. QED BY <1>1, GraphInvariant, PTL

(* Graph.Spec, read in two steps, can only dangle at edges upserted between *)
(* the two.                                                                 *)
THEOREM ExportsDangleOnlyLate == Spec => []OnlyLateEdgesDangle
<1>1. Inv => OnlyLateEdgesDangle
  BY DEF Inv, GraphOK, ExportOK, OnlyLateEdgesDangle
<1>. QED BY <1>1, GraphInvariant, PTL

-----------------------------------------------------------------------------
(* A set of natural numbers that is not empty has a least one. *)
LEMMA Smallest ==
  ASSUME NEW S \in SUBSET Nat, S # {}
  PROVE  \E x \in S : \A y \in S : x <= y
<1> DEFINE R == {ss \in Nat \X Nat : ss[1] < ss[2]}
<1>1. IsWellFoundedOn(R, Nat)
  BY NatLessThanWellFounded, Zenon DEF OpToRel
<1>2. \A x, y \in Nat : y < x => <<y, x>> \in R
  OBVIOUS
<1> HIDE DEF R
<1>3. PICK x \in S : \A y \in S : ~ (<<y, x>> \in R)
  BY <1>1, WFMin
<1>4. ASSUME NEW y \in S PROVE x <= y
  <2>1. ~(y < x)
    BY <1>2, <1>3
  <2>. QED BY <2>1
<1>. QED BY <1>4

(* Induction: a set that has 0 and with each number the next has them all,  *)
(* up to n.                                                                 *)
LEMMA Induction ==
  ASSUME NEW n \in Nat, NEW G, 0 \in G, \A i \in 0..(n - 1) : i \in G => i + 1 \in G
  PROVE  0..n \subseteq G
<1> SUFFICES ASSUME (0..n) \ G # {} PROVE FALSE
  OBVIOUS
<1>1. (0..n) \ G \in SUBSET Nat
  OBVIOUS
<1>2. PICK x \in (0..n) \ G : \A y \in (0..n) \ G : x <= y
  BY <1>1, Smallest
<1>3. x # 0 /\ x \in Nat /\ x <= n
  BY <1>2
<1>4. x - 1 \in 0..(n - 1) /\ x - 1 \in G
  BY <1>2, <1>3
<1>5. (x - 1) + 1 \in G
  BY <1>4
<1>. QED BY <1>2, <1>3, <1>5

(* A function given by its first value and one step per argument. *)
Iterated(f, x, step, n) ==
  f = [i \in 0..n |-> IF i = 0 THEN x ELSE step[i][f[i - 1]]]

(* Such a function exists, for steps that stay within one set. *)
LEMMA Iteration ==
  ASSUME NEW n \in Nat, NEW T, NEW x \in T, NEW step \in [1..n -> [T -> T]]
  PROVE  \E f \in [0..n -> T] : Iterated(f, x, step, n)
<1> DEFINE G == {i \in Nat : \E f \in [0..i -> T] : Iterated(f, x, step, i)}
<1>1. 0 \in G
  <2>1. [i \in 0..0 |-> x] \in [0..0 -> T] /\ Iterated([i \in 0..0 |-> x], x, step, 0)
    BY DEF Iterated
  <2>. QED BY <2>1
<1>2. ASSUME NEW k \in 0..(n - 1), k \in G PROVE k + 1 \in G
  <2>1. PICK f \in [0..k -> T] : Iterated(f, x, step, k)
    BY <1>2
  <2>2. k \in Nat /\ k + 1 \in 1..n
    OBVIOUS
  <2> DEFINE g == [i \in 0..(k + 1) |-> IF i = k + 1 THEN step[k + 1][f[k]] ELSE f[i]]
  <2>3. g \in [0..(k + 1) -> T]
    BY <2>2
  <2>4. \A i \in 0..(k + 1) : g[i] = IF i = 0 THEN x ELSE step[i][g[i - 1]]
    <3>1. \A i \in 0..k : f[i] = IF i = 0 THEN x ELSE step[i][f[i - 1]]
      BY <2>1 DEF Iterated
    <3>2. \A i \in 0..k : g[i] = f[i]
      BY <2>2
    <3>3. g[k + 1] = step[k + 1][f[k]]
      BY <2>2
    <3> HIDE DEF g
    <3>4. ASSUME NEW i \in 0..k PROVE g[i] = IF i = 0 THEN x ELSE step[i][g[i - 1]]
      BY <2>2, <3>1, <3>2
    <3>5. g[k + 1] = step[k + 1][g[k]] /\ k + 1 # 0 /\ (k + 1) - 1 = k
      BY <2>2, <3>2, <3>3
    <3>6. \A i \in 0..(k + 1) : i \in 0..k \/ i = k + 1
      BY <2>2
    <3>. QED BY <3>4, <3>5, <3>6
  <2> HIDE DEF g
  <2>5. Iterated(g, x, step, k + 1)
    BY <2>3, <2>4 DEF Iterated
  <2>. QED BY <2>2, <2>3, <2>5
<1> HIDE DEF G
<1>3. 0..n \subseteq G
  BY <1>1, <1>2, Induction
<1>. QED BY <1>3 DEF G

-----------------------------------------------------------------------------
(* Breadth-first search, on any relation.  A search has found the nodes of  *)
(* the list L, in this order; it has taken the first n of them from its     *)
(* queue, and of the neighbours of the last of these it has still to look   *)
(* at those in `left`.  No node is found twice; the neighbours of the nodes *)
(* taken are found or still to be looked at; a node was found from an       *)
(* earlier one; and nodes are found in the order of those that lead there.  *)
Distinct(L) == \A i, j \in 1..Len(L) : L[i] = L[j] => i = j
Covered(L, n, hop, left) ==
  \A i \in 1..n : hop[L[i]] \subseteq ToSet(L) \cup (IF i = n THEN left ELSE {})
Reached(L, n, hop) == \A i \in 2..Len(L) : \E k \in 1..n : k < i /\ L[i] \in hop[L[k]]
InOrder(L, hop) ==
  \A i, j, m \in 1..Len(L) :
    1 < i /\ i < j /\ L[j] \in hop[L[m]] => \E k \in 1..m : L[i] \in hop[L[k]]
Search(L, n, hop, left) ==
  /\ L \in Seq(AnyId) /\ Len(L) >= 1 /\ n \in 0..Len(L)
  /\ left # {} => n > 0 /\ left \subseteq hop[L[n]]
  /\ Distinct(L) /\ Covered(L, n, hop, left) /\ Reached(L, n, hop) /\ InOrder(L, hop)

(* A search begins with the node it starts from, not taken yet. *)
LEMMA SearchBegins ==
  ASSUME NEW id \in AnyId, NEW hop
  PROVE  Search(<<id>>, 0, hop, {})
  BY DEF Search, Distinct, Covered, Reached, InOrder

(* The next node is taken from the queue. *)
LEMMA SearchTakes ==
  ASSUME NEW L, NEW n, NEW hop, Search(L, n, hop, {}), n < Len(L)
  PROVE  Search(L, n + 1, hop, hop[L[n + 1]])
<1>1. L \in Seq(AnyId) /\ Len(L) \in Nat /\ n \in Nat /\ n + 1 \in 1..Len(L)
  BY DEF Search
<1>2. \A i \in 1..(n + 1) : hop[L[i]] \subseteq ToSet(L) \cup (IF i = n + 1 THEN hop[L[n + 1]] ELSE {})
  <2>1. \A i \in 1..(n + 1) : i \in 1..n \/ i = n + 1
    BY <1>1
  <2>2. \A i \in 1..n : hop[L[i]] \subseteq ToSet(L)
    BY DEF Search, Covered
  <2>. QED BY <2>1, <2>2
<1>3. \A i \in 2..Len(L) : \E k \in 1..(n + 1) : k < i /\ L[i] \in hop[L[k]]
  <2>1. \A k \in 1..n : k \in 1..(n + 1)
    BY <1>1
  <2>. QED BY <2>1 DEF Search, Reached
<1>4. Covered(L, n + 1, hop, hop[L[n + 1]])
  BY <1>2 DEF Covered
<1>5. Reached(L, n + 1, hop)
  BY <1>3 DEF Reached
<1>6. n + 1 \in 0..Len(L) /\ n + 1 > 0
  BY <1>1
<1>. QED BY <1>1, <1>4, <1>5, <1>6 DEF Search

(* A neighbour that was found already. *)
LEMMA SearchSkips ==
  ASSUME NEW L, NEW n, NEW hop, NEW left, Search(L, n, hop, left),
         NEW rest \in SUBSET left, left \subseteq rest \cup ToSet(L)
  PROVE  Search(L, n, hop, rest)
<1>1. \A i \in 1..n : hop[L[i]] \subseteq ToSet(L) \cup (IF i = n THEN rest ELSE {})
  BY DEF Search, Covered
<1>2. Covered(L, n, hop, rest)
  BY <1>1 DEF Covered
<1>. QED BY <1>2 DEF Search

(* A neighbour that is found now. *)
LEMMA SearchFinds ==
  ASSUME NEW L, NEW n, NEW hop, NEW left, Search(L, n, hop, left),
         NEW y \in left \cap AnyId, y \notin ToSet(L), NEW rest \in SUBSET left, left \subseteq rest \cup {y}
  PROVE  Search(Append(L, y), n, hop, rest)
<1>1. PICK M, l : M = Append(L, y) /\ l = Len(L)
  OBVIOUS
<1>2. /\ L \in Seq(AnyId) /\ M \in Seq(AnyId) /\ l \in Nat /\ Len(M) = l + 1 /\ l >= 1
      /\ n \in 1..l /\ y \in hop[L[n]] /\ left \subseteq hop[L[n]]
  BY <1>1 DEF Search
<1>3. M[l + 1] = y /\ \A i \in 1..l : M[i] = L[i]
  BY <1>1, <1>2
<1>4. ToSet(M) = ToSet(L) \cup {y} /\ \A i \in 1..l : L[i] \in ToSet(L)
  <2>1. DOMAIN L = 1..l /\ DOMAIN M = 1..(l + 1) /\ 1..(l + 1) = (1..l) \cup {l + 1}
    BY <1>1, <1>2
  <2>. QED BY <1>3, <2>1 DEF ToSet
<1>5. \A i \in 1..Len(M) : i \in 1..l \/ i = l + 1
  BY <1>2
<1>6. \A i, j \in 1..Len(M) : M[i] = M[j] => i = j
  <2>1. \A i, j \in 1..l : L[i] = L[j] => i = j
    BY <1>1 DEF Search, Distinct
  <2>. QED BY <1>3, <1>4, <1>5, <2>1
<1>7. \A i \in 1..n : hop[M[i]] \subseteq ToSet(M) \cup (IF i = n THEN rest ELSE {})
  <2>1. \A i \in 1..n : hop[L[i]] \subseteq ToSet(L) \cup (IF i = n THEN left ELSE {})
    BY DEF Search, Covered
  <2>2. \A i \in 1..n : i \in 1..l
    BY <1>2
  <2>. QED BY <1>3, <1>4, <2>1, <2>2
<1>8. \A i \in 2..l : \E k \in 1..n : k < i /\ L[i] \in hop[L[k]]
  BY <1>1 DEF Search, Reached
<1>9. \A i \in 2..Len(M) : \E k \in 1..n : k < i /\ M[i] \in hop[M[k]]
  <2>1. \A k \in 1..n : k \in 1..l
    BY <1>2
  <2>2. \A i \in 2..l : i \in 1..l
    BY <1>2
  <2>3. n \in 1..n /\ n < l + 1 /\ M[l + 1] \in hop[M[n]]
    BY <1>2, <1>3
  <2>4. ASSUME NEW i \in 2..l PROVE \E k \in 1..n : k < i /\ M[i] \in hop[M[k]]
    BY <1>3, <1>8, <2>1, <2>2
  <2>5. \A i \in 2..Len(M) : i \in 2..l \/ i = l + 1
    BY <1>2
  <2>. QED BY <2>3, <2>4, <2>5
<1>10. ASSUME NEW i \in 1..Len(M), NEW j \in 1..Len(M), NEW m \in 1..Len(M),
              1 < i, i < j, M[j] \in hop[M[m]]
       PROVE  \E k \in 1..m : M[i] \in hop[M[k]]
  <2>1. i \in 1..l /\ i \in 2..Len(M)
    BY <1>2, <1>10
  <2>2. PICK k \in 1..n : M[i] \in hop[M[k]]
    BY <1>9, <2>1
  <2>3. CASE n <= m
    <3>1. k \in 1..m
      BY <1>2, <2>3
    <3>. QED BY <2>2, <3>1
  <2>4. CASE m < n
    <3>1. m \in 1..n /\ m # n /\ m \in 1..l
      BY <1>2, <2>4
    <3>2. hop[L[m]] \subseteq ToSet(L)
      BY <3>1 DEF Search, Covered
    <3>3. M[j] \in ToSet(L)
      BY <1>3, <1>10, <3>1, <3>2
    <3>4. j \in 1..l
      BY <1>3, <1>5, <3>3
    <3>5. \E b \in 1..m : L[i] \in hop[L[b]]
      BY <1>1, <1>3, <1>10, <2>1, <3>1, <3>4 DEF Search, InOrder
    <3>6. \A b \in 1..m : b \in 1..l
      BY <1>2, <3>1
    <3>. QED BY <1>3, <2>1, <3>5, <3>6
  <2>5. n \in Nat /\ m \in Nat
    BY <1>2
  <2>. QED BY <2>3, <2>4, <2>5
<1>11. n \in 0..Len(M) /\ Len(M) >= 1 /\ (rest # {} => n > 0 /\ rest \subseteq hop[M[n]])
  BY <1>2, <1>3
<1>12. Distinct(M) /\ Covered(M, n, hop, rest)
  BY <1>6, <1>7 DEF Distinct, Covered
<1>13. Reached(M, n, hop)
  BY <1>9 DEF Reached
<1>14. InOrder(M, hop)
  BY <1>10 DEF InOrder
<1>. QED BY <1>1, <1>2, <1>11, <1>12, <1>13, <1>14 DEF Search

(* Ids are finitely many, so a search ends. *)
LEMMA SearchFits ==
  ASSUME NEW L, NEW n, NEW hop, NEW left, Search(L, n, hop, left)
  PROVE  Len(L) \in Nat /\ Cardinality(AnyId) \in Nat /\ Len(L) <= Cardinality(AnyId)
<1>1. IsFiniteSet(AnyId)
  BY FS_AddElement, NamesAssumption DEF AnyId
<1>2. Cardinality(AnyId) \in Nat
  BY <1>1, FS_CardinalityType
<1>3. L \in Seq(AnyId) /\ Len(L) \in Nat /\ L \in [1..Len(L) -> AnyId] /\ Len(L) >= 1
  BY DEF Search
<1>4. IsFiniteSet(1..Len(L)) /\ Cardinality(1..Len(L)) = Len(L)
  BY <1>3, FS_Interval
<1>5. SUFFICES ASSUME Cardinality(AnyId) < Len(L) PROVE FALSE
  BY <1>2, <1>3
<1>6. \E x, y \in 1..Len(L) : x # y /\ L[x] = L[y]
  BY <1>1, <1>3, <1>4, <1>5, FS_PigeonHole
<1>. QED BY <1>6 DEF Search, Distinct

(* What n hops reach. *)
Balls(ball, id, hop, top) ==
  /\ ball \in [0..top -> SUBSET AnyId] /\ ball[0] = {id}
  /\ \A n \in 1..top : ball[n] = ball[n - 1] \cup UNION {hop[x] : x \in ball[n - 1]}

(* More hops reach no less. *)
LEMMA BallsGrow ==
  ASSUME NEW top \in Nat, NEW id, NEW hop, NEW ball, Balls(ball, id, hop, top),
         NEW m \in 0..top, NEW n \in 0..top, m <= n
  PROVE  ball[m] \subseteq ball[n]
<1> DEFINE G == {i \in Nat : m + i <= top => ball[m] \subseteq ball[m + i]}
<1>1. 0 \in G
  <2>1. m + 0 = m
    OBVIOUS
  <2>. QED BY <2>1
<1>2. ASSUME NEW i \in 0..(n - m - 1), i \in G PROVE i + 1 \in G
  <2>1. m + (i + 1) \in 1..top /\ (m + (i + 1)) - 1 = m + i /\ m + i <= top
    OBVIOUS
  <2>2. ball[m + i] \subseteq ball[m + (i + 1)]
    BY <2>1 DEF Balls
  <2>. QED BY <1>2, <2>1, <2>2
<1> HIDE DEF G
<1>3. n - m \in Nat
  OBVIOUS
<1>4. 0..(n - m) \subseteq G
  BY <1>1, <1>2, <1>3, Induction
<1>5. n - m \in G /\ m + (n - m) = n
  BY <1>3, <1>4
<1>. QED BY <1>5 DEF G

(* A search that is over has found what can be reached, nearest first.      *)
LEMMA SearchEnds ==
  ASSUME NEW L, NEW hop, Search(L, Len(L), hop, {}), NEW id, L[1] = id,
         NEW ball, Balls(ball, id, hop, Cardinality(AnyId))
  PROVE  /\ ToSet(L) = ball[Cardinality(AnyId)]
         /\ \A n \in 0..Cardinality(AnyId) : \A i, j \in 1..Len(L) :
              i < j /\ L[j] \in ball[n] => L[i] \in ball[n]
<1>0. PICK top, l : top = Cardinality(AnyId) /\ l = Len(L)
  OBVIOUS
<1>1. top \in Nat /\ l \in Nat /\ 1 <= l /\ l <= top /\ DOMAIN L = 1..l
  <2>1. Len(L) \in Nat /\ Cardinality(AnyId) \in Nat /\ Len(L) <= Cardinality(AnyId)
    BY SearchFits
  <2>2. L \in Seq(AnyId) /\ Len(L) >= 1
    BY DEF Search
  <2>. QED BY <1>0, <2>1, <2>2
<1>2. \A i \in 1..l : hop[L[i]] \subseteq ToSet(L)
  BY <1>0 DEF Search, Covered
<1>3. ball[0] = {id} /\ \A n \in 0..top : ball[n] \in SUBSET AnyId
  BY <1>0 DEF Balls
<1>4. \A n \in 0..(top - 1) : ball[n + 1] = ball[n] \cup UNION {hop[x] : x \in ball[n]}
  <2>1. \A n \in 0..(top - 1) : n + 1 \in 1..top /\ (n + 1) - 1 = n
    BY <1>1
  <2>. QED BY <1>0, <2>1 DEF Balls
<1>5. \A n \in 0..top : ball[n] \subseteq ToSet(L)
  <2> DEFINE G == {n \in Nat : ball[n] \subseteq ToSet(L)}
  <2>1. 0 \in G
    BY <1>1, <1>3 DEF ToSet
  <2>2. ASSUME NEW n \in 0..(top - 1), n \in G PROVE n + 1 \in G
    <3>1. \A x \in ball[n] : \E i \in 1..l : x = L[i]
      BY <1>1, <2>2 DEF ToSet
    <3>2. \A x \in ball[n] : hop[x] \subseteq ToSet(L)
      BY <1>2, <3>1
    <3>3. ball[n + 1] \subseteq ToSet(L)
      BY <1>4, <2>2, <3>2
    <3>. QED BY <3>3
  <2> HIDE DEF G
  <2>3. 0..top \subseteq G
    BY <1>1, <2>1, <2>2, Induction
  <2>. QED BY <2>3 DEF G
<1>6. \A i \in 1..l : L[i] \in ball[i - 1]
  <2> DEFINE G == {n \in Nat : \A i \in 1..l : i <= n + 1 => L[i] \in ball[i - 1]}
  <2>1. 0 \in G
    <3>1. \A i \in 1..l : i <= 0 + 1 => i = 1
      OBVIOUS
    <3>2. L[1] \in ball[1 - 1]
      BY <1>3
    <3>. QED BY <3>1, <3>2
  <2>2. ASSUME NEW n \in 0..(top - 1), n \in G PROVE n + 1 \in G
    <3>1. ASSUME NEW i \in 1..l, i = n + 2 PROVE L[i] \in ball[i - 1]
      <4>1. PICK k \in 1..l : k < i /\ L[i] \in hop[L[k]]
        BY <1>0, <1>1, <3>1 DEF Search, Reached
      <4>2. L[k] \in ball[k - 1]
        BY <2>2, <3>1, <4>1
      <4>3. k - 1 \in 0..top /\ n \in 0..top /\ k - 1 <= n
        BY <1>1, <3>1, <4>1
      <4>4. ball[k - 1] \subseteq ball[n]
        BY <1>0, <1>1, <4>3, BallsGrow
      <4>5. L[i] \in ball[n + 1]
        BY <1>4, <4>1, <4>2, <4>4
      <4>6. i - 1 = n + 1
        BY <3>1
      <4>. QED BY <4>5, <4>6
    <3>2. \A i \in 1..l : i <= (n + 1) + 1 => i <= n + 1 \/ i = n + 2
      OBVIOUS
    <3>3. \A i \in 1..l : i <= (n + 1) + 1 => L[i] \in ball[i - 1]
      BY <2>2, <3>1, <3>2
    <3>. QED BY <3>3
  <2> HIDE DEF G
  <2>3. 0..top \subseteq G
    BY <1>1, <2>1, <2>2, Induction
  <2>4. top \in G
    BY <1>1, <2>3
  <2>. QED BY <1>1, <2>4 DEF G
<1>7. ToSet(L) = ball[top]
  <2>1. ASSUME NEW i \in 1..l PROVE L[i] \in ball[top]
    <3>1. i - 1 \in 0..top /\ top \in 0..top /\ i - 1 <= top
      BY <1>1
    <3>2. ball[i - 1] \subseteq ball[top]
      BY <1>0, <1>1, <3>1, BallsGrow
    <3>. QED BY <1>6, <3>2
  <2>2. ball[top] \subseteq ToSet(L)
    BY <1>1, <1>5
  <2>. QED BY <1>1, <2>1, <2>2 DEF ToSet
<1>8. \A n \in 0..top : \A i, j \in 1..l : i < j /\ L[j] \in ball[n] => L[i] \in ball[n]
  <2> DEFINE G == {n \in Nat : \A i, j \in 1..l : i < j /\ L[j] \in ball[n] => L[i] \in ball[n]}
  <2>0. \A i, j \in 1..l : L[i] = L[j] => i = j
    BY <1>0 DEF Search, Distinct
  <2>1. 0 \in G
    <3>1. ASSUME NEW i \in 1..l, NEW j \in 1..l, i < j, L[j] \in ball[0] PROVE FALSE
      <4>1. L[j] = L[1] /\ 1 \in 1..l
        BY <1>1, <1>3, <3>1
      <4>. QED BY <2>0, <3>1, <4>1
    <3>. QED BY <3>1
  <2>2. ASSUME NEW n \in 0..(top - 1), n \in G PROVE n + 1 \in G
    <3>1. ASSUME NEW i \in 1..l, NEW j \in 1..l, i < j, L[j] \in ball[n + 1]
          PROVE  L[i] \in ball[n + 1]
      <4>1. CASE i = 1
        <5>1. L[1] \in ball[0] /\ 0 \in 0..top /\ n + 1 \in 0..top /\ 0 <= n + 1
          BY <1>1, <1>3
        <5>2. ball[0] \subseteq ball[n + 1]
          BY <1>0, <1>1, <5>1, BallsGrow
        <5>. QED BY <4>1, <5>1, <5>2
      <4>2. CASE L[j] \in ball[n]
        BY <1>4, <2>2, <3>1, <4>2
      <4>3. CASE i # 1 /\ L[j] \notin ball[n]
        <5>1. PICK x \in ball[n] : L[j] \in hop[x]
          BY <1>4, <3>1, <4>3
        <5>2. n \in 0..top
          BY <1>1
        <5>3. PICK m \in 1..l : x = L[m]
          BY <1>1, <1>5, <5>2 DEF ToSet
        <5>4. PICK k \in 1..m : L[i] \in hop[L[k]]
          BY <1>0, <3>1, <4>3, <5>1, <5>3 DEF Search, InOrder
        <5>5. k \in 1..l /\ (k = m \/ k < m)
          BY <1>1
        <5>6. L[k] \in ball[n]
          BY <2>2, <5>1, <5>3, <5>5
        <5>. QED BY <1>4, <5>4, <5>6
      <4>. QED BY <4>1, <4>2, <4>3
    <3>. QED BY <3>1
  <2> HIDE DEF G
  <2>3. 0..top \subseteq G
    BY <1>1, <2>1, <2>2, Induction
  <2>. QED BY <2>3 DEF G
<1>. QED BY <1>0, <1>7, <1>8

-----------------------------------------------------------------------------
(* A loop `for !done { w = turn(w) }; return ans(w)`, written as a recursive *)
(* function of the loop's state w, is well defined, whether or not the loop  *)
(* ends from every state: Ran(t, n, w) says that it ends from w after n      *)
(* turns, t being the states it goes through.                                *)
Ran(t, n, w, done, turn) ==
  /\ t[0] = w /\ t[n] \in done
  /\ \A i \in 1..n : t[i - 1] \notin done /\ t[i] = turn[t[i - 1]]

Looped(g, W, done, turn, ans) ==
  g = [w \in W |-> IF w \in done THEN ans[w] ELSE g[turn[w]]]

(* The loop's answer exists as a function of every state. *)
LEMMA LoopDefined ==
  ASSUME NEW W, NEW done \in SUBSET W, NEW turn \in [W -> W], NEW ans, DOMAIN ans = W
  PROVE  \E g : Looped(g, W, done, turn, ans)
<1> DEFINE Answers(w) == {v \in {ans[u] : u \in W} :
                           \E n \in Nat : \E t \in [0..n -> W] :
                             Ran(t, n, w, done, turn) /\ v = ans[t[n]]}
           g == [w \in W |-> CHOOSE v : v \in Answers(w)]
<1>1. ASSUME NEW w \in done PROVE Answers(w) = {ans[w]}
  <2>1. ASSUME NEW n \in Nat, NEW t \in [0..n -> W], Ran(t, n, w, done, turn) PROVE t[n] = w
    <3>1. n = 0
      <4>1. SUFFICES ASSUME n # 0 PROVE FALSE
        OBVIOUS
      <4>2. 1 \in 1..n /\ 1 - 1 = 0
        BY <4>1
      <4>3. t[0] \notin done
        BY <2>1, <4>2 DEF Ran
      <4>. QED BY <2>1, <4>3 DEF Ran
    <3>. QED BY <2>1, <3>1 DEF Ran
  <2>2. [i \in 0..0 |-> w] \in [0..0 -> W] /\ [i \in 0..0 |-> w][0] = w
        /\ Ran([i \in 0..0 |-> w], 0, w, done, turn)
    BY DEF Ran
  <2>3. ans[w] \in Answers(w)
    BY <2>2
  <2>. QED BY <2>1, <2>3
<1>2. ASSUME NEW w \in W \ done PROVE Answers(w) = Answers(turn[w])
  <2>1. ASSUME NEW v \in Answers(w) PROVE v \in Answers(turn[w])
    <3>0. PICK n \in Nat : \E t \in [0..n -> W] : Ran(t, n, w, done, turn) /\ v = ans[t[n]]
      BY <2>1
    <3>1. PICK t \in [0..n -> W] : Ran(t, n, w, done, turn) /\ v = ans[t[n]]
      BY <3>0
    <3>2. n # 0
      BY <3>1 DEF Ran
    <3>3. n - 1 \in Nat /\ \A i \in 0..(n - 1) : i + 1 \in 0..n
      BY <3>2
    <3>4. PICK s : s = [i \in 0..(n - 1) |-> t[i + 1]]
      OBVIOUS
    <3>5. s \in [0..(n - 1) -> W] /\ s[n - 1] = t[n] /\ s[0] = t[1] /\ t[1] = turn[t[0]]
      <4>1. 0 \in 0..(n - 1) /\ n - 1 \in 0..(n - 1) /\ (n - 1) + 1 = n /\ 0 + 1 = 1 /\ 1 \in 1..n /\ 1 - 1 = 0
        BY <3>2
      <4>2. t[1] = turn[t[0]]
        BY <3>1, <4>1 DEF Ran
      <4>. QED BY <3>3, <3>4, <4>1, <4>2
    <3>6. ASSUME NEW i \in 1..(n - 1) PROVE s[i - 1] \notin done /\ s[i] = turn[s[i - 1]]
      <4>1. i + 1 \in 1..n /\ (i + 1) - 1 = i /\ i - 1 \in 0..(n - 1) /\ i \in 0..(n - 1) /\ (i - 1) + 1 = i
        BY <3>2
      <4>2. s[i - 1] = t[i] /\ s[i] = t[i + 1]
        BY <3>4, <4>1
      <4>3. t[i] \notin done /\ t[i + 1] = turn[t[i]]
        BY <3>1, <4>1 DEF Ran
      <4>. QED BY <4>2, <4>3
    <3>7. t[0] = w /\ t[n] \in done
      BY <3>1 DEF Ran
    <3>8. Ran(s, n - 1, turn[w], done, turn)
      BY <3>5, <3>6, <3>7 DEF Ran
    <3>. QED BY <2>1, <3>1, <3>3, <3>5, <3>8
  <2>2. ASSUME NEW v \in Answers(turn[w]) PROVE v \in Answers(w)
    <3>0. PICK n \in Nat : \E t \in [0..n -> W] : Ran(t, n, turn[w], done, turn) /\ v = ans[t[n]]
      BY <2>2
    <3>1. PICK t \in [0..n -> W] : Ran(t, n, turn[w], done, turn) /\ v = ans[t[n]]
      BY <3>0
    <3>2. PICK s : s = [i \in 0..(n + 1) |-> IF i = 0 THEN w ELSE t[i - 1]]
      OBVIOUS
    <3>3. \A i \in 1..(n + 1) : i - 1 \in 0..n /\ s[i] = t[i - 1] /\ i \in 0..(n + 1)
      BY <3>2
    <3>4. s \in [0..(n + 1) -> W] /\ s[0] = w /\ s[n + 1] = t[n]
      <4>1. n + 1 \in 1..(n + 1) /\ (n + 1) - 1 = n /\ 0 \in 0..(n + 1)
        OBVIOUS
      <4>2. \A i \in 0..(n + 1) : i = 0 \/ i - 1 \in 0..n
        OBVIOUS
      <4>. QED BY <3>2, <3>3, <4>1, <4>2
    <3>5. t[0] = turn[w] /\ t[n] \in done
      BY <3>1 DEF Ran
    <3>6. ASSUME NEW i \in 1..(n + 1) PROVE s[i - 1] \notin done /\ s[i] = turn[s[i - 1]]
      <4>1. CASE i = 1
        BY <3>3, <3>4, <3>5, <4>1
      <4>2. CASE i # 1
        <5>1. i - 1 \in 1..n /\ i - 1 \in 1..(n + 1)
          BY <4>2
        <5>2. t[(i - 1) - 1] \notin done /\ t[i - 1] = turn[t[(i - 1) - 1]]
          BY <3>1, <5>1 DEF Ran
        <5>3. s[i] = t[i - 1] /\ s[i - 1] = t[(i - 1) - 1]
          BY <3>3, <5>1
        <5>. QED BY <5>2, <5>3
      <4>. QED BY <4>1, <4>2
    <3>7. Ran(s, n + 1, w, done, turn)
      BY <3>4, <3>5, <3>6 DEF Ran
    <3>8. n + 1 \in Nat /\ v = ans[s[n + 1]]
      BY <3>1, <3>4
    <3>. QED BY <2>2, <3>4, <3>7, <3>8
  <2>. QED BY <2>1, <2>2
<1> HIDE DEF Answers
<1>3. ASSUME NEW w \in W PROVE g[w] = IF w \in done THEN ans[w] ELSE g[turn[w]]
  <2>1. g[w] = CHOOSE v : v \in Answers(w)
    OBVIOUS
  <2>2. turn[w] \in W /\ g[turn[w]] = CHOOSE v : v \in Answers(turn[w])
    OBVIOUS
  <2> HIDE DEF g
  <2>3. CASE w \in done
    BY <1>1, <2>1, <2>3
  <2>4. CASE w \notin done
    BY <1>2, <2>1, <2>2, <2>4
  <2>. QED BY <2>3, <2>4
<1>4. g = [w \in W |-> g[w]]
  OBVIOUS
<1> HIDE DEF g
<1>5. Looped(g, W, done, turn, ans)
  BY <1>3, <1>4 DEF Looped
<1>. QED BY <1>5

-----------------------------------------------------------------------------
(* The walks of the graph. *)

(* The nodes one hop away from each node, and those the edges of a list     *)
(* lead to.                                                                 *)
Hops(kind, up) ==
  [x \in AnyId |-> {Far(e, up) : e \in {f \in Edges(out) : f.kind = kind /\ Far(f, ~up) = x}}]
Ahead(todo, kind, up) == {Far(e, up) : e \in {f \in ToSet(todo) : f.kind = kind}}

(* The index a walk uses has the edges of each node. *)
LEMMA IndexOfEdges ==
  ASSUME TypeOK, Mirrored, NEW up \in BOOLEAN, NEW x \in AnyId
  PROVE  LET list == (IF up THEN in ELSE out)[x]
         IN /\ list \in Seq(Edge)
            /\ ToSet(list) = {e \in Edges(out) : Far(e, ~up) = x}
<1>1. out \in [AnyId -> Seq(Edge)] /\ in \in [AnyId -> Seq(Edge)] /\ Edges(out) = Edges(in)
  BY DEF TypeOK, Mirrored
<1>2. CASE up
  <2>1. \A e \in ToSet(in[x]) : e \in Edges(in) /\ e.to = x
    BY DEF Mirrored, Edges
  <2>2. \A e \in Edges(in) : e.to = x => e \in ToSet(in[x])
    BY DEF Mirrored, Edges
  <2>. QED BY <1>1, <1>2, <2>1, <2>2 DEF Far
<1>3. CASE ~up
  <2>1. \A e \in ToSet(out[x]) : e \in Edges(out) /\ e.from = x
    BY DEF Mirrored, Edges
  <2>2. \A e \in Edges(out) : e.from = x => e \in ToSet(out[x])
    BY DEF Mirrored, Edges
  <2>. QED BY <1>1, <1>3, <2>1, <2>2 DEF Far
<1>. QED BY <1>2, <1>3

(* Both ends of an edge are nodes. *)
LEMMA EndsOfEdges ==
  ASSUME TypeOK, Mirrored, NEW e \in Edges(out), NEW up \in BOOLEAN
  PROVE  Far(e, up) \in DOMAIN nodes /\ Far(e, up) \in AnyId
  BY DEF Mirrored, TypeOK, Far

(* The edges filed under a node lead to what is one hop away from it. *)
LEMMA AheadOf ==
  ASSUME TypeOK, Mirrored, NEW up \in BOOLEAN, NEW x \in AnyId, NEW kind
  PROVE  Ahead((IF up THEN in ELSE out)[x], kind, up) = Hops(kind, up)[x]
<1>1. PICK list : list = (IF up THEN in ELSE out)[x]
  OBVIOUS
<1>2. ToSet(list) = {e \in Edges(out) : Far(e, ~up) = x}
  BY <1>1, IndexOfEdges
<1>3. {f \in ToSet(list) : f.kind = kind} = {f \in Edges(out) : f.kind = kind /\ Far(f, ~up) = x}
  BY <1>2
<1>. QED BY <1>1, <1>3 DEF Ahead, Hops

(* The state of a walk from id: what it has found, of which it has taken    *)
(* all but the queue; what it has seen is what it has found.                *)
Found(w, id) == <<id>> \o w.order
Taken(w) == Len(w.order) + 1 - Len(w.queue)
WalkOK(w, id, kind, up) ==
  /\ w \in Walk /\ w.seen = ToSet(Found(w, id)) /\ ToSet(w.todo) \subseteq Edges(out)
  /\ \A i \in 1..Len(w.queue) : w.queue[i] = Found(w, id)[Taken(w) + i]
  /\ Search(Found(w, id), Taken(w), Hops(kind, up), Ahead(w.todo, kind, up))

(* The state bfs sets up is in order. *)
LEMMA WalkBegins ==
  ASSUME NEW id \in AnyId, NEW kind, NEW up
  PROVE  WalkOK(Start(id), id, kind, up)
<1>1. PICK w : w = Start(id)
  OBVIOUS
<1>2. /\ w \in Walk /\ w.order = <<>> /\ w.queue = <<id>> /\ w.todo = <<>> /\ w.seen = {id}
  BY <1>1 DEF Start, Walk
<1>3. Found(w, id) = <<id>> /\ Taken(w) = 0
  BY <1>2 DEF Found, Taken
<1>4. ToSet(<<id>>) = {id} /\ ToSet(w.todo) = {}
  BY <1>2 DEF ToSet
<1>5. Ahead(w.todo, kind, up) = {}
  BY <1>4 DEF Ahead
<1>6. Search(<<id>>, 0, Hops(kind, up), {})
  BY SearchBegins
<1>7. \A i \in 1..Len(w.queue) : w.queue[i] = Found(w, id)[Taken(w) + i]
  BY <1>2, <1>3
<1>. QED BY <1>1, <1>2, <1>3, <1>4, <1>5, <1>6, <1>7 DEF WalkOK

(* Every turn of a loop that is not over leads to a state of the walk. *)
LEMMA TurnTyped ==
  ASSUME TypeOK, NEW w \in Walk, w.queue # <<>> \/ w.todo # <<>>, NEW kind, NEW up \in BOOLEAN
  PROVE  Turn(w, kind, up) \in Walk
<1>1. /\ w.seen \in SUBSET AnyId /\ w.order \in Seq(AnyId) /\ w.queue \in Seq(AnyId) /\ w.todo \in Seq(Edge)
      /\ w = [seen |-> w.seen, order |-> w.order, queue |-> w.queue, todo |-> w.todo]
  BY DEF Walk
<1>2. CASE w.todo = <<>>
  <2>1. Head(w.queue) \in AnyId /\ Tail(w.queue) \in Seq(AnyId)
    BY <1>1, <1>2
  <2>2. PICK list : list = (IF up THEN in ELSE out)[Head(w.queue)]
    OBVIOUS
  <2>3. list \in Seq(Edge)
    BY <2>1, <2>2 DEF TypeOK
  <2>4. Turn(w, kind, up) = [w EXCEPT !.queue = Tail(@), !.todo = list]
    BY <1>2, <2>2 DEF Turn
  <2>5. Turn(w, kind, up) = [seen |-> w.seen, order |-> w.order, queue |-> Tail(w.queue), todo |-> list]
    BY <1>1, <2>4
  <2>. QED BY <1>1, <2>1, <2>3, <2>5 DEF Walk
<1>3. CASE w.todo # <<>>
  <2>1. Head(w.todo) \in Edge /\ Tail(w.todo) \in Seq(Edge)
    BY <1>1, <1>3
  <2>2. PICK e, y : e = Head(w.todo) /\ y = Far(e, up)
    OBVIOUS
  <2>3. y \in AnyId
    BY <2>1, <2>2 DEF Far, Edge
  <2>4. PICK rest : rest = [w EXCEPT !.todo = Tail(@)]
    OBVIOUS
  <2>5. rest = [seen |-> w.seen, order |-> w.order, queue |-> w.queue, todo |-> Tail(w.todo)]
    BY <1>1, <2>4
  <2>6. rest \in Walk
    BY <1>1, <2>1, <2>5 DEF Walk
  <2>7. Visit(rest, y) \in Walk
    <3>1. Append(w.order, y) \in Seq(AnyId) /\ Append(w.queue, y) \in Seq(AnyId)
      BY <1>1, <2>3
    <3>2. w.seen \cup {y} \in SUBSET AnyId
      BY <1>1, <2>3
    <3>. QED BY <1>1, <2>1, <2>5, <3>1, <3>2 DEF Visit, Walk
  <2>8. Turn(w, kind, up) = IF e.kind # kind \/ y \in w.seen THEN rest ELSE Visit(rest, y)
    BY <1>3, <2>2, <2>4 DEF Turn
  <2>. QED BY <2>6, <2>7, <2>8
<1>. QED BY <1>2, <1>3

(* The outer loop takes the next node from the queue: one more is taken,    *)
(* and the walk stays in order.                                             *)
LEMMA TakingKeeps ==
  ASSUME TypeOK, Mirrored, NEW up \in BOOLEAN, NEW kind, NEW id, NEW w, WalkOK(w, id, kind, up),
         w.todo = <<>>, w.queue # <<>>, NEW z, z = Turn(w, kind, up)
  PROVE  WalkOK(z, id, kind, up) /\ Taken(z) = Taken(w) + 1
<1>1. /\ w \in Walk /\ w.order \in Seq(AnyId) /\ w.queue \in Seq(AnyId)
      /\ w = [seen |-> w.seen, order |-> w.order, queue |-> w.queue, todo |-> w.todo]
  BY DEF WalkOK, Walk
<1>2. z \in Walk
  BY <1>1, TurnTyped
<1>3. PICK L, n, hop : L = Found(w, id) /\ n = Taken(w) /\ hop = Hops(kind, up)
  OBVIOUS
<1>4. Search(L, n, hop, {})
  <2>1. Ahead(w.todo, kind, up) = {}
    BY DEF Ahead, ToSet
  <2>. QED BY <1>3, <2>1 DEF WalkOK
<1>5. PICK x, list : x = Head(w.queue) /\ list = (IF up THEN in ELSE out)[x]
  OBVIOUS
<1>6. x \in AnyId
  BY <1>1, <1>5
<1>7. z = [seen |-> w.seen, order |-> w.order, queue |-> Tail(w.queue), todo |-> list]
  <2>1. z = [w EXCEPT !.queue = Tail(@), !.todo = list]
    BY <1>5 DEF Turn
  <2>. QED BY <1>1, <2>1
<1>8. /\ z.order = w.order /\ z.seen = w.seen /\ z.todo = list
      /\ Len(w.queue) \in Nat \ {0} /\ Len(z.queue) = Len(w.queue) - 1
      /\ \A i \in 1..Len(z.queue) : z.queue[i] = w.queue[i + 1] /\ i + 1 \in 1..Len(w.queue)
  BY <1>1, <1>7
<1>9. Found(z, id) = L
  BY <1>3, <1>8 DEF Found
<1>10. n \in Nat /\ Len(L) \in Nat /\ Taken(z) = n + 1 /\ n + Len(w.queue) = Len(L) /\ L \in Seq(AnyId)
  <2>1. L \in Seq(AnyId) /\ n \in Nat /\ Len(L) \in Nat
    BY <1>4 DEF Search
  <2>2. Len(w.order) \in Nat /\ Len(w.queue) \in Nat
    BY <1>1
  <2>3. Len(L) = Len(w.order) + 1
    BY <1>1, <1>3, <2>1 DEF Found
  <2>. QED BY <1>3, <1>8, <2>1, <2>2, <2>3 DEF Taken
<1>11. \A i \in 1..Len(w.queue) : w.queue[i] = L[n + i]
  BY <1>3 DEF WalkOK
<1>12. x = L[n + 1] /\ n < Len(L)
  <2>1. 1 \in 1..Len(w.queue) /\ x = w.queue[1]
    BY <1>1, <1>5, <1>8
  <2>. QED BY <1>10, <1>11, <2>1
<1>13. Search(L, n + 1, hop, hop[x])
  BY <1>4, <1>12, SearchTakes
<1>14. Ahead(list, kind, up) = hop[x]
  BY <1>3, <1>5, <1>6, AheadOf
<1>15. ToSet(list) \subseteq Edges(out)
  BY <1>5, <1>6, IndexOfEdges
<1>16. ASSUME NEW i \in 1..Len(z.queue) PROVE z.queue[i] = L[(n + 1) + i]
  <2>1. i + 1 \in 1..Len(w.queue) /\ z.queue[i] = w.queue[i + 1]
    BY <1>8
  <2>2. z.queue[i] = L[n + (i + 1)]
    BY <1>11, <2>1
  <2>3. n + (i + 1) = (n + 1) + i
    BY <1>8, <1>10
  <2>. QED BY <2>2, <2>3
<1>17. w.seen = ToSet(L)
  BY <1>3 DEF WalkOK
<1>18. Taken(z) = Taken(w) + 1
  BY <1>3, <1>10
<1>19. Search(Found(z, id), Taken(z), Hops(kind, up), Ahead(z.todo, kind, up))
  BY <1>3, <1>8, <1>9, <1>10, <1>13, <1>14
<1>20. z.seen = ToSet(Found(z, id)) /\ ToSet(z.todo) \subseteq Edges(out)
  BY <1>8, <1>9, <1>15, <1>17
<1>21. \A i \in 1..Len(z.queue) : z.queue[i] = Found(z, id)[Taken(z) + i]
  BY <1>9, <1>10, <1>16
<1>. QED BY <1>2, <1>18, <1>19, <1>20, <1>21 DEF WalkOK

(* The inner loop looks at the next edge of that node: one less is left,    *)
(* and the walk stays in order, whether the far end is new, seen, or the    *)
(* edge of another kind.                                                    *)
LEMMA LookingKeeps ==
  ASSUME TypeOK, Mirrored, NEW up \in BOOLEAN, NEW kind, NEW id, NEW w, WalkOK(w, id, kind, up),
         w.todo # <<>>, NEW z, z = Turn(w, kind, up)
  PROVE  WalkOK(z, id, kind, up) /\ Taken(z) = Taken(w) /\ Len(z.todo) = Len(w.todo) - 1
<1>1. /\ w \in Walk /\ w.order \in Seq(AnyId) /\ w.queue \in Seq(AnyId) /\ w.todo \in Seq(Edge)
      /\ w = [seen |-> w.seen, order |-> w.order, queue |-> w.queue, todo |-> w.todo]
  BY DEF WalkOK, Walk
<1>2. z \in Walk
  BY <1>1, TurnTyped
<1>3. PICK L, n, hop, left : /\ L = Found(w, id) /\ n = Taken(w) /\ hop = Hops(kind, up)
                             /\ left = Ahead(w.todo, kind, up)
  OBVIOUS
<1>4. Search(L, n, hop, left) /\ w.seen = ToSet(L) /\ ToSet(w.todo) \subseteq Edges(out)
      /\ \A i \in 1..Len(w.queue) : w.queue[i] = L[n + i]
  BY <1>3 DEF WalkOK
<1>5. PICK e, y, todo, rest : e = Head(w.todo) /\ y = Far(e, up) /\ todo = Tail(w.todo)
                              /\ rest = [w EXCEPT !.todo = todo]
  OBVIOUS
<1>6. rest = [seen |-> w.seen, order |-> w.order, queue |-> w.queue, todo |-> todo]
  BY <1>1, <1>5
<1>7. z = IF e.kind # kind \/ y \in w.seen THEN rest ELSE Visit(rest, y)
  BY <1>5 DEF Turn
<1>8. ToSet(w.todo) = ToSet(todo) \cup {e} /\ Len(todo) = Len(w.todo) - 1
  <2>1. Len(w.todo) \in Nat \ {0} /\ todo \in Seq(Edge) /\ Len(todo) = Len(w.todo) - 1
    BY <1>1, <1>5
  <2>2. e = w.todo[1] /\ \A i \in 1..Len(todo) : todo[i] = w.todo[i + 1]
    BY <1>1, <1>5
  <2>3. DOMAIN todo = 1..Len(todo) /\ DOMAIN w.todo = 1..Len(w.todo)
    BY <1>1, <2>1
  <2>4. \A i \in 1..Len(w.todo) : i = 1 \/ (i - 1 \in 1..Len(todo) /\ (i - 1) + 1 = i)
    BY <2>1
  <2>5. ASSUME NEW f \in ToSet(w.todo) PROVE f \in ToSet(todo) \cup {e}
    <3>1. PICK i \in 1..Len(w.todo) : f = w.todo[i]
      BY <2>3 DEF ToSet
    <3>2. CASE i = 1
      BY <2>2, <3>1, <3>2
    <3>3. CASE i # 1
      <4>1. i - 1 \in 1..Len(todo) /\ (i - 1) + 1 = i
        BY <2>4, <3>3
      <4>2. todo[i - 1] = f
        BY <2>2, <3>1, <4>1
      <4>. QED BY <2>3, <4>1, <4>2 DEF ToSet
    <3>. QED BY <3>2, <3>3
  <2>6. ASSUME NEW f \in ToSet(todo) \cup {e} PROVE f \in ToSet(w.todo)
    <3>1. \A i \in 1..Len(todo) : i + 1 \in 1..Len(w.todo)
      BY <2>1
    <3>2. 1 \in 1..Len(w.todo)
      BY <2>1
    <3>. QED BY <2>2, <2>3, <3>1, <3>2 DEF ToSet
  <2>. QED BY <2>1, <2>5, <2>6
<1>9. e \in Edges(out) /\ y \in DOMAIN nodes /\ y \in AnyId
  <2>1. e \in Edges(out)
    BY <1>4, <1>8
  <2>. QED BY <1>5, <2>1, EndsOfEdges
<1>10. PICK ahead : ahead = Ahead(todo, kind, up)
  OBVIOUS
<1>11. ahead \subseteq left /\ left \subseteq ahead \cup {y} /\ (e.kind # kind => left = ahead)
       /\ (e.kind = kind => y \in left)
  BY <1>3, <1>5, <1>8, <1>10 DEF Ahead
<1>12. ToSet(todo) \subseteq Edges(out)
  BY <1>4, <1>8
<1>13. CASE e.kind # kind \/ y \in w.seen
  <2>1. z.seen = w.seen /\ z.order = w.order /\ z.queue = w.queue /\ z.todo = todo
    BY <1>6, <1>7, <1>13
  <2>2. Found(z, id) = L /\ Taken(z) = n
    BY <1>3, <2>1 DEF Found, Taken
  <2>3. left \subseteq ahead \cup ToSet(L) /\ ahead \in SUBSET left
    BY <1>4, <1>11, <1>13
  <2>4. Search(L, n, hop, ahead)
    BY <1>4, <2>3, SearchSkips
  <2>5. Search(Found(z, id), Taken(z), Hops(kind, up), Ahead(z.todo, kind, up))
    BY <1>3, <1>10, <2>1, <2>2, <2>4
  <2>6. \A i \in 1..Len(z.queue) : z.queue[i] = Found(z, id)[Taken(z) + i]
    BY <1>4, <2>1, <2>2
  <2>7. z.seen = ToSet(Found(z, id)) /\ ToSet(z.todo) \subseteq Edges(out)
    BY <1>4, <1>12, <2>1, <2>2
  <2>. QED BY <1>2, <1>3, <1>8, <2>1, <2>2, <2>5, <2>6, <2>7 DEF WalkOK
<1>14. CASE e.kind = kind /\ y \notin w.seen
  <2>1. /\ z.seen = w.seen \cup {y} /\ z.order = Append(w.order, y)
        /\ z.queue = Append(w.queue, y) /\ z.todo = todo
    BY <1>6, <1>7, <1>9, <1>14 DEF Visit
  <2>2. L \in Seq(AnyId) /\ Len(L) \in Nat /\ id \in AnyId /\ n \in Nat
    <3>1. L \in Seq(AnyId) /\ Len(L) >= 1 /\ n \in Nat
      BY <1>4 DEF Search
    <3>2. L[1] = id
      BY <1>1, <1>3 DEF Found
    <3>. QED BY <3>1, <3>2
  <2>3. PICK M : M = Append(L, y)
    OBVIOUS
  <2>4. Found(z, id) = M
    BY <1>1, <1>3, <1>9, <2>1, <2>2, <2>3 DEF Found
  <2>5. Len(w.order) \in Nat /\ Len(w.queue) \in Nat /\ Len(z.order) = Len(w.order) + 1
        /\ Len(z.queue) = Len(w.queue) + 1 /\ Len(L) = Len(w.order) + 1
    BY <1>1, <1>3, <2>1, <2>2 DEF Found
  <2>6. Taken(z) = n /\ n + Len(w.queue) = Len(L)
    <3>1. n = Len(w.order) + 1 - Len(w.queue)
      BY <1>3 DEF Taken
    <3>2. Taken(z) = Len(z.order) + 1 - Len(z.queue)
      BY DEF Taken
    <3>3. PICK a, b, c, d : /\ a = Len(w.order) /\ b = Len(w.queue)
                            /\ c = Len(z.order) /\ d = Len(z.queue)
      OBVIOUS
    <3>4. a \in Nat /\ b \in Nat /\ c = a + 1 /\ d = b + 1 /\ Len(L) = a + 1
      BY <2>5, <3>3
    <3>5. n = a + 1 - b /\ Taken(z) = c + 1 - d
      BY <3>1, <3>2, <3>3
    <3>6. c + 1 - d = a + 1 - b /\ (a + 1 - b) + b = a + 1
      BY <3>4
    <3>7. n + b = a + 1
      BY <3>5, <3>6
    <3>8. n + Len(w.queue) = Len(L)
      BY <3>3, <3>4, <3>7
    <3>. QED BY <3>5, <3>6, <3>8
  <2>7. ToSet(M) = ToSet(L) \cup {y}
    BY <1>9, <2>2, <2>3, AppendAdds
  <2>8. Search(M, n, hop, ahead)
    <3>1. y \in left \cap AnyId /\ y \notin ToSet(L) /\ ahead \in SUBSET left
      BY <1>4, <1>9, <1>11, <1>14
    <3>. QED BY <1>4, <1>11, <2>3, <3>1, SearchFinds
  <2>9. ASSUME NEW i \in 1..Len(z.queue) PROVE z.queue[i] = M[n + i]
    <3>1. CASE i \in 1..Len(w.queue)
      <4>1. z.queue[i] = w.queue[i]
        BY <1>1, <1>9, <2>1, <3>1
      <4>2. n + i \in 1..Len(L)
        BY <2>2, <2>5, <2>6, <3>1
      <4>3. M[n + i] = L[n + i]
        BY <1>9, <2>2, <2>3, <4>2
      <4>. QED BY <1>4, <3>1, <4>1, <4>3
    <3>2. CASE i = Len(w.queue) + 1
      <4>1. z.queue[i] = y
        BY <1>1, <1>9, <2>1, <3>2
      <4>2. n + i = Len(L) + 1
        BY <2>2, <2>5, <2>6, <3>2
      <4>3. M[Len(L) + 1] = y
        BY <1>9, <2>2, <2>3
      <4>. QED BY <4>1, <4>2, <4>3
    <3>3. i \in 1..Len(w.queue) \/ i = Len(w.queue) + 1
      BY <2>5
    <3>. QED BY <3>1, <3>2, <3>3
  <2>10. Search(Found(z, id), Taken(z), Hops(kind, up), Ahead(z.todo, kind, up))
    BY <1>3, <1>10, <2>1, <2>4, <2>6, <2>8
  <2>11. \A i \in 1..Len(z.queue) : z.queue[i] = Found(z, id)[Taken(z) + i]
    BY <2>4, <2>6, <2>9
  <2>12. z.seen = ToSet(Found(z, id)) /\ ToSet(z.todo) \subseteq Edges(out)
    BY <1>4, <1>12, <2>1, <2>4, <2>7
  <2>. QED BY <1>2, <1>3, <1>8, <2>1, <2>6, <2>10, <2>11, <2>12 DEF WalkOK
<1>. QED BY <1>13, <1>14

(* The loop of bfs, as the function of its state that Bfs is written as. *)
Loops(g, kind, up) ==
  g = [w \in Walk |-> IF w.queue = <<>> /\ w.todo = <<>> THEN w.order ELSE g[Turn(w, kind, up)]]

(* bfs is that loop, run from the start. *)
LEMMA BfsLoops ==
  ASSUME TypeOK, NEW id, NEW kind, NEW up \in BOOLEAN
  PROVE  \E g : Loops(g, kind, up) /\ Bfs(id, kind, up) = g[Start(id)]
<1> DEFINE done == {w \in Walk : w.queue = <<>> /\ w.todo = <<>>}
           turn == [w \in Walk |-> IF w \in done THEN w ELSE Turn(w, kind, up)]
           ans  == [w \in Walk |-> w.order]
<1>1. done \in SUBSET Walk /\ turn \in [Walk -> Walk] /\ DOMAIN ans = Walk
  <2>1. \A w \in Walk : w \notin done => Turn(w, kind, up) \in Walk
    BY TurnTyped
  <2>. QED BY <2>1
<1>2. /\ \A w \in Walk : w \in done <=> w.queue = <<>> /\ w.todo = <<>>
      /\ \A w \in Walk : w \notin done => turn[w] = Turn(w, kind, up)
      /\ \A w \in Walk : ans[w] = w.order
  OBVIOUS
<1> HIDE DEF done, turn, ans
<1>3. PICK h : Looped(h, Walk, done, turn, ans)
  BY <1>1, LoopDefined
<1>4. Loops(h, kind, up)
  <2>1. ASSUME NEW w \in Walk
        PROVE  (IF w \in done THEN ans[w] ELSE h[turn[w]])
               = IF w.queue = <<>> /\ w.todo = <<>> THEN w.order ELSE h[Turn(w, kind, up)]
    BY <1>2
  <2>. QED BY <1>3, <2>1 DEF Loops, Looped
<1>5. PICK g : g = CHOOSE walk : Loops(walk, kind, up)
  OBVIOUS
<1>6. Loops(g, kind, up)
  BY <1>4, <1>5
<1>7. Bfs(id, kind, up) = g[Start(id)]
  BY <1>5 DEF Bfs, Loops
<1>. QED BY <1>6, <1>7

(* The loop ends, in a state that is in order: every turn takes a node,     *)
(* of which there are finitely many, or one of a node's edges.              *)
LEMMA LoopEnds ==
  ASSUME TypeOK, Mirrored, NEW id, NEW kind, NEW up \in BOOLEAN,
         NEW g, Loops(g, kind, up), NEW v, WalkOK(v, id, kind, up)
  PROVE  \E z : WalkOK(z, id, kind, up) /\ z.queue = <<>> /\ z.todo = <<>> /\ g[v] = z.order
<1> DEFINE Ends(w) == \E z : WalkOK(z, id, kind, up) /\ z.queue = <<>> /\ z.todo = <<>> /\ g[w] = z.order
           Bad == {w \in Walk : WalkOK(w, id, kind, up) /\ ~Ends(w)}
           top == Cardinality(AnyId)
           A == {top - Taken(w) : w \in Bad}
<1>1. \A w \in Bad : WalkOK(w, id, kind, up) /\ w \in Walk /\ ~Ends(w)
  OBVIOUS
<1>2. \A w \in Walk : WalkOK(w, id, kind, up) /\ ~Ends(w) => w \in Bad
  OBVIOUS
<1>3. v \in Walk
  BY DEF WalkOK
<1>4. SUFFICES ASSUME Bad # {} PROVE FALSE
  BY <1>2, <1>3
<1>5. \A w \in Walk : w.queue = <<>> /\ w.todo = <<>> => g[w] = w.order
  BY DEF Loops
<1>6. \A w \in Walk : ~(w.queue = <<>> /\ w.todo = <<>>) => g[w] = g[Turn(w, kind, up)]
  BY DEF Loops
<1>7. \A w : Ends(w) <=> \E z : WalkOK(z, id, kind, up) /\ z.queue = <<>> /\ z.todo = <<>> /\ g[w] = z.order
  OBVIOUS
<1> HIDE DEF Ends, Bad
<1>8. ASSUME NEW w \in Bad PROVE top \in Nat /\ Taken(w) \in Nat /\ top - Taken(w) \in Nat /\ Len(w.todo) \in Nat
  <2>1. Search(Found(w, id), Taken(w), Hops(kind, up), Ahead(w.todo, kind, up))
    BY <1>1 DEF WalkOK
  <2>2. Len(Found(w, id)) \in Nat /\ top \in Nat /\ Len(Found(w, id)) <= top
    BY <2>1, SearchFits
  <2>3. Taken(w) \in 0..Len(Found(w, id))
    BY <2>1 DEF Search
  <2>4. w.todo \in Seq(Edge)
    BY <1>1 DEF Walk
  <2>. QED BY <2>2, <2>3, <2>4
<1> HIDE DEF top
<1>9. A \in SUBSET Nat /\ A # {}
  BY <1>4, <1>8
<1>10. PICK a \in A : \A b \in A : a <= b
  BY <1>9, Smallest
<1> DEFINE B == {Len(w.todo) : w \in {u \in Bad : top - Taken(u) = a}}
<1>11. B \in SUBSET Nat /\ B # {}
  BY <1>8, <1>10
<1>12. PICK b \in B : \A c \in B : b <= c
  BY <1>11, Smallest
<1>13. PICK w \in Bad : top - Taken(w) = a /\ Len(w.todo) = b
  BY <1>12
<1>14. PICK z : z = Turn(w, kind, up)
  OBVIOUS
<1>15. ~(w.queue = <<>> /\ w.todo = <<>>)
  BY <1>1, <1>5, <1>7
<1>16. ASSUME WalkOK(z, id, kind, up) PROVE z \in Bad
  <2>1. z \in Walk
    BY <1>16 DEF WalkOK
  <2>2. g[w] = g[z]
    BY <1>1, <1>6, <1>14, <1>15
  <2>3. ~Ends(z)
    BY <1>1, <1>7, <2>2
  <2>. QED BY <1>2, <1>16, <2>1, <2>3
<1>17. CASE w.todo = <<>>
  <2>1. WalkOK(z, id, kind, up) /\ Taken(z) = Taken(w) + 1
    BY <1>1, <1>14, <1>15, <1>17, TakingKeeps
  <2>2. z \in Bad
    BY <1>16, <2>1
  <2>3. top - Taken(z) \in A
    BY <2>2
  <2>4. a <= top - Taken(z)
    BY <1>10, <2>3
  <2>. QED BY <1>8, <1>13, <2>1, <2>4
<1>18. CASE w.todo # <<>>
  <2>0. WalkOK(w, id, kind, up)
    BY <1>1
  <2> HIDE DEF A, B
  <2>1. WalkOK(z, id, kind, up) /\ Taken(z) = Taken(w) /\ Len(z.todo) = Len(w.todo) - 1
    BY <1>14, <1>18, <2>0, LookingKeeps
  <2>2. z \in Bad
    BY <1>16, <2>1
  <2>3. Len(z.todo) \in B
    BY <1>13, <2>1, <2>2 DEF B
  <2>4. b <= Len(z.todo)
    BY <1>12, <2>3
  <2>. QED BY <1>8, <1>13, <2>1, <2>4
<1>. QED BY <1>17, <1>18

(* What bfs answers, behind the node it was asked about, is a search that   *)
(* is over.                                                                 *)
LEMMA BfsSearches ==
  ASSUME TypeOK, Mirrored, NEW id \in AnyId, NEW kind, NEW up \in BOOLEAN,
         NEW L, L = <<id>> \o Bfs(id, kind, up)
  PROVE  Bfs(id, kind, up) \in Seq(AnyId) /\ Search(L, Len(L), Hops(kind, up), {})
<1>1. PICK g : Loops(g, kind, up) /\ Bfs(id, kind, up) = g[Start(id)]
  BY BfsLoops
<1>2. WalkOK(Start(id), id, kind, up)
  BY WalkBegins
<1>3. PICK z : /\ WalkOK(z, id, kind, up) /\ z.queue = <<>> /\ z.todo = <<>>
               /\ g[Start(id)] = z.order
  BY <1>1, <1>2, LoopEnds
<1>4. Found(z, id) = L /\ z.order = Bfs(id, kind, up)
  BY <1>1, <1>3 DEF Found
<1>5. z.order \in Seq(AnyId)
  BY <1>3 DEF WalkOK, Walk
<1>6. Taken(z) = Len(L)
  <2>1. Len(L) = Len(z.order) + 1
    BY <1>4, <1>5 DEF Found
  <2>2. Len(z.queue) = 0 /\ Len(z.order) \in Nat
    BY <1>3, <1>5
  <2>. QED BY <2>1, <2>2 DEF Taken
<1>7. Ahead(z.todo, kind, up) = {}
  BY <1>3 DEF Ahead, ToSet
<1>8. Search(Found(z, id), Taken(z), Hops(kind, up), Ahead(z.todo, kind, up))
  BY <1>3 DEF WalkOK
<1>. QED BY <1>4, <1>5, <1>6, <1>7, <1>8

-----------------------------------------------------------------------------
(* The reference: Ball counts hops, for every set of edges. *)
LEMMA BallCountsHops ==
  ASSUME TypeOK, Mirrored, NEW id \in AnyId, NEW kind, NEW up \in BOOLEAN
  PROVE  Balls(Ball(id, kind, up), id, Hops(kind, up), Cardinality(AnyId))
<1> DEFINE top == Cardinality(AnyId)
           T == SUBSET AnyId
           Wider(S) == S \cup {Far(e, up) : e \in {e \in Edges(out) :
                                  e.kind = kind /\ Far(e, ~up) \in S}}
           Grown(f) == f = [n \in 0..top |-> IF n = 0 THEN {id} ELSE Wider(f[n - 1])]
           step == [i \in 1..top |-> [S \in T |-> Wider(S)]]
<1>1. top \in Nat
  BY FS_AddElement, FS_CardinalityType, NamesAssumption DEF AnyId
<1>2. \A S \in T : Wider(S) \in T
  BY EndsOfEdges
<1>3. \A S \in T : Wider(S) = S \cup UNION {Hops(kind, up)[x] : x \in S}
  <2>1. ASSUME NEW S \in T, NEW y \in Wider(S), y \notin S PROVE \E x \in S : y \in Hops(kind, up)[x]
    <3>1. PICK e \in Edges(out) : e.kind = kind /\ Far(e, ~up) \in S /\ y = Far(e, up)
      BY <2>1
    <3>2. y \in Hops(kind, up)[Far(e, ~up)]
      BY <3>1 DEF Hops
    <3>. QED BY <3>1, <3>2
  <2>2. ASSUME NEW S \in T, NEW x \in S, NEW y \in Hops(kind, up)[x] PROVE y \in Wider(S)
    BY DEF Hops
  <2>3. \A S \in T : S \subseteq Wider(S)
    OBVIOUS
  <2> HIDE DEF Wider
  <2>. QED BY <2>1, <2>2, <2>3
<1>4. Ball(id, kind, up) = CHOOSE f : Grown(f)
  BY DEF Ball
<1> HIDE DEF Wider, top
<1>5. step \in [1..top -> [T -> T]] /\ {id} \in T
  BY <1>2
<1>6. \A i \in 1..top : \A S \in T : step[i][S] = Wider(S)
  OBVIOUS
<1> HIDE DEF step
<1>7. PICK f \in [0..top -> T] : Iterated(f, {id}, step, top)
  <2> HIDE DEF T
  <2>. QED BY <1>1, <1>5, Iteration
<1>8. Grown(f)
  <2>1. ASSUME NEW n \in 0..top, n # 0 PROVE step[n][f[n - 1]] = Wider(f[n - 1])
    <3>1. n \in 1..top /\ n - 1 \in 0..top
      BY <1>1, <2>1
    <3>. QED BY <1>6, <3>1
  <2>. QED BY <1>7, <2>1 DEF Iterated
<1>9. PICK ball : ball = Ball(id, kind, up)
  OBVIOUS
<1>10. Grown(ball)
  BY <1>4, <1>8, <1>9
<1>11. ball[0] = {id} /\ \A n \in 1..top : ball[n] = Wider(ball[n - 1])
  <2>1. \A n \in 0..top : ball[n] = IF n = 0 THEN {id} ELSE Wider(ball[n - 1])
    BY <1>10
  <2>2. 0 \in 0..top /\ \A n \in 1..top : n \in 0..top /\ n # 0
    BY <1>1
  <2>. QED BY <2>1, <2>2
<1>12. \A n \in 0..top : ball[n] \in T
  <2> DEFINE G == {n \in Nat : ball[n] \in T}
  <2>1. 0 \in G
    BY <1>11
  <2>2. ASSUME NEW n \in 0..(top - 1), n \in G PROVE n + 1 \in G
    <3>1. n + 1 \in 1..top /\ (n + 1) - 1 = n /\ n + 1 \in Nat
      BY <1>1
    <3>2. ball[n + 1] = Wider(ball[n])
      BY <1>11, <3>1
    <3>. QED BY <1>2, <2>2, <3>1, <3>2
  <2> HIDE DEF G
  <2>3. 0..top \subseteq G
    BY <1>1, <2>1, <2>2, Induction
  <2>. QED BY <2>3 DEF G
<1>13. ball \in [0..top -> T]
  BY <1>10, <1>12
<1>14. ASSUME NEW n \in 1..top
       PROVE  ball[n] = ball[n - 1] \cup UNION {Hops(kind, up)[x] : x \in ball[n - 1]}
  <2>1. n - 1 \in 0..top
    BY <1>1
  <2>. QED BY <1>3, <1>11, <1>12, <2>1
<1>. QED BY <1>9, <1>11, <1>13, <1>14 DEF Balls, top

(* Breadth first: a chain is what can be reached, each node once, and none  *)
(* after one that takes more hops to reach.                                 *)
NearestFirst(chain, id, ball) ==
  /\ Reaches(chain, id, ball)
  /\ \A i, j \in DOMAIN chain : i < j =>
       \A n \in DOMAIN ball : chain[j] \in ball[n] => chain[i] \in ball[n]

(* That is what bfs answers.                                                *)
LEMMA ChainNearestFirst ==
  ASSUME TypeOK, Mirrored, NEW id \in AnyId, NEW kind, NEW up \in BOOLEAN
  PROVE  NearestFirst(Bfs(id, kind, up), id, Ball(id, kind, up))
<1>1. PICK chain, L, ball, hop, top :
         /\ chain = Bfs(id, kind, up) /\ L = <<id>> \o chain /\ ball = Ball(id, kind, up)
         /\ hop = Hops(kind, up) /\ top = Cardinality(AnyId)
  OBVIOUS
<1>2. chain \in Seq(AnyId) /\ Search(L, Len(L), hop, {})
  BY <1>1, BfsSearches
<1>3. Balls(ball, id, hop, top)
  BY <1>1, BallCountsHops
<1>4. /\ Len(chain) \in Nat /\ Len(L) = Len(chain) + 1 /\ L[1] = id
      /\ DOMAIN chain = 1..Len(chain) /\ DOMAIN L = 1..Len(L)
      /\ \A i \in 1..Len(chain) : i + 1 \in 1..Len(L) /\ chain[i] = L[i + 1]
  BY <1>1, <1>2
<1>5. /\ ToSet(L) = ball[top]
      /\ \A n \in 0..top : \A i, j \in 1..Len(L) : i < j /\ L[j] \in ball[n] => L[i] \in ball[n]
  <2>1. L[1] = id /\ Balls(ball, id, hop, Cardinality(AnyId))
    BY <1>1, <1>3, <1>4
  <2>2. /\ ToSet(L) = ball[Cardinality(AnyId)]
        /\ \A n \in 0..Cardinality(AnyId) : \A i, j \in 1..Len(L) :
             i < j /\ L[j] \in ball[n] => L[i] \in ball[n]
    BY <1>2, <2>1, SearchEnds
  <2>. QED BY <1>1, <2>2
<1>6. \A i, j \in 1..Len(L) : L[i] = L[j] => i = j
  BY <1>2 DEF Search, Distinct
<1>7. ToSet(chain) = ToSet(L) \ {id}
  <2>1. 1 \in 1..Len(L)
    BY <1>4
  <2>2. ASSUME NEW i \in 1..Len(chain) PROVE chain[i] \in ToSet(L) \ {id}
    <3>1. i + 1 \in 1..Len(L) /\ i + 1 # 1 /\ chain[i] = L[i + 1]
      BY <1>4
    <3>2. L[i + 1] # L[1]
      BY <1>6, <2>1, <3>1
    <3>. QED BY <1>4, <3>1, <3>2 DEF ToSet
  <2>3. ASSUME NEW x \in ToSet(L), x # id PROVE x \in ToSet(chain)
    <3>1. PICK k \in 1..Len(L) : x = L[k]
      BY <1>4 DEF ToSet
    <3>2. k # 1
      BY <1>4, <2>3, <3>1
    <3>3. k - 1 \in 1..Len(chain) /\ (k - 1) + 1 = k
      BY <1>4, <3>2
    <3>4. chain[k - 1] = x
      BY <1>4, <3>1, <3>3
    <3>. QED BY <1>4, <3>3, <3>4 DEF ToSet
  <2>4. \A x \in ToSet(chain) : \E i \in 1..Len(chain) : x = chain[i]
    BY <1>4 DEF ToSet
  <2>. QED BY <2>2, <2>3, <2>4
<1>8. ASSUME NEW i \in DOMAIN chain, NEW j \in DOMAIN chain, i < j
      PROVE  /\ chain[i] # chain[j]
             /\ \A n \in DOMAIN ball : chain[j] \in ball[n] => chain[i] \in ball[n]
  <2>1. i + 1 \in 1..Len(L) /\ j + 1 \in 1..Len(L) /\ i + 1 < j + 1
        /\ chain[i] = L[i + 1] /\ chain[j] = L[j + 1]
    BY <1>4, <1>8
  <2>2. DOMAIN ball = 0..top
    BY <1>3 DEF Balls
  <2>3. chain[i] # chain[j]
    <3>1. i + 1 # j + 1
      BY <2>1
    <3>. QED BY <1>6, <2>1, <3>1
  <2>. QED BY <1>5, <2>1, <2>2, <2>3
<1>9. IsInjective(chain)
  BY <1>4, <1>6 DEF IsInjective
<1>. QED BY <1>1, <1>5, <1>7, <1>8, <1>9 DEF NearestFirst, Reaches

(* predByKind answers exactly the edges of one kind into a node. *)
LEMMA PredExact ==
  ASSUME TypeOK, Mirrored, NEW id \in AnyId, NEW kind
  PROVE  ToSet(PredByKind(id, kind)) = {e \in Edges(out) : e.to = id /\ e.kind = kind}
<1> DEFINE T == Seq(Edge)
<1>1. PICK list, l : list = in[id] /\ l = Len(in[id])
  OBVIOUS
<1>2. list \in T /\ l \in Nat /\ l = Len(list) /\ DOMAIN list = 1..l /\ \A i \in 1..l : list[i] \in Edge
  BY <1>1 DEF TypeOK
<1>3. ToSet(list) = {e \in Edges(out) : e.to = id}
  <2>1. ToSet(list) = {e \in Edges(out) : Far(e, ~TRUE) = id}
    BY <1>1, IndexOfEdges
  <2>. QED BY <2>1 DEF Far
<1> DEFINE Longer(s, i) == IF list[i].kind = kind THEN Append(s, list[i]) ELSE s
           Loop(f) == f = [i \in 0..l |-> IF i = 0 THEN <<>> ELSE Longer(f[i - 1], i)]
           step == [i \in 1..l |-> [s \in T |-> Longer(s, i)]]
<1>4. PICK found : found = CHOOSE f : Loop(f)
  OBVIOUS
<1>5. PredByKind(id, kind) = found[l]
  BY <1>1, <1>4 DEF PredByKind
<1>6. \A i \in 1..l : \A s \in T : Longer(s, i) \in T
  BY <1>2
<1>7. \A i \in 1..l : \A s \in T :
        ToSet(Longer(s, i)) = ToSet(s) \cup (IF list[i].kind = kind THEN {list[i]} ELSE {})
  BY <1>2, AppendAdds
<1> HIDE DEF Longer
<1>8. step \in [1..l -> [T -> T]] /\ <<>> \in T
  BY <1>6
<1>9. \A i \in 1..l : \A s \in T : step[i][s] = Longer(s, i)
  OBVIOUS
<1> HIDE DEF step
<1>10. PICK f \in [0..l -> T] : Iterated(f, <<>>, step, l)
  <2> HIDE DEF T
  <2>. QED BY <1>2, <1>8, Iteration
<1>11. Loop(f)
  <2>1. ASSUME NEW n \in 0..l, n # 0 PROVE step[n][f[n - 1]] = Longer(f[n - 1], n)
    <3>1. n \in 1..l /\ n - 1 \in 0..l
      BY <1>2, <2>1
    <3> HIDE DEF T
    <3>. QED BY <1>9, <3>1
  <2>. QED BY <1>10, <2>1 DEF Iterated
<1>12. Loop(found)
  BY <1>4, <1>11
<1>13. found[0] = <<>> /\ \A n \in 1..l : found[n] = Longer(found[n - 1], n)
  BY <1>2, <1>12
<1> DEFINE Of(n) == {list[i] : i \in {j \in 1..n : list[j].kind = kind}}
           G == {n \in Nat : found[n] \in T /\ ToSet(found[n]) = Of(n)}
<1>14. 0 \in G
  <2>1. Of(0) = {} /\ ToSet(<<>>) = {} /\ <<>> \in T
    BY DEF ToSet
  <2> HIDE DEF Of
  <2>. QED BY <1>13, <2>1
<1>15. ASSUME NEW n \in 0..(l - 1), n \in G PROVE n + 1 \in G
  <2>1. n + 1 \in 1..l /\ (n + 1) - 1 = n /\ n + 1 \in Nat
    BY <1>2
  <2>2. found[n + 1] = Longer(found[n], n + 1)
    BY <1>13, <2>1
  <2>3. found[n] \in T /\ ToSet(found[n]) = Of(n)
    BY <1>15
  <2>4. found[n + 1] \in T
    BY <1>6, <2>1, <2>2, <2>3
  <2>5. ToSet(found[n + 1]) = Of(n) \cup (IF list[n + 1].kind = kind THEN {list[n + 1]} ELSE {})
    BY <1>7, <2>1, <2>2, <2>3
  <2>6. 1..(n + 1) = (1..n) \cup {n + 1}
    OBVIOUS
  <2>7. Of(n + 1) = Of(n) \cup (IF list[n + 1].kind = kind THEN {list[n + 1]} ELSE {})
    BY <2>6
  <2>. QED BY <2>1, <2>4, <2>5, <2>7
<1> HIDE DEF G
<1>16. 0..l \subseteq G
  BY <1>2, <1>14, <1>15, Induction
<1>17. ToSet(found[l]) = Of(l)
  <2>1. l \in G
    BY <1>2, <1>16
  <2> HIDE DEF Of
  <2>. QED BY <2>1 DEF G
<1>18. Of(l) = {e \in ToSet(list) : e.kind = kind}
  BY <1>2 DEF ToSet
<1>. QED BY <1>3, <1>5, <1>17, <1>18

(* The read endpoints of the service answer what its exported graph says:   *)
(* Cools and Feeds the supplies of a node exactly, PowersChain and          *)
(* CoolingChain exactly what is reached, each node once.                    *)
THEOREM QueriesAgreeWithGraph == Spec => []QueriesMatchGraph
<1>1. Inv => QueriesMatchGraph
  <2> SUFFICES ASSUME Inv, NEW id \in AnyId
               PROVE  /\ ToSet(Cools(id)) = {e \in Edges(out) : e.to = id /\ e.kind = "cools"}
                      /\ ToSet(Feeds(id)) = {e \in Edges(out) : e.to = id /\ e.kind = "feeds"}
                      /\ Reaches(PowersChain(id), id, Ball(id, "powers", TRUE))
                      /\ Reaches(CoolingChain(id), id, Ball(id, "cools", FALSE))
    BY DEF QueriesMatchGraph
  <2>1. TypeOK /\ Mirrored
    BY DEF Inv, GraphOK
  <2>2. ToSet(Cools(id)) = {e \in Edges(out) : e.to = id /\ e.kind = "cools"}
    BY <2>1, PredExact DEF Cools
  <2>3. ToSet(Feeds(id)) = {e \in Edges(out) : e.to = id /\ e.kind = "feeds"}
    BY <2>1, PredExact DEF Feeds
  <2>4. Reaches(PowersChain(id), id, Ball(id, "powers", TRUE))
    BY <2>1, ChainNearestFirst DEF PowersChain, NearestFirst
  <2>5. Reaches(CoolingChain(id), id, Ball(id, "cools", FALSE))
    BY <2>1, ChainNearestFirst DEF CoolingChain, NearestFirst
  <2>. QED BY <2>2, <2>3, <2>4, <2>5
<1>. QED BY <1>1, GraphInvariant, PTL

(* Both chains are in breadth-first order, as the comment on PowersChain    *)
(* says they are computed.                                                  *)
BreadthFirst ==
  \A id \in AnyId : /\ NearestFirst(PowersChain(id), id, Ball(id, "powers", TRUE))
                    /\ NearestFirst(CoolingChain(id), id, Ball(id, "cools", FALSE))

(* No chain lists a node before one that fewer hops reach.  This is not the *)
(* topological order the same comment promises: a source listed early may   *)
(* be supplied by one that is listed later.                                 *)
THEOREM ChainsBreadthFirst == Spec => []BreadthFirst
<1>1. Inv => BreadthFirst
  <2> SUFFICES ASSUME Inv, NEW id \in AnyId
               PROVE  /\ NearestFirst(PowersChain(id), id, Ball(id, "powers", TRUE))
                      /\ NearestFirst(CoolingChain(id), id, Ball(id, "cools", FALSE))
    BY DEF BreadthFirst
  <2>1. TypeOK /\ Mirrored
    BY DEF Inv, GraphOK
  <2>. QED BY <2>1, ChainNearestFirst DEF PowersChain, CoolingChain
<1>. QED BY <1>1, GraphInvariant, PTL

-----------------------------------------------------------------------------
(* Where no hop is lost, no number of hops reaches less. *)
LEMMA BallsWiden ==
  ASSUME NEW top \in Nat, NEW id, NEW hop, NEW more, \A x \in AnyId : hop[x] \subseteq more[x],
         NEW ball, Balls(ball, id, hop, top), NEW wide, Balls(wide, id, more, top)
  PROVE  ball[top] \subseteq wide[top]
<1> DEFINE G == {n \in Nat : n <= top => ball[n] \subseteq wide[n]}
<1>1. 0 \in G
  BY DEF Balls
<1>2. ASSUME NEW n \in 0..(top - 1), n \in G PROVE n + 1 \in G
  <2>1. n + 1 \in 1..top /\ (n + 1) - 1 = n /\ n \in 0..top /\ n + 1 \in Nat
    OBVIOUS
  <2>2. ball[n] \subseteq wide[n] /\ ball[n] \subseteq AnyId
    BY <1>2, <2>1 DEF Balls
  <2>3. ball[n + 1] = ball[n] \cup UNION {hop[x] : x \in ball[n]}
    BY <2>1 DEF Balls
  <2>4. wide[n + 1] = wide[n] \cup UNION {more[x] : x \in wide[n]}
    BY <2>1 DEF Balls
  <2>5. ball[n + 1] \subseteq wide[n + 1]
    BY <2>2, <2>3, <2>4
  <2>. QED BY <2>1, <2>5
<1> HIDE DEF G
<1>3. 0..top \subseteq G
  BY <1>1, <1>2, Induction
<1>4. top \in G
  BY <1>3
<1>. QED BY <1>4 DEF G

(* PowersChain answers what any number of hops reaches in the graph as it is. *)
ChainsAreBalls ==
  \A id \in AnyId :
    \E ball : /\ Balls(ball, id, Hops("powers", TRUE), Cardinality(AnyId))
              /\ ToSet(PowersChain(id)) = ball[Cardinality(AnyId)] \ {id}

(* So it does while the graph is well formed. *)
LEMMA ChainIsBall == Inv => ChainsAreBalls
<1> SUFFICES ASSUME Inv, NEW id \in AnyId
             PROVE  LET ball == Ball(id, "powers", TRUE)
                    IN /\ Balls(ball, id, Hops("powers", TRUE), Cardinality(AnyId))
                       /\ ToSet(PowersChain(id)) = ball[Cardinality(AnyId)] \ {id}
  BY DEF ChainsAreBalls
<1>1. TypeOK /\ Mirrored
  BY DEF Inv, GraphOK
<1>2. NearestFirst(PowersChain(id), id, Ball(id, "powers", TRUE))
  BY <1>1, ChainNearestFirst DEF PowersChain
<1>3. Balls(Ball(id, "powers", TRUE), id, Hops("powers", TRUE), Cardinality(AnyId))
  BY <1>1, BallCountsHops
<1>. QED BY <1>2, <1>3 DEF NearestFirst, Reaches

(* No step removes an edge. *)
LEMMA EdgesStay == Inv /\ [Next]_vars => Edges(out) \subseteq Edges(out)'
<1> SUFFICES ASSUME Inv, [Next]_vars PROVE Edges(out) \subseteq Edges(out)'
  OBVIOUS
<1>1. TypeOK /\ Mirrored
  BY DEF Inv, GraphOK
<1>2. ASSUME UNCHANGED out PROVE Edges(out) \subseteq Edges(out)'
  <2>. HIDE DEF Edges
  <2>. QED BY <1>2
<1>3. CASE LoadEdge /\ ~UNCHANGED out
  <2>1. PICK e : e = Head(pending)
    OBVIOUS
  <2>2. e \in Edge
    BY <1>1, <1>3, <2>1 DEF LoadEdge, TypeOK
  <2>3. File(e) /\ UNCHANGED nodes /\ {e.from, e.to} \subseteq DOMAIN nodes
    BY <1>3, <2>1 DEF LoadEdge
  <2>4. Edges(out)' = Edges(out) \cup {e}
    BY <1>1, <2>2, <2>3, FileKeepsGraph
  <2>. QED BY <2>4
<1>4. ASSUME NEW token, HandleUpsert(token), ~UNCHANGED out PROVE Edges(out) \subseteq Edges(out)'
  <2>1. PICK e \in EdgeBodies : UpsertEdge(e)
    BY <1>4 DEF HandleUpsert, UpsertNode
  <2>2. e \in Edge
    BY DocumentsAssumption
  <2>3. File(e) /\ UNCHANGED nodes /\ {e.from, e.to} \subseteq DOMAIN nodes
    BY <2>1 DEF UpsertEdge
  <2>4. Edges(out)' = Edges(out) \cup {e}
    BY <1>1, <2>2, <2>3, FileKeepsGraph
  <2>. QED BY <2>4
<1>5. ASSUME LoadNodes \/ Discover \/ UNCHANGED vars \/ \E c \in Clients : SpecNodes(c) \/ SpecEdges(c)
      PROVE  UNCHANGED out
  BY <1>5 DEF LoadNodes, Discover, SpecNodes, SpecEdges, vars, graph
<1>. QED BY <1>2, <1>3, <1>4, <1>5 DEF Next

(* While the service runs, an upsert never takes a power source away from   *)
(* the chain that is reported for a node.                                   *)
THEOREM ChainsStayReported == Spec => ChainsOnlyGrow
<1>1. ASSUME Inv, Inv', [Next]_vars, NEW id \in AnyId
      PROVE  ToSet(PowersChain(id)) \subseteq ToSet(PowersChain(id)')
  <2>1. PICK top : top = Cardinality(AnyId)
    OBVIOUS
  <2>2. top \in Nat
    BY <2>1, FS_AddElement, FS_CardinalityType, NamesAssumption DEF AnyId
  <2>3. PICK hop, more : hop = Hops("powers", TRUE) /\ more = Hops("powers", TRUE)'
    OBVIOUS
  <2>4. \A x \in AnyId : hop[x] \subseteq more[x]
    BY <1>1, <2>3, EdgesStay DEF Hops
  <2>5. PICK ball : Balls(ball, id, hop, top) /\ ToSet(PowersChain(id)) = ball[top] \ {id}
    BY <1>1, <2>1, <2>3, ChainIsBall DEF ChainsAreBalls
  <2>6. ChainsAreBalls'
    BY <1>1, ChainIsBall, PTL
  <2>7. PICK wide : Balls(wide, id, more, top) /\ ToSet(PowersChain(id)') = wide[top] \ {id}
    BY <2>1, <2>3, <2>6 DEF ChainsAreBalls
  <2>8. ball[top] \subseteq wide[top]
    BY <2>2, <2>4, <2>5, <2>7, BallsWiden
  <2>. QED BY <2>5, <2>7, <2>8
<1>2. Inv /\ Inv' /\ [Next]_vars =>
        [phase = "serving" =>
           \A id \in AnyId : ToSet(PowersChain(id)) \subseteq ToSet(PowersChain(id)')]_vars
  BY <1>1
<1>. QED BY <1>2, GraphInvariant, PTL DEF Spec, ChainsOnlyGrow

=============================================================================
