------------------------------ MODULE Topology ------------------------------
(***************************************************************************)
(* The topology service of go-telemetry: a graph of physical elements      *)
(* under one RWMutex, authored from a JSON spec, enriched once from the    *)
(* telemetry device registry, then read and upserted by concurrent HTTP    *)
(* handlers.                                                               *)
(*                                                                         *)
(* Every method of Graph holds the lock for its whole body, so it is one   *)
(* step, except Spec: it takes the read lock once for the nodes and again  *)
(* for the edges.  Labels are cloned on the way in and never changed, so   *)
(* they are left out, and a list that is sorted before it is answered is a *)
(* set.                                                                    *)
(***************************************************************************)
EXTENDS Naturals, Sequences, FiniteSets, SequencesExt

CONSTANTS
  Ids,         \* non-empty node ids
  Kinds,       \* NodeKind values other than "sensor"
  EdgeKinds,   \* EdgeKind values
  Empty,       \* the empty string, as an id or as a kind
  SpecFiles,   \* documents the -spec file may hold: [nodes, edges]
  Registries,  \* answers of the devices query: functions from device to kind
  NodeBodies,  \* nodes that clients post to /topology/upsert
  EdgeBodies,  \* edges that clients post
  AuthToken, NoToken,
  Clients,     \* HTTP clients that export the graph
  MaxEdges     \* bound of the model: edges in the graph

AnyId == Ids \cup {Empty}
Node == [id : AnyId, kind : Kinds \cup {"sensor", Empty}]
Edge == [from : AnyId, to : AnyId, kind : EdgeKinds \cup {Empty}]

ASSUME NamesAssumption ==
  /\ Empty \notin Ids \cup Kinds \cup EdgeKinds
  /\ {"powers", "cools", "feeds"} \subseteq EdgeKinds
  /\ IsFiniteSet(Ids)
ASSUME DocumentsAssumption ==
  /\ \A f \in SpecFiles :
       /\ f.nodes \in [DOMAIN f.nodes -> Kinds \cup {"sensor", Empty}]
       /\ DOMAIN f.nodes \subseteq AnyId
       /\ f.edges \in Seq(Edge)
  /\ \A r \in Registries : DOMAIN r \subseteq AnyId
  /\ NodeBodies \subseteq Node /\ EdgeBodies \subseteq Edge
ASSUME BoundAssumption == MaxEdges \in Nat

VARIABLES
  phase,   \* main: "boot", "loading", "serving", "failed"
  pending, \* edges of the document Load has still to add
  nodes,   \* Graph.nodes: kind of each node there is
  out,     \* Graph.out: edges by From, in the order they were added
  in,      \* Graph.in: edges by To
  export   \* per client: its /topology/graph request and what it has read

graph == <<nodes, out, in>>
vars == <<phase, pending, graph, export>>

Edges(m) == UNION {ToSet(m[id]) : id \in AnyId}
EdgeCount == FoldFunction(LAMBDA s, n : Len(s) + n, 0, out)

NoExport == [pc |-> "idle", ids |-> {}, base |-> {}, edges |-> {}]

Init ==
  /\ phase = "boot"
  /\ pending = <<>>
  /\ nodes = [id \in {} |-> Empty]
  /\ out = [id \in AnyId |-> <<>>]
  /\ in = [id \in AnyId |-> <<>>]
  /\ export = [c \in Clients |-> NoExport]

-----------------------------------------------------------------------------
(* Startup.  LoadSpec builds the graph from the document: nodes as they     *)
(* are, ids and kinds unchecked, then edge by edge, refusing one whose ends *)
(* are not both nodes.  main gives up on a document that was refused.       *)
LoadNodes ==
  /\ phase = "boot"
  /\ \E doc \in SpecFiles : nodes' = doc.nodes /\ pending' = doc.edges
  /\ phase' = "loading"
  /\ UNCHANGED <<out, in, export>>

Filed(m, id, e) == [m EXCEPT ![id] = Append(@, e)]

\* Mutant: an edge is filed twice under its From.
File_Misfiles(e) == out' = Filed(out, e.from, e) /\ in' = Filed(in, e.from, e)

(* An edge is filed under both of its ends. *)
File(e) == out' = Filed(out, e.from, e) /\ in' = Filed(in, e.to, e)

LoadEdge ==
  /\ phase = "loading" /\ pending # <<>>
  /\ pending' = Tail(pending)
  /\ IF {Head(pending).from, Head(pending).to} \subseteq DOMAIN nodes
     THEN File(Head(pending)) /\ UNCHANGED phase
     ELSE phase' = "failed" /\ UNCHANGED <<out, in>>
  /\ UNCHANGED <<nodes, export>>

(* mapKind *)
MapKind(k) == IF k \in Kinds THEN k ELSE "sensor"

(* DiscoverFromTelemetry, before the server starts: devices that are no     *)
(* nodes yet become nodes.  A query that fails is logged and skipped, as is *)
(* discovery when it was not asked for.                                     *)
Discover ==
  /\ phase = "loading" /\ pending = <<>>
  /\ phase' = "serving"
  /\ \/ \E devices \in Registries :
          LET new == (DOMAIN devices \ {Empty}) \ DOMAIN nodes
          IN nodes' = [id \in DOMAIN nodes \cup new |->
                         IF id \in new THEN MapKind(devices[id]) ELSE nodes[id]]
     \/ UNCHANGED nodes
  /\ UNCHANGED <<pending, out, in, export>>

-----------------------------------------------------------------------------
(* Handlers.  With a token configured, every request but /health needs it.  *)
Authorized(token) == AuthToken = NoToken \/ token = AuthToken

\* Mutant: replacing a node drops the edges into it.
UpsertNode_DropsEdges(n) ==
  /\ n.id # Empty /\ n.kind # Empty
  /\ nodes' = [id \in DOMAIN nodes \cup {n.id} |-> IF id = n.id THEN n.kind ELSE nodes[id]]
  /\ in' = [in EXCEPT ![n.id] = <<>>]
  /\ UNCHANGED out

UpsertNode(n) ==
  /\ n.id # Empty /\ n.kind # Empty
  /\ nodes' = [id \in DOMAIN nodes \cup {n.id} |-> IF id = n.id THEN n.kind ELSE nodes[id]]
  /\ UNCHANGED <<out, in>>

\* Mutant: only one end must exist.
UpsertEdge_ChecksFrom(e) ==
  /\ Empty \notin {e.from, e.to, e.kind}
  /\ e.from \in DOMAIN nodes
  /\ File(e)
  /\ UNCHANGED nodes

(* An edge that is there already is appended again. *)
UpsertEdge(e) ==
  /\ Empty \notin {e.from, e.to, e.kind}
  /\ {e.from, e.to} \subseteq DOMAIN nodes
  /\ File(e)
  /\ UNCHANGED nodes

(* handleUpsert; a request that is refused changes nothing. *)
HandleUpsert(token) ==
  /\ phase = "serving"
  /\ Authorized(token)
  /\ \/ \E n \in NodeBodies : UpsertNode(n)
     \/ EdgeCount < MaxEdges /\ \E e \in EdgeBodies : UpsertEdge(e)
  /\ UNCHANGED <<phase, pending, export>>

(* handleGraph: Graph.Spec, first Nodes, then edgesSorted.  `base` is       *)
(* history: the edges there were when the nodes were read.                  *)
SpecNodes(c) ==
  /\ phase = "serving"
  /\ export[c].pc # "edges"
  /\ export' = [export EXCEPT ![c] = [pc |-> "edges", ids |-> DOMAIN nodes,
                                      base |-> Edges(out), edges |-> {}]]
  /\ UNCHANGED <<phase, pending, graph>>

SpecEdges(c) ==
  /\ export[c].pc = "edges"
  /\ export' = [export EXCEPT ![c].pc = "done", ![c].edges = Edges(out)]
  /\ UNCHANGED <<phase, pending, graph>>

Next ==
  \/ LoadNodes \/ LoadEdge \/ Discover
  \/ \E token \in {AuthToken, NoToken} : HandleUpsert(token)
  \/ \E c \in Clients : SpecNodes(c) \/ SpecEdges(c)

Spec == Init /\ [][Next]_vars

-----------------------------------------------------------------------------
(* The read endpoints, each under one read lock. *)
PredByKind(id, kind) ==
  LET found[i \in 0..Len(in[id])] ==
        IF i = 0 THEN <<>>
        ELSE IF in[id][i].kind = kind THEN Append(found[i - 1], in[id][i]) ELSE found[i - 1]
  IN found[Len(in[id])]
Cools(id) == PredByKind(id, "cools")
Feeds(id) == PredByKind(id, "feeds")

(* bfs: nodes in the order they are first reached from id, along edges of   *)
(* one kind, against their direction if up.  The walk is in the middle of   *)
(* the edges of the node it took from the queue last: todo.                 *)
Walk == [seen : SUBSET AnyId, order : Seq(AnyId), queue : Seq(AnyId), todo : Seq(Edge)]
Far(e, up) == IF up THEN e.from ELSE e.to

Visit(w, next) ==
  [seen  |-> w.seen \cup {next},
   order |-> IF next \in DOMAIN nodes THEN Append(w.order, next) ELSE w.order,
   queue |-> IF next \in DOMAIN nodes THEN Append(w.queue, next) ELSE w.queue,
   todo  |-> w.todo]

\* Mutant: the walk may come back to where it started.
Start_Unseen(id) == [seen |-> {}, order |-> <<>>, queue |-> <<id>>, todo |-> <<>>]
Start(id) == [seen |-> {id}, order |-> <<>>, queue |-> <<id>>, todo |-> <<>>]

(* One turn of the inner loop, or of the outer loop up to it. *)
Turn(w, kind, up) ==
  LET e    == Head(w.todo)
      rest == [w EXCEPT !.todo = Tail(@)]
  IN IF w.todo = <<>>
     THEN [w EXCEPT !.queue = Tail(@), !.todo = (IF up THEN in ELSE out)[Head(w.queue)]]
     ELSE IF e.kind # kind \/ Far(e, up) \in w.seen THEN rest ELSE Visit(rest, Far(e, up))

Bfs(id, kind, up) ==
  LET walk[w \in Walk] ==
        IF w.queue = <<>> /\ w.todo = <<>> THEN w.order ELSE walk[Turn(w, kind, up)]
  IN walk[Start(id)]

PowersChain(id) == Bfs(id, "powers", TRUE)
CoolingChain(id) == Bfs(id, "cools", FALSE)

-----------------------------------------------------------------------------
(* The shape of every variable, and that edges are filed where they belong. *)
TypeOK ==
  /\ phase \in {"boot", "loading", "serving", "failed"}
  /\ DOMAIN nodes \subseteq AnyId
  /\ pending \in Seq(Edge)
  /\ nodes \in [DOMAIN nodes -> Kinds \cup {"sensor", Empty}]
  /\ out \in [AnyId -> Seq(Edge)] /\ in \in [AnyId -> Seq(Edge)]
  /\ export \in [Clients -> [pc : {"idle", "edges", "done"}, ids : SUBSET AnyId,
                             base : SUBSET Edge, edges : SUBSET Edge]]

(* "UpsertEdge creates neither endpoint": both indexes hold the same edges, *)
(* each under its own end, and every edge joins two nodes that exist, so an *)
(* answer from the one index never contradicts an answer from the other.    *)
Mirrored ==
  /\ Edges(out) = Edges(in)
  /\ \A id \in AnyId : (\A e \in ToSet(out[id]) : e.from = id)
                       /\ (\A e \in ToSet(in[id]) : e.to = id)
  /\ \A e \in Edges(out) : {e.from, e.to} \subseteq DOMAIN nodes

(* Reference for the queries, from the exported edges alone: Ball(...)[n]   *)
(* is what n hops reach.                                                    *)
Ball(id, kind, up) ==
  LET step(S) == S \cup {Far(e, up) : e \in {e \in Edges(out) :
                           e.kind = kind /\ Far(e, ~up) \in S}}
      ball[n \in 0..Cardinality(AnyId)] == IF n = 0 THEN {id} ELSE step(ball[n - 1])
  IN ball
Reaches(chain, id, ball) ==
  ToSet(chain) = ball[Cardinality(AnyId)] \ {id} /\ IsInjective(chain)

(* What the query endpoints answer agrees with the graph the service        *)
(* exports: direct supplies exactly, chains exactly the nodes that can be   *)
(* reached, each once, also through cycles, self-loops and edges that were  *)
(* upserted twice.  The order of a chain is not part of it.                 *)
QueriesMatchGraph ==
  \A id \in AnyId :
    /\ ToSet(Cools(id)) = {e \in Edges(out) : e.to = id /\ e.kind = "cools"}
    /\ ToSet(Feeds(id)) = {e \in Edges(out) : e.to = id /\ e.kind = "feeds"}
    /\ Reaches(PowersChain(id), id, Ball(id, "powers", TRUE))
    /\ Reaches(CoolingChain(id), id, Ball(id, "cools", FALSE))

(* An exported spec may lack an end of one of its edges, and then Load      *)
(* refuses it; but only an edge that was upserted between the two reads of  *)
(* Spec can dangle.  An export during which nobody upserts always loads.    *)
OnlyLateEdgesDangle ==
  \A c \in Clients : export[c].pc = "done" =>
    /\ export[c].base \subseteq export[c].edges
    /\ \A e \in export[c].edges :
         {e.from, e.to} \subseteq export[c].ids \/ e \notin export[c].base

(* Upserts while the service runs, replacing a node included, never cut     *)
(* cabling: a power source that was reported for a node stays its source.   *)
ChainsOnlyGrow ==
  [][phase = "serving" =>
       \A id \in AnyId : ToSet(PowersChain(id)) \subseteq ToSet(PowersChain(id)')]_vars

=============================================================================
