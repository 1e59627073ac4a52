----------------------------- MODULE MCTopology -----------------------------
(* Model-checking instance of Topology. *)
EXTENDS Topology

CONSTANTS a, b, c

Cable(x, y, k) == [from |-> x, to |-> y, kind |-> k]

(* No file; a power loop with nothing else valid about it; a dangling edge. *)
MCSpecFiles ==
  {[nodes |-> [id \in {} |-> Empty], edges |-> <<>>],
   [nodes |-> [id \in {a, b} |-> IF id = a THEN "rack" ELSE Empty],
    edges |-> <<Cable(a, b, "powers"), Cable(b, a, "powers")>>],
   [nodes |-> [id \in {a} |-> "rack"], edges |-> <<Cable(c, a, "cools")>>]}

(* A device the spec also names, an unnamed one and one of unknown kind. *)
MCRegistries == {[id \in {a, c, Empty} |-> IF id = a THEN "pdu" ELSE "chiller"]}

(* Each element, one of them replaced by another kind, and refused ones. *)
MCNodeBodies ==
  {[id |-> x, kind |-> "rack"] : x \in AnyId}
    \cup {[id |-> b, kind |-> "sensor"], [id |-> c, kind |-> Empty]}

(* Power cabling of every shape, a cooling path and a duct; a refused one. *)
MCEdgeBodies ==
  {Cable(x, y, "powers") : x \in {a, b}, y \in {a, b, c}}
    \cup {Cable(a, b, "cools"), Cable(b, c, "cools"), Cable(c, a, "powers"), Cable(a, c, "feeds"), Cable(a, b, Empty)}

=============================================================================
