----------------------------- MODULE MCHardware -----------------------------
(* Model-checking instance of Hardware. *)
EXTENDS Hardware

CONSTANTS s1, s2

(* A valid change of s1, addressed over a given backend. *)
Change(op, via) ==
  [op |-> op, method |-> "POST", token |-> AuthToken, server |-> s1, system |-> NoServer,
   hasTarget |-> TRUE, via |-> via]

(* Every backend choice, a request that names another system, and one that  *)
(* each check refuses; power commands may come as a GET.                    *)
MCRequests ==
  {Change("power", via) : via \in Vias}
    \cup {[Change("power", "") EXCEPT !.method = "GET"],
          [Change("boot", "") EXCEPT !.system = s2], Change("powercap", ""),
          [Change("boot", "") EXCEPT !.hasTarget = FALSE],
          [Change("powercap", "") EXCEPT !.server = NoServer],
          [Change("boot", "") EXCEPT !.token = NoToken]}
    \cup {[op |-> "resolve", method |-> "POST", token |-> AuthToken, servers |-> ss] :
            ss \in {{}, {s1, s2}}}

(* Two calls are enough for previews of a moving signal; three overflow the *)
(* log.                                                                     *)
MCMaxCalls == [d \in Deployments |-> IF d \in LiveGrid THEN 2 ELSE 3]

=============================================================================
