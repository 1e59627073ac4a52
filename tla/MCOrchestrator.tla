--------------------------- MODULE MCOrchestrator ---------------------------
(* Model-checking instances of Orchestrator, and what the documents claim.  *)
EXTENDS Orchestrator, TLC

Value(t, n) == [type |-> t, num |-> n]
Request(cmd, val, source) ==
  [device |-> CHOOSE d \in Devices : TRUE, cmd |-> cmd, val |-> val, source |-> source]

(* Below, inside and above the envelope, and NaN, as numbers or as text;     *)
(* true, a word and null; every command, and one that does not exist.        *)
MCRequests ==
  {Request("valve", v, s) : v \in {Value("number", -5), Value("number", 50),
                                   Value("digits", 120), Value("digits", NaN)}, s \in Sources}
  \cup {Request("fan", Value("number", 120), s) : s \in Sources}
  \cup {Request("discharge_limit", v, "ai_brain") :
           v \in {Value("digits", -5), Value("word", 0), Value("bool", 1)}}
  \cup {Request("outlet", v, "operator") :
           v \in {Value("bool", 1), Value("word", 0), Value("null", 0)}}
  \cup {Request("other", Value("number", 50), "operator")}

Symmetric == Permutations(Clients)

=============================================================================
