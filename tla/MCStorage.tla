------------------------------ MODULE MCStorage ------------------------------
(* Model-checking instance of Storage. *)
EXTENDS Storage

Flags(token, loopback) == [token |-> token, loopback |-> loopback, insecure |-> FALSE]

(* With a token, and without one, on an address that is not loopback. *)
MCConfigs == {Flags("secret", FALSE), Flags("", FALSE)}

(* Only the first: what is stored does not depend on the flags. *)
OneConfig == {Flags("secret", FALSE)}
=============================================================================
