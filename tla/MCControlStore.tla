--------------------------- MODULE MCControlStore ---------------------------
(* Model-checking instance of ControlStore. *)
EXTENDS ControlStore, TLC

Symmetric == Permutations(Devices)

(* Below, inside and above the envelopes, and NaN. *)
MCNumbers == {-5, 50, 120, NaN}

=============================================================================
