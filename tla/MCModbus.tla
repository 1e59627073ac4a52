------------------------------ MODULE MCModbus ------------------------------
(* Model-checking instance of Modbus: the two blocks of ten registers that  *)
(* cmd/main.go configures, all registers holding the same value.            *)
EXTENDS Modbus

MCPolls == <<[addr |-> 0, count |-> 10], [addr |-> 10, count |-> 10]>>

(* Small values: the high byte of a register is zero. *)
MCRegisterMaps == {[a \in 0 .. 19 |-> v] : v \in {3, 20}}
=============================================================================
