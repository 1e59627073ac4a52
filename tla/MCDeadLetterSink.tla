-------------------------- MODULE MCDeadLetterSink --------------------------
(* Model-checking instances of DeadLetterSink, and what its comment claims. *)
EXTENDS DeadLetterSink

(* deadletter.go: Drain "blocks until at least one item is available or ctx *)
(* is cancelled": an item that is available unblocks it.                    *)
AvailableItemUnblocks == items # <<>> ~> (items = <<>> \/ ctxDone)

=============================================================================
