--------------------------- MODULE DeadLetterSink ---------------------------
(***************************************************************************)
(* metrics.DeadLetterSink as it is implemented: a mutex, a sync.Cond, and a *)
(* Drain that spawns one goroutine per wait because a Cond cannot be        *)
(* selected on together with a context.                                     *)
(*                                                                         *)
(* Every critical section of the mutex is one step.  Letters are numbered   *)
(* in the order they are put.                                               *)
(***************************************************************************)
EXTENDS Naturals, Sequences

CONSTANTS
  Cap,       \* DeadLetterSink.cap
  MaxPuts    \* bound of the model: letters ever put

ASSUME SinkAssumption == Cap \in Nat \ {0} /\ MaxPuts \in Nat

VARIABLES
  items,     \* DeadLetterSink.items
  puts,      \* letters put so far
  evicted,   \* history: letters dropped at capacity
  inHand,    \* Drain's local slice, still to be passed to fn
  handled,   \* history: letters fn has seen, in order
  drain,     \* where Drain is: "check", "fn", "select", "returned"
  waiter,    \* the goroutine Drain spawned last
  ctxDone

vars == <<items, puts, evicted, inHand, handled, drain, waiter, ctxDone>>

Init ==
  /\ items = <<>> /\ inHand = <<>> /\ handled = <<>>
  /\ puts = 0
  /\ evicted = {}
  /\ drain = "check"
  /\ waiter = "none"
  /\ ctxDone = FALSE

(* Put: evict if full, append, Signal.  Signal wakes the goroutine only if  *)
(* it has already reached cond.Wait; otherwise it wakes nobody.             *)
Signal == waiter' = IF waiter = "waiting" THEN "signalled" ELSE waiter

\* Mutant: eviction drops the newest letter, not the oldest.
Put_EvictsNewest ==
  /\ puts < MaxPuts
  /\ puts' = puts + 1
  /\ IF Len(items) >= Cap
     THEN /\ items' = Append(SubSeq(items, 1, Len(items) - 1), puts')
          /\ evicted' = evicted \cup {items[Len(items)]}
     ELSE /\ items' = Append(items, puts')
          /\ UNCHANGED evicted
  /\ Signal
  /\ UNCHANGED <<inHand, handled, drain, ctxDone>>

Put ==
  /\ puts < MaxPuts
  /\ puts' = puts + 1
  /\ IF Len(items) >= Cap
     THEN /\ items' = Append(Tail(items), puts')
          /\ evicted' = evicted \cup {Head(items)}
     ELSE /\ items' = Append(items, puts')
          /\ UNCHANGED evicted
  /\ Signal
  /\ UNCHANGED <<inHand, handled, drain, ctxDone>>

-----------------------------------------------------------------------------
(* Drain, under the lock: take the backlog, or spawn a waiter and unlock.   *)
\* Mutant: the backlog is not cleared when it is taken.
DrainCheck_KeepsItems ==
  /\ drain = "check"
  /\ IF items # <<>>
     THEN /\ inHand' = items
          /\ drain' = "fn"
          /\ UNCHANGED <<items, waiter>>
     ELSE /\ waiter' = "starting"
          /\ drain' = "select"
          /\ UNCHANGED <<items, inHand>>
  /\ UNCHANGED <<puts, evicted, handled, ctxDone>>

DrainCheck ==
  /\ drain = "check"
  /\ IF items # <<>>
     THEN /\ inHand' = items
          /\ items' = <<>>
          /\ drain' = "fn"
          /\ UNCHANGED waiter
     ELSE /\ waiter' = "starting"
          /\ drain' = "select"
          /\ UNCHANGED <<items, inHand>>
  /\ UNCHANGED <<puts, evicted, handled, ctxDone>>

(* fn(d) for one letter, outside the lock; after the last one, lock again.  *)
DrainFn ==
  /\ drain = "fn"
  /\ handled' = Append(handled, Head(inHand))
  /\ inHand' = Tail(inHand)
  /\ drain' = IF Len(inHand) = 1 THEN "check" ELSE "fn"
  /\ UNCHANGED <<items, puts, evicted, waiter, ctxDone>>

\* Mutant: the wake-up selects again without looking at the items.
DrainWoken_NoRecheck ==
  /\ drain = "select"
  /\ waiter = "done"
  /\ waiter' = "none"
  /\ drain' = "select"
  /\ UNCHANGED <<items, puts, evicted, inHand, handled, ctxDone>>

(* The select: <-done loops and re-checks, <-ctx.Done() returns and leaves  *)
(* the waiter behind, wherever it is.                                       *)
DrainWoken ==
  /\ drain = "select"
  /\ waiter = "done"
  /\ waiter' = "none"
  /\ drain' = "check"
  /\ UNCHANGED <<items, puts, evicted, inHand, handled, ctxDone>>

\* Mutant: the context is only looked at once the waiter is done.
DrainCancelled_Waits ==
  /\ drain = "select"
  /\ ctxDone
  /\ waiter = "done"
  /\ drain' = "returned"
  /\ UNCHANGED <<items, puts, evicted, inHand, handled, waiter, ctxDone>>

DrainCancelled ==
  /\ drain = "select"
  /\ ctxDone
  /\ drain' = "returned"
  /\ UNCHANGED <<items, puts, evicted, inHand, handled, waiter, ctxDone>>

(* The spawned goroutine: lock and Wait without looking at the items, then, *)
(* once signalled, unlock and close(done).                                  *)
WaiterWaits ==
  /\ waiter = "starting"
  /\ waiter' = "waiting"
  /\ UNCHANGED <<items, puts, evicted, inHand, handled, drain, ctxDone>>

WaiterDone ==
  /\ waiter = "signalled"
  /\ waiter' = "done"
  /\ UNCHANGED <<items, puts, evicted, inHand, handled, drain, ctxDone>>

Cancel ==
  /\ ~ctxDone
  /\ ctxDone' = TRUE
  /\ UNCHANGED <<items, puts, evicted, inHand, handled, drain, waiter>>

Drain == DrainCheck \/ DrainFn \/ DrainWoken \/ DrainCancelled
Waiter == WaiterWaits \/ WaiterDone
Next == Put \/ Drain \/ Waiter \/ Cancel

(* Go schedules every runnable goroutine; puts and cancellation are the     *)
(* environment's choice.                                                    *)
Spec == Init /\ [][Next]_vars
FairSpec == Spec /\ WF_vars(Drain) /\ WF_vars(Waiter)

-----------------------------------------------------------------------------
(* The shape of every variable; the sink never holds more than Cap letters. *)
TypeOK ==
  /\ puts \in 0..MaxPuts
  /\ items \in Seq(1..MaxPuts) /\ Len(items) <= Cap
  /\ inHand \in Seq(1..MaxPuts)
  /\ handled \in Seq(1..MaxPuts)
  /\ evicted \in SUBSET (1..MaxPuts)
  /\ drain \in {"check", "fn", "select", "returned"}
  /\ waiter \in {"none", "starting", "waiting", "signalled", "done"}
  /\ ctxDone \in BOOLEAN

(* Every letter put is handled, in Drain's hand, queued or evicted, exactly *)
(* one of these, and the surviving ones stay in the order they were put.    *)
LettersAccounted ==
  LET line == handled \o inHand \o items
      kept == {line[i] : i \in DOMAIN line}
  IN /\ \A i, j \in DOMAIN line : i < j => line[i] < line[j]
     /\ kept \cup evicted = 1..puts
     /\ kept \cap evicted = {}

(* The implementation is a DeadLetterQueue: taking the backlog hands over   *)
(* what fn has seen and what it is still to see.                            *)
Queue == INSTANCE DeadLetterQueue WITH Letters <- 1..MaxPuts, taken <- handled \o inHand
ImplementsQueue == Queue!Spec

(* Cancelling the context makes Drain return, whatever it was waiting for.  *)
CancelReturns == ctxDone ~> drain = "returned"

(* A Put that found the waiter waiting gets its letter handed to fn.        *)
SignalDrains == waiter = "signalled" ~> (items = <<>> \/ ctxDone)

=============================================================================
