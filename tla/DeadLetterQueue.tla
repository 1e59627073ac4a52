-------------------------- MODULE DeadLetterQueue --------------------------
(***************************************************************************)
(* What metrics.DeadLetterSink promises its users: a bounded FIFO that     *)
(* never refuses a letter, forgets the oldest one when it is full, and     *)
(* hands the whole backlog, in order, to whoever drains it.                *)
(***************************************************************************)
EXTENDS Naturals, Sequences

CONSTANTS Letters, Cap

VARIABLES
  items,    \* DeadLetterSink.items
  taken,    \* history: letters handed to a drainer, in order
  evicted   \* history: letters forgotten at capacity

Init ==
  /\ items = <<>>
  /\ taken = <<>>
  /\ evicted = {}

Put(d) ==
  /\ IF Len(items) >= Cap
     THEN /\ items' = Append(Tail(items), d)
          /\ evicted' = evicted \cup {Head(items)}
     ELSE /\ items' = Append(items, d)
          /\ UNCHANGED evicted
  /\ UNCHANGED taken

Take ==
  /\ items # <<>>
  /\ taken' = taken \o items
  /\ items' = <<>>
  /\ UNCHANGED evicted

Next == Take \/ \E d \in Letters : Put(d)

Spec == Init /\ [][Next]_<<items, taken, evicted>>

=============================================================================
