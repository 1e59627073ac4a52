-------------------------- MODULE DeadLetterProofs --------------------------
(***************************************************************************)
(* Proofs, for any capacity and any number of letters, that the mutex,     *)
(* condition variable and goroutines of module DeadLetterSink implement    *)
(* the queue of module DeadLetterQueue and account for every letter.       *)
(***************************************************************************)
EXTENDS DeadLetterSink, SequenceTheorems, TLAPS

Letters == 1..MaxPuts

(* Drain holds letters exactly while it is passing them to fn. *)
HandOK == (drain = "fn") <=> (inHand # <<>>)

IInv == TypeOK /\ HandOK

(* Appending the head of a sequence and then its tail is appending it all.  *)
LEMMA MoveHead ==
  ASSUME NEW h \in Seq(Letters), NEW q \in Seq(Letters), q # <<>>
  PROVE  Append(h, Head(q)) \o Tail(q) = h \o q
<1>1. Head(q) \in Letters /\ Tail(q) \in Seq(Letters) /\ Len(Tail(q)) = Len(q) - 1
  BY HeadTailProperties
<1> DEFINE l == Append(h, Head(q)) \o Tail(q)
           r == h \o q
<1>2. l \in Seq(Letters) /\ r \in Seq(Letters) /\ Len(l) = Len(r) /\ Len(r) = Len(h) + Len(q)
  BY <1>1
<1>3. ASSUME NEW i \in 1..Len(r) PROVE l[i] = r[i]
  <2>1. CASE i <= Len(h)
    BY <1>1, <1>2, <2>1
  <2>2. CASE i = Len(h) + 1
    BY <1>1, <1>2, <2>2
  <2>3. CASE i > Len(h) + 1
    BY <1>1, <1>2, <2>3
  <2>. QED BY <2>1, <2>2, <2>3
<1> HIDE DEF l, r
<1>4. l = r
  BY <1>2, <1>3, SeqEqual
<1>. QED BY <1>4 DEF l, r

-----------------------------------------------------------------------------
(* The implementation's own invariant. *)
LEMMA InitIInv == Init => IInv
<1> SUFFICES ASSUME Init PROVE IInv
  OBVIOUS
<1>1. puts \in 0..MaxPuts /\ Len(items) <= Cap
  BY SinkAssumption DEF Init
<1>2. items \in Seq(1..MaxPuts) /\ inHand \in Seq(1..MaxPuts) /\ handled \in Seq(1..MaxPuts)
  BY DEF Init
<1>. QED BY <1>1, <1>2 DEF Init, IInv, TypeOK, HandOK

(* Put keeps the queue typed and within Cap, evicting or not. *)
LEMMA PutTypes ==
  ASSUME IInv, Put
  PROVE  /\ puts' \in Letters
         /\ items' \in Seq(Letters) /\ Len(items') <= Cap
         /\ Len(items) >= Cap => items # <<>>
         /\ evicted' \subseteq Letters
<1> USE DEF Letters
<1>1. puts' \in Letters
  BY SinkAssumption DEF IInv, TypeOK, Put
<1>2. items \in Seq(Letters) /\ Len(items) <= Cap /\ evicted \subseteq Letters
  BY DEF IInv, TypeOK
<1>3. CASE Len(items) >= Cap
  <2>1. items # <<>>
    BY <1>2, <1>3, SinkAssumption
  <2>2. Head(items) \in Letters /\ Tail(items) \in Seq(Letters) /\ Len(Tail(items)) = Len(items) - 1
    BY <1>2, <2>1, HeadTailProperties
  <2>3. /\ Append(Tail(items), puts') \in Seq(Letters)
        /\ Len(Append(Tail(items), puts')) = Len(items)
    BY <1>1, <1>2, <2>2, AppendProperties
  <2>. QED BY <1>1, <1>2, <1>3, <2>1, <2>2, <2>3 DEF Put
<1>4. CASE ~(Len(items) >= Cap)
  <2>1. /\ Append(items, puts') \in Seq(Letters)
        /\ Len(Append(items, puts')) = Len(items) + 1
    BY <1>1, <1>2, AppendProperties
  <2>2. Len(items) + 1 <= Cap
    BY <1>2, <1>4, SinkAssumption
  <2>. QED BY <1>1, <1>2, <1>4, <2>1, <2>2 DEF Put
<1>. QED BY <1>3, <1>4

(* Every step preserves the invariant: one step of the proof per action. *)
LEMMA NextIInv == IInv /\ [Next]_vars => IInv'
<1> SUFFICES ASSUME IInv, [Next]_vars PROVE IInv'
  OBVIOUS
<1>1. CASE Put
  <2>1. puts' \in 0..MaxPuts
    BY <1>1, PutTypes, SinkAssumption DEF Letters
  <2>2. waiter' \in {"none", "starting", "waiting", "signalled", "done"}
    BY <1>1 DEF Put, Signal, IInv, TypeOK
  <2>. QED BY <1>1, <2>1, <2>2, PutTypes DEF Put, IInv, TypeOK, HandOK, Letters
<1>2. CASE DrainCheck
  <2>1. CASE items # <<>>
    <3>1. items' \in Seq(1..MaxPuts) /\ Len(items') <= Cap
      BY <1>2, <2>1, SinkAssumption DEF DrainCheck
    <3>. QED BY <1>2, <2>1, <3>1 DEF DrainCheck, IInv, TypeOK, HandOK
  <2>2. CASE items = <<>>
    BY <1>2, <2>2 DEF DrainCheck, IInv, TypeOK, HandOK
  <2>. QED BY <2>1, <2>2
<1>3. CASE DrainFn
  <2>1. /\ Head(inHand) \in Letters /\ Tail(inHand) \in Seq(Letters)
        /\ Len(Tail(inHand)) = Len(inHand) - 1
    BY <1>3, HeadTailProperties DEF DrainFn, IInv, TypeOK, HandOK, Letters
  <2>2. Append(handled, Head(inHand)) \in Seq(Letters)
    BY <2>1, AppendProperties DEF IInv, TypeOK, Letters
  <2>3. Tail(inHand) = <<>> <=> Len(inHand) = 1
    <3> DEFINE t == Tail(inHand)
    <3>1. t \in Seq(Letters) /\ Len(t) = Len(inHand) - 1 /\ Len(inHand) \in Nat
      BY <2>1 DEF IInv, TypeOK
    <3> HIDE DEF t
    <3>2. t = <<>> <=> Len(t) = 0
      BY <3>1, EmptySeq
    <3>3. t = <<>> <=> Len(inHand) = 1
      BY <3>1, <3>2
    <3>. QED BY <3>3 DEF t
  <2>. QED BY <1>3, <2>1, <2>2, <2>3 DEF DrainFn, IInv, TypeOK, HandOK, Letters
<1>4. CASE DrainWoken \/ DrainCancelled \/ Waiter \/ Cancel \/ UNCHANGED vars
  BY <1>4 DEF DrainWoken, DrainCancelled, Waiter, WaiterWaits, WaiterDone, Cancel, vars,
              IInv, TypeOK, HandOK
<1>. QED BY <1>1, <1>2, <1>3, <1>4 DEF Next, Drain

(* Drain has letters in hand only while it calls fn, and all types hold.    *)
THEOREM InvariantHolds == Spec => []IInv
<1>1. Init => IInv
  BY InitIInv
<1>2. IInv /\ [Next]_vars => IInv'
  BY NextIInv
<1>. QED BY <1>1, <1>2, PTL DEF Spec

(* Every variable keeps its type; the sink never holds more than Cap.       *)
THEOREM TypeCorrect == Spec => []TypeOK
<1>1. IInv => TypeOK
  BY DEF IInv
<1>. QED BY <1>1, InvariantHolds, PTL

-----------------------------------------------------------------------------
(* Step simulation: Put is Put, taking the backlog is Take, and everything  *)
(* else -- fn, wake-ups, waiters, cancellation -- stutters.                 *)
LEMMA StepSimulation ==
  IInv /\ [Next]_vars => [Queue!Next]_<<items, handled \o inHand, evicted>>
<1> SUFFICES ASSUME IInv, [Next]_vars
             PROVE  [Queue!Next]_<<items, handled \o inHand, evicted>>
  OBVIOUS
<1>0. /\ items \in Seq(Letters) /\ inHand \in Seq(Letters) /\ handled \in Seq(Letters)
  BY DEF IInv, TypeOK, Letters
<1>1. CASE Put
  <2>1. puts' \in 1..MaxPuts
    BY <1>1, PutTypes DEF Letters
  <2>2. Queue!Put(puts')
    BY <1>1 DEF Put, Queue!Put
  <2>. QED BY <2>1, <2>2 DEF Queue!Next
<1>2. CASE DrainCheck
  <2>1. CASE items # <<>>
    <3>1. inHand = <<>>
      BY <1>2 DEF DrainCheck, IInv, HandOK
    <3>2. handled' \o inHand' = (handled \o inHand) \o items
      BY <1>0, <1>2, <2>1, <3>1, ConcatEmptySeq DEF DrainCheck
    <3>3. Queue!Take
      BY <1>2, <2>1, <3>2 DEF DrainCheck, Queue!Take
    <3>. QED BY <3>3 DEF Queue!Next
  <2>2. CASE items = <<>>
    BY <1>2, <2>2 DEF DrainCheck
  <2>. QED BY <2>1, <2>2
<1>3. CASE DrainFn
  <2>1. handled' \o inHand' = handled \o inHand
    BY <1>0, <1>3, MoveHead DEF DrainFn, IInv, HandOK
  <2>. QED BY <1>3, <2>1 DEF DrainFn
<1>4. CASE DrainWoken \/ DrainCancelled \/ Waiter \/ Cancel \/ UNCHANGED vars
  BY <1>4 DEF DrainWoken, DrainCancelled, Waiter, WaiterWaits, WaiterDone, Cancel, vars
<1>. QED BY <1>1, <1>2, <1>3, <1>4 DEF Next, Drain

(* The initial state maps to the initial state of the queue. *)
LEMMA InitSimulation == Init => Queue!Init
  BY ConcatEmptySeq, EmptySeq DEF Init, Queue!Init

(* DeadLetterSink is a bounded FIFO that evicts its oldest letter, however  *)
(* Put, Drain, the goroutines Drain spawns and cancellation interleave.     *)
THEOREM SinkImplementsQueue == Spec => ImplementsQueue
<1>1. Init => Queue!Init
  BY InitSimulation
<1>2. IInv /\ [Next]_vars => [Queue!Next]_<<items, handled \o inHand, evicted>>
  BY StepSimulation
<1>. QED BY <1>1, <1>2, InvariantHolds, PTL DEF Spec, ImplementsQueue, Queue!Spec

-----------------------------------------------------------------------------
(* The letters that were not evicted, in the order in which they are with   *)
(* fn, Drain and the sink.                                                  *)
Line == handled \o inHand \o items
Kept == {Line[i] : i \in DOMAIN Line}

(* Drain, its goroutines and cancellation hand letters on: the line stays.  *)
LEMMA LineKept ==
  ASSUME IInv, [Next]_vars, ~Put
  PROVE  Line' = Line /\ evicted' = evicted /\ puts' = puts
<1>0. /\ items \in Seq(Letters) /\ inHand \in Seq(Letters) /\ handled \in Seq(Letters)
  BY DEF IInv, TypeOK, Letters
<1>1. CASE DrainCheck
  <2>1. CASE items # <<>>
    <3>1. inHand = <<>> /\ inHand' = items /\ items' = <<>> /\ handled' = handled
      BY <1>1, <2>1 DEF DrainCheck, IInv, HandOK
    <3>2. handled \o inHand = handled /\ (handled \o items) \o <<>> = handled \o items
      BY <1>0, <3>1, ConcatEmptySeq, ConcatProperties
    <3>. QED BY <1>1, <3>1, <3>2 DEF Line, DrainCheck
  <2>2. CASE items = <<>>
    BY <1>1, <2>2 DEF DrainCheck, Line
  <2>. QED BY <2>1, <2>2
<1>2. CASE DrainFn
  <2>1. handled' \o inHand' = handled \o inHand
    BY <1>0, <1>2, MoveHead DEF DrainFn, IInv, HandOK
  <2>. QED BY <1>2, <2>1 DEF DrainFn, Line
<1>3. CASE DrainWoken \/ DrainCancelled \/ Waiter \/ Cancel \/ UNCHANGED vars
  BY <1>3 DEF DrainWoken, DrainCancelled, Waiter, WaiterWaits, WaiterDone, Cancel, vars, Line
<1>. QED BY <1>1, <1>2, <1>3 DEF Next, Drain

(* Put adds the newest letter at the end, and takes out the oldest of the   *)
(* letters the sink holds when it is full: Moved says where the others are. *)
Moved(i, at) == IF i < at THEN i ELSE i + 1

LEMMA PutMovesLine ==
  ASSUME IInv, Put
  PROVE  /\ Line \in Seq(Letters) /\ Line' \in Seq(Letters) /\ Len(Line') >= 1
         /\ Line'[Len(Line')] = puts + 1 /\ puts' = puts + 1
         /\ \/ /\ evicted' = evicted /\ Len(Line') = Len(Line) + 1
               /\ \A i \in 1..Len(Line) : Line'[i] = Line[i]
            \/ \E at \in 1..Len(Line) :
                 /\ evicted' = evicted \cup {Line[at]} /\ Len(Line') = Len(Line)
                 /\ \A i \in 1..(Len(Line) - 1) : Line'[i] = Line[Moved(i, at)]
<1> DEFINE f == handled \o inHand
           d == puts + 1
<1>1. items \in Seq(Letters) /\ f \in Seq(Letters) /\ Len(f) \in Nat /\ Len(items) \in Nat
  BY ConcatProperties DEF IInv, TypeOK, Letters
<1>2. d \in Letters /\ puts' = d /\ f' = f
  BY PutTypes DEF Put
<1>3. Line = f \o items /\ Line' = f \o items'
  BY <1>2 DEF Line
<1> HIDE DEF f, d
<1>4. /\ Line \in Seq(Letters) /\ Len(Line) = Len(f) + Len(items)
      /\ \A i \in 1..Len(Line) : Line[i] = IF i <= Len(f) THEN f[i] ELSE items[i - Len(f)]
  BY <1>1, <1>3, ConcatProperties
<1>5. CASE Len(items) >= Cap
  <2>1. items # <<>> /\ items' = Append(Tail(items), d) /\ evicted' = evicted \cup {Head(items)}
    BY <1>2, <1>5, PutTypes DEF Put
  <2>2. /\ Tail(items) \in Seq(Letters) /\ Len(Tail(items)) = Len(items) - 1 /\ Head(items) = items[1]
        /\ \A i \in 1..(Len(items) - 1) : Tail(items)[i] = items[i + 1]
        /\ Len(items) >= 1
    BY <1>1, <2>1, HeadTailProperties, EmptySeq
  <2>3. /\ items' \in Seq(Letters) /\ Len(items') = Len(items) /\ items'[Len(items)] = d
        /\ \A i \in 1..(Len(items) - 1) : items'[i] = items[i + 1]
    BY <1>1, <1>2, <2>1, <2>2, AppendProperties
  <2>4. /\ Line' \in Seq(Letters) /\ Len(Line') = Len(Line)
        /\ \A i \in 1..Len(Line) : Line'[i] = IF i <= Len(f) THEN f[i] ELSE items'[i - Len(f)]
    <3>1. /\ Line' \in Seq(Letters) /\ Len(Line') = Len(f) + Len(items')
          /\ \A i \in 1..(Len(f) + Len(items')) :
               Line'[i] = IF i <= Len(f) THEN f[i] ELSE items'[i - Len(f)]
      <4>1. items' \in Seq(Letters)
        BY <2>3
      <4>. QED BY <1>1, <1>3, <4>1, ConcatProperties
    <3>2. Len(items') = Len(items) /\ Len(Line) = Len(f) + Len(items)
      BY <1>4, <2>3
    <3>. QED BY <3>1, <3>2
  <2> DEFINE at == Len(f) + 1
  <2>5. at \in 1..Len(Line) /\ Len(Line) \in Nat
    BY <1>1, <1>4, <2>2
  <2>6. Line[at] = Head(items)
    <3>1. ~(at <= Len(f)) /\ at - Len(f) = 1
      BY <1>1
    <3>. QED BY <1>4, <2>2, <2>5, <3>1
  <2>7. Line'[Len(Line')] = d
    <3>1. Len(Line) \in 1..Len(Line) /\ ~(Len(Line) <= Len(f)) /\ Len(Line) - Len(f) = Len(items)
      BY <1>1, <1>4, <2>2
    <3>. QED BY <2>3, <2>4, <3>1
  <2>8. ASSUME NEW i \in 1..(Len(Line) - 1)
        PROVE  Line'[i] = Line[Moved(i, at)]
    <3>1. i \in 1..Len(Line)
      BY <2>5
    <3>2. CASE i <= Len(f)
      <4>1. Moved(i, at) = i
        BY <1>1, <3>1, <3>2 DEF Moved
      <4>. QED BY <1>4, <2>4, <3>1, <3>2, <4>1
    <3>3. CASE ~(i <= Len(f))
      <4>1. Moved(i, at) = i + 1
        BY <1>1, <3>1, <3>3 DEF Moved
      <4>2. /\ i - Len(f) \in 1..(Len(items) - 1) /\ i + 1 \in 1..Len(Line)
            /\ ~(i + 1 <= Len(f)) /\ (i + 1) - Len(f) = (i - Len(f)) + 1
        BY <1>1, <1>4, <2>5, <3>3
      <4>3. Line'[i] = items[(i - Len(f)) + 1]
        BY <2>3, <2>4, <3>1, <3>3, <4>2
      <4>. QED BY <1>4, <4>1, <4>2, <4>3
    <3>. QED BY <3>2, <3>3
  <2> HIDE DEF at
  <2>. QED BY <1>2, <1>4, <2>1, <2>4, <2>5, <2>6, <2>7, <2>8 DEF d
<1>6. CASE ~(Len(items) >= Cap)
  <2>1. items' = Append(items, d) /\ evicted' = evicted
    BY <1>2, <1>6 DEF Put
  <2>2. /\ items' \in Seq(Letters) /\ Len(items') = Len(items) + 1 /\ items'[Len(items) + 1] = d
        /\ \A i \in 1..Len(items) : items'[i] = items[i]
    BY <1>1, <1>2, <2>1, AppendProperties
  <2>3. /\ Line' \in Seq(Letters) /\ Len(Line') = Len(f) + Len(items')
        /\ \A i \in 1..Len(Line') : Line'[i] = IF i <= Len(f) THEN f[i] ELSE items'[i - Len(f)]
    BY <1>1, <1>3, <2>2, ConcatProperties
  <2>4. Len(Line') = Len(Line) + 1 /\ Len(Line) \in Nat
    BY <1>1, <1>4, <2>2, <2>3
  <2>5. Line'[Len(Line')] = d
    <3>1. /\ Len(Line') \in 1..Len(Line') /\ ~(Len(Line') <= Len(f))
          /\ Len(Line') - Len(f) = Len(items) + 1
      BY <1>1, <1>4, <2>4
    <3>. QED BY <2>2, <2>3, <3>1
  <2>6. ASSUME NEW i \in 1..Len(Line)
        PROVE  Line'[i] = Line[i]
    <3>1. i \in 1..Len(Line')
      BY <2>4
    <3>2. CASE i <= Len(f)
      BY <1>4, <2>3, <3>1, <3>2
    <3>3. CASE ~(i <= Len(f))
      <4>1. i - Len(f) \in 1..Len(items)
        BY <1>1, <1>4, <3>3
      <4>. QED BY <1>4, <2>2, <2>3, <3>1, <3>3, <4>1
    <3>. QED BY <3>2, <3>3
  <2>. QED BY <1>2, <1>4, <2>1, <2>3, <2>4, <2>5, <2>6 DEF d
<1>. QED BY <1>5, <1>6

(* Every step keeps the account of the letters. *)
LEMMA AccountStep ==
  ASSUME IInv, LettersAccounted, [Next]_vars
  PROVE  LettersAccounted'
<1>1. /\ \A i, j \in DOMAIN Line : i < j => Line[i] < Line[j]
      /\ Kept \cup evicted = 1..puts /\ Kept \cap evicted = {}
  BY DEF LettersAccounted, Line, Kept
<1> SUFFICES /\ \A i, j \in DOMAIN Line' : i < j => Line'[i] < Line'[j]
             /\ Kept' \cup evicted' = 1..puts' /\ Kept' \cap evicted' = {}
  BY DEF LettersAccounted, Line, Kept
<1>2. CASE ~Put
  BY <1>1, <1>2, LineKept DEF Kept
<1>3. CASE Put
  <2> DEFINE n == Len(Line')
             d == puts + 1
  <2>1. /\ Line \in Seq(Letters) /\ Line' \in Seq(Letters) /\ n >= 1
        /\ Line'[n] = d /\ puts' = d
    BY <1>3, PutMovesLine
  <2>2. /\ DOMAIN Line = 1..Len(Line) /\ Len(Line) \in Nat /\ DOMAIN Line' = 1..n /\ n \in Nat
        /\ puts \in Nat
    BY <2>1 DEF IInv, TypeOK
  <2>3. \A i \in DOMAIN Line : Line[i] \in Kept /\ Line[i] \in 1..puts
    BY <1>1 DEF Kept
  <2>4. 1..d = (1..puts) \cup {d} /\ d \notin 1..puts
    BY <2>2
  <2> HIDE DEF n, d
  <2>5. CASE evicted' = evicted /\ n = Len(Line) + 1 /\ \A i \in 1..Len(Line) : Line'[i] = Line[i]
    <3>1. ASSUME NEW i \in DOMAIN Line', NEW j \in DOMAIN Line', i < j
          PROVE  Line'[i] < Line'[j]
      <4>1. i \in DOMAIN Line /\ Line'[i] = Line[i]
        BY <2>2, <2>5, <3>1
      <4>2. CASE j = n
        BY <2>1, <2>2, <2>3, <4>1, <4>2 DEF d
      <4>3. CASE j # n
        <5>1. j \in DOMAIN Line /\ Line'[j] = Line[j]
          BY <2>2, <2>5, <4>3
        <5>. QED BY <1>1, <3>1, <4>1, <5>1
      <4>. QED BY <4>2, <4>3
    <3>2. Kept' = Kept \cup {d}
      <4>1. \A i \in DOMAIN Line : i \in DOMAIN Line' /\ Line'[i] = Line[i]
        BY <2>2, <2>5
      <4>2. \A i \in DOMAIN Line' : i \in DOMAIN Line \/ i = n
        BY <2>2, <2>5
      <4>3. n \in DOMAIN Line'
        BY <2>1, <2>2
      <4>. QED BY <2>1, <4>1, <4>2, <4>3 DEF Kept
    <3>. QED BY <1>1, <2>1, <2>4, <2>5, <3>1, <3>2
  <2>6. ASSUME NEW at \in 1..Len(Line),
               evicted' = evicted \cup {Line[at]} /\ n = Len(Line),
               \A i \in 1..(Len(Line) - 1) : Line'[i] = Line[Moved(i, at)]
        PROVE  /\ \A i, j \in DOMAIN Line' : i < j => Line'[i] < Line'[j]
               /\ Kept' \cup evicted' = 1..puts' /\ Kept' \cap evicted' = {}
    <3>1. ASSUME NEW i \in DOMAIN Line', i # n
          PROVE  /\ i \in 1..(Len(Line) - 1) /\ Moved(i, at) \in DOMAIN Line
                 /\ Moved(i, at) # at /\ Line'[i] = Line[Moved(i, at)]
      <4>1. i \in 1..(Len(Line) - 1)
        BY <2>2, <2>6, <3>1
      <4>2. Moved(i, at) \in DOMAIN Line /\ Moved(i, at) # at
        BY <2>2, <4>1 DEF Moved
      <4>. QED BY <2>6, <4>1, <4>2
    <3>2. ASSUME NEW i \in DOMAIN Line', NEW j \in DOMAIN Line', i < j
          PROVE  Line'[i] < Line'[j]
      <4>1. i # n
        BY <2>2, <3>2
      <4>2. Moved(i, at) \in DOMAIN Line /\ Line'[i] = Line[Moved(i, at)]
        BY <3>1, <4>1
      <4>3. CASE j = n
        BY <2>1, <2>2, <2>3, <4>2, <4>3 DEF d
      <4>4. CASE j # n
        <5>1. Moved(j, at) \in DOMAIN Line /\ Line'[j] = Line[Moved(j, at)]
          BY <3>1, <4>4
        <5>2. Moved(i, at) < Moved(j, at)
          BY <2>2, <3>2 DEF Moved
        <5>. QED BY <1>1, <4>2, <5>1, <5>2
      <4>. QED BY <4>3, <4>4
    <3>3. \A i \in DOMAIN Line : i # at => Line[i] # Line[at]
      <4>1. ASSUME NEW i \in DOMAIN Line, i # at PROVE Line[i] # Line[at]
        <5>1. at \in DOMAIN Line /\ (i < at \/ at < i)
          BY <2>2, <4>1
        <5>2. Line[i] \in 1..puts /\ Line[at] \in 1..puts
          BY <2>3, <5>1
        <5>3. Line[i] < Line[at] \/ Line[at] < Line[i]
          BY <1>1, <5>1
        <5>. QED BY <2>2, <5>2, <5>3
      <4>. QED BY <4>1
    <3>4. Kept' = (Kept \ {Line[at]}) \cup {d}
      <4>1. \A i \in DOMAIN Line' : i # n =>
              Line'[i] \in Kept /\ Line'[i] # Line[at]
        BY <2>3, <3>1, <3>3
      <4>2. ASSUME NEW j \in DOMAIN Line, Line[j] # Line[at]
            PROVE  \E i \in DOMAIN Line' : Line'[i] = Line[j]
        <5>1. CASE j < at
          <6>1. j \in 1..(Len(Line) - 1) /\ Moved(j, at) = j /\ j \in DOMAIN Line'
            BY <2>2, <2>6, <5>1 DEF Moved
          <6>. QED BY <2>6, <6>1
        <5>2. CASE at < j
          <6>1. j - 1 \in 1..(Len(Line) - 1) /\ Moved(j - 1, at) = j /\ j - 1 \in DOMAIN Line'
            BY <2>2, <2>6, <5>2 DEF Moved
          <6>. QED BY <2>6, <6>1
        <5>3. j # at
          BY <4>2
        <5>. QED BY <2>2, <5>1, <5>2, <5>3
      <4>3. n \in DOMAIN Line'
        BY <2>1, <2>2
      <4>. QED BY <2>1, <4>1, <4>2, <4>3 DEF Kept
    <3>5. Line[at] \in Kept
      BY <2>2, <2>3
    <3>. QED BY <1>1, <2>1, <2>4, <2>6, <3>2, <3>4, <3>5
  <2>. QED BY <1>3, <2>5, <2>6, PutMovesLine DEF n
<1>. QED BY <1>2, <1>3

(* Every letter put is handled, in Drain's hand, queued or evicted, exactly *)
(* one of these, and the ones that survive keep the order they were put in, *)
(* for any capacity and however Put and Drain interleave.                   *)
THEOREM LettersStayAccounted == Spec => []LettersAccounted
<1>1. Init => LettersAccounted
  <2> SUFFICES ASSUME Init PROVE LettersAccounted
    OBVIOUS
  <2>1. Line = <<>> /\ evicted = {} /\ 1..puts = {}
    BY ConcatEmptySeq, EmptySeq DEF Init, Line
  <2>2. DOMAIN Line = {}
    BY <2>1
  <2>. QED BY <2>1, <2>2 DEF LettersAccounted, Line
<1>2. IInv /\ LettersAccounted /\ [Next]_vars => LettersAccounted'
  BY AccountStep
<1>. QED BY <1>1, <1>2, InvariantHolds, PTL DEF Spec

=============================================================================
