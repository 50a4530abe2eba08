---------------------------- MODULE CoQueue_proof ----------------------------
(***************************************************************************)
(* Theorems about test_2, for any number of producers, consumers and items *)
(* and any capacity of its queue.  To the library its coroutines are one   *)
(* round of the batch client, so what is proved about that holds of them;  *)
(* what the queue adds follows from its own variables and from when main   *)
(* clears g_running.                                                       *)
(***************************************************************************)
EXTENDS CoQueue, Libco_proof, SequenceTheorems

Batch == INSTANCE CoBatch_proof WITH Workers <- Producers + Consumers

USE LibcoAssumption

LEMMA Sizes ==
    /\ Producers \in Nat /\ Producers > 0 /\ Consumers \in Nat /\ Consumers > 0
    /\ Items \in Nat /\ Items > 0 /\ Cap \in Nat /\ Cap > 0
    /\ Producers + Consumers \in Nat \ {0} /\ Producers + Consumers < Capacity
BY QueueAssumption

LEMMA BatchAssumptions == Batch!LibcoAssumption /\ Batch!BatchAssumption
BY Sizes DEF Batch!LibcoAssumption, Batch!BatchAssumption, LibcoAssumption

----------------------------------------------------------------------------
\* Test 2 is a round of the batch client

\* The operations of the library are the same ones.
LEMMA SameStart ==
    ASSUME NEW k, Start(k)
    PROVE  Batch!Start(k)
BY DEF Start, Batch!Start, ClientRuns, Batch!ClientRuns, LinkTarget, Batch!LinkTarget,
       Block, Batch!Block

LEMMA SameSwitch ==
    ASSUME NEW n, NEW f, NEW st, SwitchTo(n, f, st)
    PROVE  Batch!SwitchTo(n, f, st)
BY DEF SwitchTo, Batch!SwitchTo, Pickable, Batch!Pickable, Marked, Batch!Marked,
       Listed, Batch!Listed, Resume, Batch!Resume, Live, Batch!Live,
       Restorable, Batch!Restorable, Landing, Batch!Landing, Frame, Batch!Frame

LEMMA SameReclaim ==
    ASSUME NEW k, NEW n, Reclaim(k, n)
    PROVE  Batch!Reclaim(k, n)
BY SameSwitch DEF Reclaim, Batch!Reclaim, Without, Batch!Without

LEMMA SameCalls ==
    /\ \A n : Yield(n) => Batch!Yield(n)
    /\ \A k, n : Wait(k, n) => Batch!Wait(k, n)
    /\ \A n : WaitLoop(n) => Batch!WaitLoop(n)
BY SameSwitch, SameReclaim
   DEF Yield, Batch!Yield, Wait, Batch!Wait, WaitLoop, Batch!WaitLoop,
       ClientRuns, Batch!ClientRuns

LEMMA SameReturn == Return => Batch!Return
BY DEF Return, Batch!Return, ClientRuns, Batch!ClientRuns,
       Resume, Batch!Resume, Live, Batch!Live,
       Restorable, Batch!Restorable, Landing, Batch!Landing, Frame, Batch!Frame

\* The first co_wait comes after the last co_start.
Started == /\ waited \in Nat
           /\ waited > 0 => Len(thd) = Producers + Consumers

LEMMA StepIsBatch ==
    ASSUME Started, [Next]_vars
    PROVE  Started' /\ [Batch!Next]_(Batch!vars)
<1>1. CASE UNCHANGED vars
  BY <1>1 DEF vars, libco, Started, Batch!vars, Batch!libco
<1>2. ASSUME NEW k \in Co, StartNext(k)
      PROVE  Started' /\ Batch!StartMore(k)
  <2>1. waited = 0
    BY <1>2, Sizes DEF StartNext, Started
  <2> QED  BY <1>2, <2>1, SameStart DEF StartNext, Started, Batch!StartMore
<1>3. ASSUME NEW n \in Block, WaitNext(n)
      PROVE  Started' /\ Batch!WaitNext(n)
  BY <1>3, SameCalls DEF WaitNext, Started, Batch!WaitNext
<1>4. ASSUME NEW n \in Block, WaitMore(n)
      PROVE  Started' /\ Batch!WaitMore(n)
  BY <1>4, SameCalls DEF WaitMore, Started, Batch!WaitMore
<1>5. ASSUME NEW n \in Block, Produce(n) \/ Consume(n)
      PROVE  Started' /\ Batch!WorkerYields(n)
  BY <1>5, SameCalls DEF Produce, Consume, Started, Batch!WorkerYields
<1>6. CASE ProducerReturns \/ ConsumerReturns
  <2>1. Started' /\ Batch!WorkerReturns
    BY <1>6, SameReturn DEF ProducerReturns, ConsumerReturns, Started, Batch!WorkerReturns
  <2> QED  BY <2>1 DEF Batch!Next
<1>7. CASE Drain
  BY <1>7 DEF Drain, libco, Started, Batch!vars, Batch!libco
<1> QED  BY <1>1, <1>2, <1>3, <1>4, <1>5, <1>6, <1>7
         DEF Next, Pick, Batch!Next, Batch!Pick, Block, Batch!Block

\* Test 2 uses the library as the batch client does, with one coroutine for
\* each producer and each consumer.
THEOREM QueueIsBatch == Spec => Batch!Spec
<1>1. Init => Started /\ Batch!Init
  BY DEF Init, Started, LibcoInit, Batch!Init, Batch!LibcoInit, Block, Batch!Block
<1>2. Started /\ [Next]_vars => Started' /\ [Batch!Next]_(Batch!vars)
  BY StepIsBatch
<1> QED  BY <1>1, <1>2, PTL DEF Spec, Batch!Spec

\* What follows about the library's variables from that, said in test_2's own
\* terms: its stacks and blocks, the coroutines that main has already joined.
LEMMA BatchTypes ==
    ASSUME Batch!TypeOK
    PROVE  LibcoTypeOK /\ thd \in Seq(Co) /\ waited \in 0 .. Len(thd)
BY DEF Batch!TypeOK, Batch!LibcoTypeOK, LibcoTypeOK, Block, Batch!Block,
       Context, Batch!Context, Frame, Batch!Frame

LEMMA BatchJoined ==
    ASSUME Batch!TypeOK, Batch!BatchInv, ~wild
    PROVE  /\ \A i, j \in 1 .. Len(thd) : thd[i] = thd[j] => i = j
           /\ running \in Live
           /\ at[Main] = "client" => /\ \A i \in 1 .. waited : at[thd[i]] = "over"
                                     /\ alloc = {thd[i] : i \in waited + 1 .. Len(thd)}
<1>1. Batch!Books /\ Batch!Processor
  BY DEF Batch!BatchInv
<1>2. \A i, j \in 1 .. Len(thd) : thd[i] = thd[j] => i = j
  BY <1>1 DEF Batch!Books
<1>3. running \in Live
  BY <1>1 DEF Batch!Processor, Batch!Live, Live
<1>4. ASSUME at[Main] = "client"
      PROVE  /\ \A i \in 1 .. waited : at[thd[i]] = "over"
             /\ alloc = {thd[i] : i \in waited + 1 .. Len(thd)}
  BY <1>1, <1>4 DEF Batch!Books, Batch!freed
<1> QED  BY <1>2, <1>3, <1>4

----------------------------------------------------------------------------
\* The queue

Data ==
    /\ {g_running, done} \subseteq BOOLEAN
    /\ g_count \in Nat
    /\ made \in [Co -> 0 .. Items]
    /\ list \in Seq(Nat) /\ printed \in Seq(Nat)

LEMMA NatConcat ==
    ASSUME NEW s \in Seq(Nat), NEW t \in Seq(Nat), NEW u \in Seq(Nat)
    PROVE  (s \o t) \o u = s \o (t \o u)
<1> DEFINE a == (s \o t) \o u
           b == s \o (t \o u)
<1>1. a \in Seq(Nat) /\ b \in Seq(Nat)
  OBVIOUS
<1>2. Len(a) = Len(b) /\ \A i \in 1 .. Len(a) : a[i] = b[i]
  OBVIOUS
<1> HIDE DEF a, b
<1>3. a = b
  BY <1>1, <1>2, SeqEqual
<1> QED  BY <1>3 DEF a, b

\* An item that goes to the end of the queue, and one that moves from its head
\* to the end of what is printed.
LEMMA PushSeen ==
    ASSUME NEW p \in Seq(Nat), NEW l \in Seq(Nat), NEW c \in Nat,
           Len(p \o l) = c, \A i \in 1 .. Len(p \o l) : (p \o l)[i] = i - 1
    PROVE  LET s == p \o Append(l, c)
           IN  /\ Append(l, c) \in Seq(Nat) /\ Len(Append(l, c)) = Len(l) + 1
               /\ Len(s) = c + 1
               /\ \A i \in 1 .. Len(s) : s[i] = i - 1
<1> DEFINE q == p \o l
<1>1. p \o Append(l, c) = Append(q, c)
  <2>1. q \in Seq(Nat) /\ <<c>> \in Seq(Nat)
    OBVIOUS
  <2> HIDE DEF q
  <2>2. Append(l, c) = l \o <<c>> /\ Append(q, c) = q \o <<c>>
    BY <2>1, AppendIsConcat
  <2>3. q \o <<c>> = p \o (l \o <<c>>)
    BY <2>1, NatConcat DEF q
  <2> QED  BY <2>2, <2>3
<1>2. q \in Seq(Nat) /\ Len(q) = c /\ \A i \in 1 .. Len(q) : q[i] = i - 1
  OBVIOUS
<1> HIDE DEF q
<1>3. /\ Len(Append(q, c)) = c + 1
      /\ \A i \in 1 .. Len(Append(q, c)) : Append(q, c)[i] = i - 1
  BY <1>2
<1>4. Append(l, c) \in Seq(Nat) /\ Len(Append(l, c)) = Len(l) + 1
  OBVIOUS
<1> QED  BY <1>1, <1>3, <1>4

LEMMA PopSeen ==
    ASSUME NEW p \in Seq(Nat), NEW l \in Seq(Nat), l # <<>>
    PROVE  /\ Append(p, Head(l)) \o Tail(l) = p \o l
           /\ Tail(l) \in Seq(Nat) /\ Head(l) \in Nat /\ Append(p, Head(l)) \in Seq(Nat)
           /\ Len(Tail(l)) = Len(l) - 1 /\ Len(l) \in Nat
<1>1. /\ Tail(l) \in Seq(Nat) /\ Head(l) \in Nat /\ Append(p, Head(l)) \in Seq(Nat)
      /\ Len(Tail(l)) = Len(l) - 1 /\ Len(l) \in Nat
  OBVIOUS
<1>2. l = <<Head(l)>> \o Tail(l) /\ <<Head(l)>> \in Seq(Nat)
  BY <1>1
<1>3. Append(p, Head(l)) = p \o <<Head(l)>>
  BY <1>1, AppendIsConcat
<1>4. (p \o <<Head(l)>>) \o Tail(l) = p \o (<<Head(l)>> \o Tail(l))
  BY <1>1, <1>2, NatConcat
<1> QED  BY <1>1, <1>2, <1>3, <1>4

LEMMA DrainSeen ==
    ASSUME NEW p \in Seq(Nat), NEW l \in Seq(Nat)
    PROVE  (p \o l) \o <<>> = p \o l /\ p \o l \in Seq(Nat)
OBVIOUS

QueueInv == Data /\ SizeAgrees /\ PrintedInOrder

LEMMA QueueInit == Init => QueueInv
<1> SUFFICES ASSUME Init
             PROVE  QueueInv
  OBVIOUS
<1>1. Data
  <2>1. 0 \in 0 .. Items /\ <<>> \in Seq(Nat)
    BY Sizes
  <2>2. made \in [Co -> 0 .. Items]
    BY <2>1 DEF Init
  <2> QED  BY <2>1, <2>2 DEF Init, Data
<1>2. SizeAgrees /\ PrintedInOrder
  BY Sizes DEF Init, SizeAgrees, PrintedInOrder
<1> QED  BY <1>1, <1>2 DEF QueueInv

LEMMA QueueNext ==
    ASSUME QueueInv, [Next]_vars
    PROVE  QueueInv'
<1>1. CASE UNCHANGED <<queueVars, done>> /\ g_running' \in BOOLEAN
  BY <1>1 DEF queueVars, QueueInv, Data, SizeAgrees, PrintedInOrder
<1>2. ASSUME NEW n \in Block, Produce(n), ~Full
      PROVE  QueueInv'
  <2>1. /\ list' = Append(list, g_count) /\ sz' = sz + 1 /\ g_count' = g_count + 1
        /\ printed' = printed /\ g_running' = g_running /\ done' = done
        /\ made[running] < Items /\ made' = [made EXCEPT ![running] = @ + 1]
    BY <1>2 DEF Produce, Push
  <2>2. made' \in [Co -> 0 .. Items]
    <3>1. made \in [Co -> 0 .. Items]
      BY DEF QueueInv, Data
    <3>2. ASSUME running \in Co
          PROVE  made[running] + 1 \in 0 .. Items
      BY <2>1, <3>1, <3>2, Sizes
    <3> QED  BY <2>1, <3>1, <3>2
  <2>3. /\ list' \in Seq(Nat) /\ Len(list') = Len(list) + 1
        /\ PrintedInOrder'
    BY <2>1, PushSeen DEF QueueInv, Data, PrintedInOrder
  <2>4. sz' = Len(list') /\ sz' <= Cap
    BY <1>2, <2>1, <2>3, Sizes DEF QueueInv, Data, SizeAgrees, Full
  <2> QED  BY <2>1, <2>2, <2>3, <2>4 DEF QueueInv, Data, SizeAgrees
<1>3. ASSUME NEW n \in Block, Consume(n), ~Empty
      PROVE  QueueInv'
  <2>1. /\ list # <<>> /\ list' = Tail(list) /\ sz' = sz - 1 /\ g_count' = g_count
        /\ printed' = Append(printed, Head(list))
        /\ g_running' = g_running /\ done' = done /\ made' = made
    BY <1>3 DEF Consume, Pop, Empty
  <2>2. /\ printed' \o list' = printed \o list
        /\ list' \in Seq(Nat) /\ printed' \in Seq(Nat)
        /\ Len(list') = Len(list) - 1 /\ Len(list) \in Nat
    BY <2>1, PopSeen DEF QueueInv, Data
  <2>3. PrintedInOrder'
    BY <2>1, <2>2 DEF QueueInv, PrintedInOrder
  <2>4. sz' = Len(list') /\ sz' <= Cap
    BY <2>1, <2>2, Sizes DEF QueueInv, SizeAgrees
  <2> QED  BY <2>1, <2>2, <2>3, <2>4 DEF QueueInv, Data, SizeAgrees
<1>4. CASE Drain
  <2>1. /\ printed' = printed \o list /\ list' = <<>> /\ sz' = 0 /\ done' = TRUE
        /\ UNCHANGED <<g_running, g_count, made>>
    BY <1>4 DEF Drain
  <2>2. printed' \o list' = printed \o list /\ printed' \in Seq(Nat)
    BY <2>1, DrainSeen DEF QueueInv, Data
  <2> QED  BY <2>1, <2>2, Sizes DEF QueueInv, Data, SizeAgrees, PrintedInOrder
<1>5. ASSUME NEW n \in Block, Produce(n), Full
      PROVE  UNCHANGED <<queueVars, done>> /\ g_running' \in BOOLEAN
  BY <1>5 DEF Produce, queueVars, QueueInv, Data
<1>6. ASSUME NEW n \in Block, Consume(n), Empty
      PROVE  UNCHANGED <<queueVars, done>> /\ g_running' \in BOOLEAN
  BY <1>6 DEF Consume, queueVars, QueueInv, Data
<1>7. ASSUME \/ \E k \in Co : StartNext(k)
             \/ \E n \in Block : WaitNext(n) \/ WaitMore(n)
             \/ ProducerReturns \/ ConsumerReturns \/ UNCHANGED vars
      PROVE  UNCHANGED <<queueVars, done>> /\ g_running' \in BOOLEAN
  BY <1>7 DEF StartNext, WaitNext, WaitMore, ProducerReturns, ConsumerReturns, vars,
              queueVars, QueueInv, Data
<1> QED  BY <1>1, <1>2, <1>3, <1>4, <1>5, <1>6, <1>7 DEF Next, Pick

----------------------------------------------------------------------------
\* g_running

\* main clears g_running after it has joined all producers, and a consumer
\* ends only after that.
Flag ==
    /\ g_running <=> waited <= Producers
    /\ ~wild =>
          /\ ~g_running => \A i \in 1 .. Len(thd) : i <= Producers => at[thd[i]] = "over"
          /\ g_running => \A j \in 1 .. Len(thd) : j > Producers => at[thd[j]] # "over"

LEMMA FlagNext ==
    ASSUME Flag, Started, g_running \in BOOLEAN,
           Batch!TypeOK, Batch!BatchInv, [Next]_vars
    PROVE  Flag'
<1>1. /\ LibcoTypeOK /\ thd \in Seq(Co) /\ waited \in Nat /\ Len(thd) \in Nat
      /\ waited <= Len(thd)
      /\ \A i \in 1 .. Len(thd) : thd[i] \in Co /\ thd[i] \in Block
  BY BatchTypes, Sizes DEF Block
<1>2. CASE UNCHANGED <<thd, waited, g_running, at, wild>>
  BY <1>2 DEF Flag
<1>3. CASE UNCHANGED vars \/ Drain
  BY <1>2, <1>3 DEF vars, libco, Drain
<1>6. ASSUME NEW n \in Block, WaitNext(n)
      PROVE  g_running' <=> waited' <= Producers
  <2>1. g_running' <=> (g_running /\ waited # Producers)
    BY <1>6, Zenon DEF WaitNext, ProducersJoined
  <2>2. waited' = waited + 1 /\ (g_running <=> waited <= Producers)
    BY <1>6 DEF WaitNext, Flag
  <2> QED  BY <1>1, <2>1, <2>2, Sizes
<1>4. CASE wild'
  <2>1. CASE UNCHANGED <<waited, g_running>>
    BY <1>4, <2>1 DEF Flag
  <2>2. ASSUME NEW n \in Block, WaitNext(n)
        PROVE  Flag'
    BY <1>4, <1>6, <2>2 DEF Flag
  <2> QED  BY <1>3, <2>1, <2>2 DEF Next, Pick, StartNext, WaitMore, Produce, Consume,
                   ProducerReturns, ConsumerReturns
<1>5. ASSUME ~wild', Next, ~Drain
      PROVE  Flag'
  <2>1. ~wild /\ at[running] \in {"client", "wait"}
    BY <1>5 DEF Next, Pick, StartNext, WaitNext, WaitMore, Produce, Consume,
                ProducerReturns, ConsumerReturns, Start, Wait, WaitLoop, Yield, Return,
                ClientRuns
  <2>2. /\ \A i, j \in 1 .. Len(thd) : thd[i] = thd[j] => i = j
        /\ running \in Live
        /\ at[Main] = "client" => /\ \A i \in 1 .. waited : at[thd[i]] = "over"
                                  /\ alloc = {thd[i] : i \in waited + 1 .. Len(thd)}
    BY <2>1, BatchJoined
  <2>3. ASSUME NEW k \in Co, StartNext(k)
        PROVE  Flag'
    <3>1. /\ waited = 0 /\ at[Main] = "client" /\ k \notin alloc
          /\ thd' = Append(thd, k) /\ at' = [at EXCEPT ![k] = "entry"]
          /\ UNCHANGED <<waited, g_running>>
      BY <2>3, Sizes DEF StartNext, Start, ClientRuns, Started
    <3>2. /\ g_running /\ g_running'
          /\ \A i \in 1 .. Len(thd) : thd[i] # k
      BY <1>1, <2>2, <3>1, Sizes DEF Flag
    <3>3. \A j \in 1 .. Len(thd') : j > Producers => at'[thd'[j]] # "over"
      <4> TAKE j \in 1 .. Len(thd')
      <4>1. CASE j \in 1 .. Len(thd)
        BY <1>1, <2>1, <3>1, <3>2, <4>1 DEF Flag, LibcoTypeOK
      <4>2. CASE j = Len(thd) + 1
        BY <1>1, <3>1, <4>2 DEF LibcoTypeOK, Block
      <4> QED  BY <1>1, <3>1, <4>1, <4>2
    <3> QED  BY <3>1, <3>2, <3>3 DEF Flag
  <2>4. ASSUME NEW n \in Block, WaitNext(n)
        PROVE  Flag'
    <3>1. /\ at[Main] = "client" /\ waited' = waited + 1 /\ thd' = thd
          /\ Wait(thd[waited + 1], n) /\ thd[waited + 1] \in Co
      BY <1>1, <2>4 DEF WaitNext, Wait, ClientRuns
    <3>2. \A j \in Block : at'[j] = "over" <=> at[j] = "over"
      BY <1>1, <1>5, <3>1, CallEndsNone
    <3>3. g_running' => g_running
      BY <2>4, Zenon DEF WaitNext
    <3>4. ~g_running' => \A i \in 1 .. Len(thd) : i <= Producers => i \in 1 .. waited
      BY <1>1, <1>6, <2>4, <3>1, Sizes
    <3> QED  BY <1>1, <1>6, <2>1, <2>2, <2>4, <3>1, <3>2, <3>3, <3>4 DEF Flag
  <2>5. ASSUME NEW n \in Block, WaitMore(n) \/ Produce(n) \/ Consume(n)
        PROVE  Flag'
    <3>1. UNCHANGED <<thd, waited, g_running>> /\ (WaitLoop(n) \/ Yield(n))
      BY <2>5 DEF WaitMore, Produce, Consume
    <3>2. \A j \in Block : at'[j] = "over" <=> at[j] = "over"
      BY <1>1, <1>5, <3>1, CallEndsNone
    <3> QED  BY <1>1, <2>1, <3>1, <3>2 DEF Flag
  <2>6. CASE ProducerReturns
    <3>1. /\ UNCHANGED <<thd, waited, g_running>> /\ Return /\ IsProducer(running)
      BY <2>6 DEF ProducerReturns
    <3>2. \A j \in Block : at'[j] = "over" <=> (j = running \/ at[j] = "over")
      BY <1>1, <1>5, <3>1, ReturnEndsOne
    <3>3. \A j \in 1 .. Len(thd) : j > Producers => thd[j] # running
      BY <1>1, <2>2, <3>1, Sizes DEF IsProducer
    <3> QED  BY <1>1, <2>1, <3>1, <3>2, <3>3 DEF Flag
  <2>7. CASE ConsumerReturns
    <3>1. /\ UNCHANGED <<thd, waited, g_running>> /\ Return /\ ~g_running
      BY <2>7 DEF ConsumerReturns
    <3>2. \A j \in Block : at'[j] = "over" <=> (j = running \/ at[j] = "over")
      BY <1>1, <1>5, <3>1, ReturnEndsOne
    <3> QED  BY <1>1, <2>1, <3>1, <3>2 DEF Flag
  <2> QED  BY <1>5, <2>3, <2>4, <2>5, <2>6, <2>7 DEF Next, Pick
<1> QED  BY <1>3, <1>4, <1>5

----------------------------------------------------------------------------
\* The theorems

\* The types of the library's variables and of the test's.
THEOREM QueueTypeCorrect == Spec => []TypeOK
<1>1. QueueInv /\ [Next]_vars => QueueInv'
  BY QueueNext
<1>2. Spec => []QueueInv
  BY <1>1, QueueInit, PTL DEF Spec
<1>3. QueueInv /\ Batch!TypeOK => TypeOK
  BY BatchTypes DEF QueueInv, Data, SizeAgrees, TypeOK
<1> QED  BY <1>2, <1>3, QueueIsBatch, BatchAssumptions, Batch!TypeCorrect, PTL

\* However the coroutines are switched, every item is printed once, in the
\* order of their numbers, or is still in the queue.
THEOREM ItemsInOrder == Spec => []PrintedInOrder
<1>1. QueueInv /\ [Next]_vars => QueueInv'
  BY QueueNext
<1>2. QueueInv => PrintedInOrder
  BY DEF QueueInv
<1> QED  BY <1>1, <1>2, QueueInit, PTL DEF Spec

\* The size beside the list is that of the list, and never above the capacity.
THEOREM SizeIsLength == Spec => []SizeAgrees
<1>1. QueueInv /\ [Next]_vars => QueueInv'
  BY QueueNext
<1>2. QueueInv => SizeAgrees
  BY DEF QueueInv
<1> QED  BY <1>1, <1>2, QueueInit, PTL DEF Spec

\* As long as the processor is in the program, no consumer ends before every
\* producer has.
THEOREM ConsumersStay == Spec => []ConsumersOutlastProducers
<1>1. Spec => []Batch!TypeOK /\ []Batch!BatchInv
  BY QueueIsBatch, BatchAssumptions, Batch!TypeCorrect, Batch!Inductive, PTL
<1>2. Init => Started /\ Flag
  BY Sizes DEF Init, Started, Flag
<1>3. QueueInv => g_running \in BOOLEAN
  BY DEF QueueInv, Data
<1>4. QueueInv /\ Started /\ Flag /\ Batch!TypeOK /\ Batch!BatchInv /\ [Next]_vars
      => QueueInv' /\ Started' /\ Flag'
  BY <1>3, QueueNext, StepIsBatch, FlagNext
<1>5. Flag => ConsumersOutlastProducers
  BY DEF Flag, ConsumersOutlastProducers
<1> QED  BY <1>1, <1>2, <1>4, <1>5, QueueInit, PTL DEF Spec
=============================================================================
